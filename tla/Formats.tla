------------------------------ MODULE Formats ------------------------------
(***************************************************************************)
(* What the program writes, it must read back, and nothing else may pass     *)
(* for it: timestamps, base64, hexadecimal, printed shares, names in paths,   *)
(* .env files, records and envelopes.  A behaviour takes one codec and feeds  *)
(* it longer input, those of Codecs too; the calendar it walks day by day,    *)
(* beside a reference calendar.                                              *)
(***************************************************************************)
EXTENDS Records, Dotenv

CONSTANTS
    Alphabet,      \* for every format of text, the pieces its input is made of
    Longest,       \* and the number of pieces of the longest input
    Continues(_, _),  \* whether a text is worth continuing: one refused for good is not
    Splits,        \* the splits tried: width, threshold, and the elements drawn upon
    Anchors        \* where the calendar starts: a day, its date, and the days to walk

Growing == {"b64", "hex", "share", "name", "slot", "dotenv", "json", "number", "string"}

-----------------------------------------------------------------------------
(* The Gregorian calendar, as a rule of its own. *)

\* Every fourth year is a leap year, but of the centuries only every fourth.
LeapYear(y) == y % 4 = 0 /\ (y % 100 = 0 => y % 400 = 0)
MonthDays(y, m) == IF m = 2 /\ LeapYear(y) THEN 29
                   ELSE <<31, 28, 31, 30, 31, 30, 31, 31, 30, 31, 30, 31>>[m]

IsDate(date) ==
    /\ date = [year |-> date.year, month |-> date.month, day |-> date.day]
    /\ date.year \in Int /\ date.month \in 1 .. 12
    /\ date.day \in 1 .. MonthDays(date.year, date.month)

Tomorrow(date) ==
    IF date.day < MonthDays(date.year, date.month) THEN [date EXCEPT !.day = @ + 1]
    ELSE IF date.month < 12 THEN [date EXCEPT !.day = 1, !.month = @ + 1]
    ELSE [year |-> date.year + 1, month |-> 1, day |-> 1]

\* The day of the epoch on which a year begins, a month after it, and a date: every year
\* before has 365 days and the leap years one more.
YearBegins(y) == 365 * y + (y + 3) \div 4 - (y + 99) \div 100 + (y + 399) \div 400 - 719528
MonthBegins(y, m) ==
    <<0, 31, 59, 90, 120, 151, 181, 212, 243, 273, 304, 334>>[m]
      + (IF m > 2 /\ LeapYear(y) THEN 1 ELSE 0)
DayNumber(date) == YearBegins(date.year) + MonthBegins(date.year, date.month) + date.day - 1

ASSUME FormatsAssumption ==
    /\ MaxPlaintext \in Nat
    /\ Alphabet.b64 \subseteq 0 .. Alien
    /\ Alphabet.hex \subseteq HexDigits \cup {NotHex}
    /\ Alphabet.share \subseteq 0 .. 255
    /\ \A name \in Alphabet.slot : name \in Seq(0 .. 255)
    /\ \A format \in Growing \cup {"record"} : Longest[format] \in Nat
    /\ \A a \in Anchors : IsDate(a.date) /\ a.day = DayNumber(a.date) /\ a.days \in Nat

-----------------------------------------------------------------------------

VARIABLES
    codec,   \* which of them
    given,   \* what it works on: a record, the number of a day
    text     \* the input so far: characters, the damage to a record, the date

vars == <<codec, given, text>>

-----------------------------------------------------------------------------
(* The input *)

\* A record with nothing in its optional fields, or with something in all.
Sample(type, full) ==
    [n \in DOMAIN Written[type] |->
        LET how == Written[type][n]
            moment == IF full THEN MaxMoment ELSE MinMoment
            bytes == IF full THEN <<0, 171>> ELSE <<>>
        IN CASE n = "kind" -> IF full THEN "machine" ELSE "root"
             [] how = "text" /\ n # "kind" -> n
             [] how = "time" -> moment
             [] how = "bytes" -> bytes
             [] how = "number" -> IF n = "v" THEN BarrierFormat ELSE IF full THEN 255 ELSE 1
             [] how = "maybe text" -> IF full THEN <<n>> ELSE <<>>
             [] how = "maybe time" -> IF full THEN <<moment>> ELSE <<>>
             [] how = "sealed" -> [nonce |-> bytes, ciphertext |-> <<1, 2>>]]

\* the ways to share a secret: coefficients drawn for it
Deals(split, elements) ==
    [split : {split}, secret : elements, coefficients : [1 .. split.threshold - 1 -> elements]]

Init ==
    \/ /\ codec = "calendar"
       /\ \E a \in Anchors : given = [day |-> a.day, left |-> a.days] /\ text = a.date
    \/ /\ codec = "record" /\ text = {}
       /\ \E type \in DOMAIN Written, full \in BOOLEAN :
              given = [type |-> type, record |-> Sample(type, full)]
    \/ /\ codec = "shamir" /\ text = <<>>
       /\ \E s \in Splits : given \in Deals(s, s.sample)
    \/ /\ codec \in Growing /\ given = <<>> /\ text = <<>>

\* A day passes.
NextDay ==
    /\ codec = "calendar"
    /\ given.left > 0
    /\ given' = [day |-> given.day + 1, left |-> given.left - 1]
    /\ text' = Tomorrow(text)
    /\ UNCHANGED codec

\* One more field of a record is not as it was written: gone, null, a number it never
\* was, or an object.
Spoil ==
    /\ codec = "record"
    /\ Cardinality(text) < Longest.record
    /\ \E n \in DOMAIN given.record \cup {"type"}, how \in {"gone", "null", "number", "object"} :
          /\ \A d \in text : d.name # n
          /\ text' = text \cup {[name |-> n, how |-> how]}
    /\ UNCHANGED <<codec, given>>

\* A further piece of text arrives.
Lengthen ==
    /\ codec \in Growing
    /\ Len(text) < Longest[codec]
    /\ Continues(codec, text)
    /\ \E piece \in Alphabet[codec] : text' = Append(text, piece)
    /\ UNCHANGED <<codec, given>>

\* A further share is handed in.
HandIn ==
    /\ codec = "shamir"
    /\ Len(text) < given.split.threshold
    /\ \E i \in given.split.sample \ {0} : text' = Append(text, i)
    /\ UNCHANGED <<codec, given>>

Next == NextDay \/ Spoil \/ Lengthen \/ HandIn

Spec == Init /\ [][Next]_vars

-----------------------------------------------------------------------------
(* Dates and times *)

Seconds == {0, 59, 3599, 43200, DaySeconds - 1}

\* The conversions between days and dates agree with the calendar walked day by day, leap
\* years, centuries and the year zero included.  Whatever the clock of the host says, the
\* time an event is stamped with is read back as the same moment, so that no clock writes
\* a store that cannot be opened again.
TimesAreExact ==
    codec = "calendar" =>
        /\ civil_from_days(given.day) = text
        /\ days_from_civil(text.year, text.month, text.day) = given.day
        /\ \A second \in Seconds :
              LET m == from_unix([day |-> given.day, second |-> second])
              IN parse_rfc3339(to_rfc3339(m)) = <<m>>

-----------------------------------------------------------------------------
(* Bytes and names *)

\* The ways to miscopy one place of a printed share.
Miscopied(p) ==
    {[p EXCEPT !.prefix = "lss2"]}
      \cup {[p EXCEPT !.index = i] : i \in {0, 2, 255, NotU8}}
      \cup {[p EXCEPT !.data = ReplaceAt(@, i, c)] : i \in DOMAIN p.data, c \in {0, 1, 16, 63, 64}}
      \cup {[p EXCEPT !.data = Front(@)]}
      \cup {[p EXCEPT !.sum = ReplaceAt(@, i, c)] : i \in DOMAIN p.sum, c \in {1, 15, 31, 32}}
      \cup {[p EXCEPT !.sum = Front(@)]}

\* A text is accepted as base64 for one sequence of bytes only, and it is the text written
\* for them; hexadecimal may differ in case.  A printed share, which holds both, is read back
\* as itself, and miscopied in one place it is refused or is still itself, by a hexadecimal
\* letter's case: a typo never becomes a different share, which would make unseal fail
\* without saying which share is wrong.
SpelledOnce ==
    /\ codec = "b64" => LET bytes == b64_decode(text)
                        IN bytes # <<>> => b64_encode(bytes[1]) = text
    /\ codec = "hex" => LET bytes == hex_decode(text)
                        IN bytes # <<>> => hex_encode(bytes[1]) = Lower(text)
    /\ codec = "share" /\ text # <<>> =>
         LET share == [index |-> 1, data |-> text]
         IN /\ parse_share(print_share(share)) = <<share>>
            /\ \A p \in Miscopied(print_share(share)) : parse_share(p) \in {<<>>, <<share>>}

Target(name) == <<"/", "a", "/">> \o name

\* A name that the server accepts travels in a request path as it stands, although the
\* client escapes nothing: the path that holds it has that name as its last segment.
NamesNeedNoEscape ==
    codec = "name" /\ (slug(text) \/ secret_key(text)) =>
        path_segments(Target(text)) = <<<<<<"a">>, text>>>>

Exported(value) == <<[key |-> <<"a">>, value |-> value], [key |-> <<"f">>, value |-> <<"f">>]>>

\* What lsec exports it imports again: the pairs read from the .env text are those written,
\* whatever is in the values.
ExportImports ==
    codec = "dotenv" => parse_dotenv(export_text(Exported(text))) = Exported(text)

-----------------------------------------------------------------------------
(* Records and envelopes *)

Spoilt(value, damage) ==
    LET lost == {d.name : d \in {e \in damage : e.how = "gone"}}
        how(n) == CHOOSE h \in {"null", "number", "object"} : [name |-> n, how |-> h] \in damage
        put(n) == CASE how(n) = "null" -> Null
                    [] how(n) = "number" -> Number(256)
                    [] how(n) = "object" -> Object([v |-> Number(2)])
    IN Object([n \in DOMAIN value.fields \ lost |->
                    IF \E d \in damage : d.name = n THEN put(n) ELSE value.fields[n]])

\* The vault reads the first record of a file as a barrier and the others as events.
ReadAs(first, value) == IF first THEN barrier_from_bytes(value) ELSE from_value(value)

\* What is read from a record with some of its fields damaged, in its place and in the other's.
ReadsBack(type, record, damage) ==
    LET names == {d.name : d \in damage}
        none == {n \in DOMAIN record : Written[type][n] \in {"maybe text", "maybe time"}}
        harmless == names \subseteq none /\ \A d \in damage : d.how \in {"gone", "null"}
        value == Spoilt(to_value(type, record), damage)
    IN /\ ReadAs(type = "barrier", value)
            = IF harmless
              THEN <<[n \in DOMAIN record |-> IF n \in names THEN <<>> ELSE record[n]]>>
              ELSE <<>>
       /\ ReadAs(type # "barrier", value) = <<>>

\* A record is read back as it was written, whatever is in its optional fields; with a
\* field gone, of another kind, out of range or of another format, it is refused and
\* never taken for a different record, but that an optional field that is gone is none.
\* In the other's place a barrier or an event is always refused.  A text changed into
\* another text, the type's own too, is not this reader's to notice: records are sealed.
RecordsReadBack == codec = "record" => ReadsBack(given.type, given.record, text)

Slots == UNION {[1 .. n -> Alphabet.slot] : n \in 1 .. Longest.slot}
Context == [slot \in Slots |-> Aad(Head(slot), Tail(slot))]

\* A value that was sealed in one slot opens there and in no other, however the names of
\* the two run together: moving a ciphertext between projects, environments, keys or
\* positions of the file is always noticed.
OpensInItsSlotOnly ==
    codec = "slot" /\ text # <<>> =>
        LET sealed == seal("key", [i \in 1 .. NonceLen |-> 0], text[1], Context[text])
        IN IF Len(text[1]) > MaxPlaintext THEN sealed = <<>>
           ELSE \A other \in Slots :
                   open("key", sealed[1], Context[other])
                     = IF other = text THEN <<text[1]>> ELSE <<>>

=============================================================================
