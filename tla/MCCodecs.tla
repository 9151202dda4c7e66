------------------------------ MODULE MCCodecs ------------------------------
(* Small instances of the codecs for TLC. *)
EXTENDS Codecs, TLC

\* GF(4) and GF(8), where x^2 and x^3 are x + 1, and the code's GF(256)
Fields == 2 :> 3 @@ 3 :> 3 @@ 8 :> 27

\* the narrow fields whole; of the wide one the ends and the middle
SmallSplits ==
    [width : {2}, threshold : 1 .. 3, sample : {0 .. 3}]
      \cup [width : {3}, threshold : 1 .. 2, sample : {0 .. 7}]
      \cup [width : {8}, threshold : 1 .. 2, sample : {{0, 1, 128, 255}}]

Str(c) == <<"\"", c, "\"">>

Pieces == [b64    |-> {0, 1, 4, 16, 63, 64},
           hex    |-> {0, 9, 10, 15, 31, 32},
           share  |-> {0, 1, 255},
           name   |-> {"a", "f", "A", "2", "5", "-", "_", ".", "/", "%", "?", "+", "="},
           slot   |-> UNION {[1 .. n -> {0, 1, 2}] : n \in 0 .. 2},
           dotenv |-> {"a", "n", "\"", "'", "\\", "\n", "\r", "\t", " ", "#", "="},
           json   |-> {<<c>> : c \in {"[", "]", "{", "}", ",", ":", "null"}} \cup {Str("a"), Str("b")},
           number |-> {"-", "+", "0", "1", ".", "e"},
           string |-> {"a", "n", "u", "\"", "\\", "\n", "HIGH", "LOW", "0061"}]

Lengths == [b64 |-> 6, hex |-> 4, share |-> 3, name |-> 4, slot |-> 3, record |-> 2,
            dotenv |-> 4, json |-> 9, number |-> 6, string |-> 5]

Date(y, m, d) == [year |-> y, month |-> m, day |-> d]

\* the first writable year, a cycle of 400 years from the epoch, the last writable year
Starts == {[day |-> -719530, date |-> Date(-1, 12, 30), days |-> 800],
           [day |-> 0, date |-> Date(1970, 1, 1), days |-> 36525],
           [day |-> 36525, date |-> Date(2070, 1, 1), days |-> 36524],
           [day |-> 73049, date |-> Date(2170, 1, 1), days |-> 36524],
           [day |-> 109573, date |-> Date(2270, 1, 1), days |-> 36524],
           [day |-> 2932532, date |-> Date(9999, 1, 1), days |-> 370]}

=============================================================================
