----------------------------- MODULE MCExchange -----------------------------
(* Small instances of the HTTP exchange for TLC. *)
EXTENDS Exchange

Line(l) == <<l, "r", "n">>
Blank == <<"r", "n">>
Head3(a, b, c) == Line(a) \o Line(b) \o Line(c) \o Blank

\* client.rs: host, "connection: close", perhaps a token, the length, the body.
Sent == {
    Line("get") \o Head3("host", "h", "len0"),
    Line("get") \o Head3("host", "h", "len2") \o <<"h", "n">>,
    Line("get") \o Head3("host", "h", "len5") \o <<"x", "x", "x", "x", "x">>,
    Line("get") \o Line("h") \o Head3("host", "h", "len0") }

Others == {
    <<>>,
    Line("get") \o Blank \o Line("get") \o Blank,
    Line("get") \o Line("len5") \o Blank \o <<"x">>,
    Line("get") \o Line("len2") \o Blank \o <<"r", "n", "r", "n">>,
    Line("get") \o Line("len1") \o Line("len2") \o Blank \o <<"x", "x">>,
    Line("get") \o Line("host") \o Line("host") \o Blank,
    Line("get") \o Line("te") \o Line("len1") \o Blank \o <<"x">>,
    Line("get") \o <<"h", "n">> \o Blank,
    Line("get") \o Line("h") \o <<"n", "r", "n">> \o Blank,
    Line("esc") \o Line("len2") \o Blank \o <<"x", "x">>,
    Line("v2") \o Blank,
    <<"x", "x">> \o Line("get") \o Blank,
    Line("get") \o Line("h") \o Line("h") \o Line("h") \o Line("h") \o Blank,
    Line("get") \o Line("x") \o Blank,
    Line("get") \o <<"n">> \o Line("len1") \o Line("len2") \o Blank,
    <<"r", "n">> \o Line("get") \o Blank }

\* A refusal is a byte more than the smaller room holds, other answers than the larger.
Sizes == [ok |-> 3, large |-> 3, refused |-> 2]
=============================================================================
