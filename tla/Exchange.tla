------------------------------ MODULE Exchange ------------------------------
(***************************************************************************)
(* One HTTP exchange over one connection: how ls-http reads a request       *)
(* (request.rs), answers and closes (server.rs, serve_connection and drain), *)
(* and how its own client sends and reads (client.rs).                      *)
(*                                                                         *)
(* A byte is an atom.  "r" and "n" are CR and LF; any other atom is a whole  *)
(* request line or header line without its ending, told apart only as far    *)
(* as the reader tells them apart; in a body an atom is just content.        *)
(* `stream` is everything the peer has to send, in order.  Reads return any  *)
(* part of what has arrived, writes put any part of what is left into the    *)
(* network.  An answer is a number of bytes; what they are is not told apart. *)
(* The clock counts the time the server waits for its peer, in a read or a   *)
(* write; its own work, the handler's included, is not on it.                *)
(***************************************************************************)
EXTENDS Integers, Sequences, SequencesExt, FiniteSetsExt

CONSTANTS
    ClientStreams,  \* what ls-http's own client may send
    PeerStreams,    \* what any other peer may send
    MaxHead, MaxHeaders, MaxBody,   \* Limits, in atoms
    HeadDeadline,   \* Limits.head_deadline, also the socket's read timeout
    WriteTimeout,   \* WRITE_TIMEOUT, of one write
    AnswerSize,     \* how many bytes an answer of each kind has
    DrainTimeout, DrainDeadline, MaxDrain, Sink,   \* of drain
    Buffer,         \* bytes the network holds on their way to the server
    Rooms           \* how many it may hold on their way to the peer

ASSUME ExchangeAssumption ==
    /\ {MaxHead, MaxHeaders, MaxBody, MaxDrain} \subseteq Nat
    /\ {HeadDeadline, WriteTimeout, DrainTimeout, DrainDeadline, Sink, Buffer} \subseteq Nat \ {0}
    /\ AnswerSize \in [{"ok", "large", "refused"} -> Nat \ {0}]
    /\ Rooms \subseteq Nat \ {0}
    /\ ClientStreams \cup PeerStreams \subseteq Seq(STRING)

VARIABLES
    stream,    \* what the peer sends
    own,       \* the peer is ls-http's client
    room,      \* what the network holds of the answer
    pushed,    \* how much of the stream it has written
    seen,      \* how much of the answer it has read
    shut,      \* it has closed its end
    outcome,   \* what the client's send returned: "none" yet, "answer" or "error"
    gaveUp,    \* the client's own timeout ran out
    phase,     \* where serve_connection is
    consumed,  \* how much of the stream the server has read
    head,      \* read_head's buffer
    declared,  \* the Content-Length
    body,      \* read_body's buffer
    err,       \* Request::read's error, or "none"
    answer,    \* the response: "none" yet, "ok", "large" or "refused"
    written,   \* how much of it the network has taken
    drained,   \* drain's total
    clock, asked, since,  \* now; when the pending call was made; when this loop started
    reset      \* the connection was closed with bytes unread

peerVars == <<stream, own, room, pushed, seen, shut, outcome, gaveUp>>
reading == <<head, declared, body, err>>
closing == <<answer, written, drained, reset>>
vars == <<stream, own, room, pushed, seen, shut, outcome, gaveUp, phase, consumed, head,
          declared, body, err, answer, written, drained, clock, asked, since, reset>>

Never == -1        \* no call is pending
Terminator == <<"r", "n", "r", "n">>

-----------------------------------------------------------------------------
(* The head *)

\* Header lines that matter to the reader; any other well-formed one is "h".
Lengths == [len0 |-> 0, len1 |-> 1, len2 |-> 2, len5 |-> 5]
HeaderLines == {"host", "te", "h"} \cup DOMAIN Lengths

\* The last LF before place j, or 0; the first LF.
LfBefore(bytes, j) == Max({0} \cup {i \in 1 .. j - 1 : bytes[i] = "n"})
FirstLf(bytes) == Min({i \in 1 .. Len(bytes) : bytes[i] = "n"})

\* split on LF: the line that the LF at j ends (the head ends with one)
LineAt(bytes, j) == SubSeq(bytes, LfBefore(bytes, j) + 1, j - 1)

\* strip_cr: a line ends with CR, or is empty
EndsInCr(line) == line = <<>> \/ Last(line) = "r"
Stripped(line) == IF line = <<>> THEN line ELSE Front(line)

\* "get" has a sound method, target and version; the target of "esc" cannot be decoded
\* and the version of "v2" is not spoken.
RequestLineError(line) ==
    IF ~EndsInCr(line) THEN "Malformed"
    ELSE IF Stripped(line) \in {<<"get">>, <<"esc">>} THEN "none"
    ELSE IF Stripped(line) = <<"v2">> THEN "UnsupportedVersion"
    ELSE "Malformed"

\* What the header loop carries from line to line.
NoHeaders == [count |-> 0, host |-> FALSE, length |-> Never, ended |-> FALSE, err |-> "none"]

\* Mutant: the last of several lengths counts.
HeaderLineLastWins(so, line) ==
    LET bare == Stripped(line)
    IN IF so.ended \/ so.err # "none" THEN so
       ELSE IF bare = <<>> THEN [so EXCEPT !.ended = TRUE]
       ELSE IF bare[1] \in DOMAIN Lengths THEN [so EXCEPT !.length = Lengths[bare[1]]]
       ELSE [so EXCEPT !.count = @ + 1]

\* The checks on a line, in their order.
HeaderLineError(so, line) ==
    LET bare == Stripped(line)
    IN IF ~EndsInCr(line) THEN "Malformed"
       ELSE IF bare = <<>> THEN "none"
       ELSE IF so.count = MaxHeaders THEN "TooManyHeaders"
       ELSE IF bare \notin {<<h>> : h \in HeaderLines} THEN "Malformed"
       ELSE IF bare = <<"host">> /\ so.host THEN "AmbiguousHost"
       ELSE IF bare = <<"te">> THEN "UnsupportedTransferEncoding"
       ELSE IF bare[1] \in DOMAIN Lengths /\ so.length # Never THEN "AmbiguousLength"
       ELSE "none"

HeaderLine(so, line) ==
    LET bare == Stripped(line)
        e == HeaderLineError(so, line)
    IN IF so.ended \/ so.err # "none" THEN so
       ELSE IF e # "none" THEN [so EXCEPT !.err = e]
       ELSE IF bare = <<>> THEN [so EXCEPT !.ended = TRUE]
       ELSE [so EXCEPT !.count = @ + 1,
                       !.host = @ \/ bare = <<"host">>,
                       !.length = IF bare[1] \in DOMAIN Lengths THEN Lengths[bare[1]] ELSE @]

\* The header loop at byte j: it has work where a line ends that is not the first.
HeaderByte(bytes, so, j) ==
    IF bytes[j] = "n" /\ LfBefore(bytes, j) # 0 THEN HeaderLine(so, LineAt(bytes, j)) ELSE so

Headers(bytes) ==
    LET after[j \in 0 .. Len(bytes)] ==
            IF j = 0 THEN NoHeaders ELSE HeaderByte(bytes, after[j - 1], j)
    IN after[Len(bytes)]

\* Everything Request::read does between the head and the body.
Parsed(bytes) ==
    LET line == LineAt(bytes, FirstLf(bytes))
        first == RequestLineError(line)
        so == Headers(bytes)
        length == IF so.length = Never THEN 0 ELSE so.length
        e == IF first # "none" THEN first
             ELSE IF so.err # "none" THEN so.err
             ELSE IF Stripped(line) = <<"esc">> THEN "Malformed"
             ELSE IF length > MaxBody THEN "BodyTooLarge"
             ELSE "none"
    IN [err |-> e, length |-> length]

\* Where a terminator ends.
Ends(bytes) == {i \in 4 .. Len(bytes) : SubSeq(bytes, i - 3, i) = Terminator}

\* client.rs sends one request, whole, and nothing after it.
ASSUME ClientAssumption ==
    \A s \in ClientStreams :
        /\ Ends(s) # {}
        /\ LET p == Parsed(SubSeq(s, 1, Min(Ends(s))))
           IN p.err = "none" => Len(s) = Min(Ends(s)) + p.length

-----------------------------------------------------------------------------

Errors == {"none", "TimedOut", "Incomplete", "EndedEarly", "IncompleteBody", "HeadTooLarge",
           "Malformed", "UnsupportedVersion", "TooManyHeaders", "AmbiguousHost",
           "UnsupportedTransferEncoding", "AmbiguousLength", "BodyTooLarge"}

\* How long the answer is.
Whole == IF answer = "none" THEN 0 ELSE AnswerSize[answer]

TypeOK ==
    /\ stream \in ClientStreams \cup PeerStreams
    /\ {own, shut, gaveUp, reset} \subseteq BOOLEAN
    /\ consumed \in 0 .. pushed /\ pushed \in 0 .. Len(stream)
    /\ room \in Rooms /\ seen \in 0 .. written /\ written \in 0 .. Whole
    /\ outcome \in {"none", "answer", "error"}
    /\ phase \in {"head", "body", "handling", "answering", "draining", "closed"}
    /\ {head, body} \subseteq Seq(STRING)
    /\ Len(head) <= MaxHead /\ declared \in 0 .. MaxBody /\ Len(body) <= declared
    /\ err \in Errors
    /\ answer \in {"none", "ok", "large", "refused"}
    /\ drained \in 0 .. MaxDrain + Sink - 1
    /\ {clock, since} \subseteq Nat /\ asked \in Nat \cup {Never}
    /\ asked # Never => phase \in {"head", "body", "answering", "draining"}

Init ==
    /\ \/ own = TRUE /\ stream \in ClientStreams
       \/ own = FALSE /\ stream \in PeerStreams
    /\ room \in Rooms
    /\ pushed = 0 /\ seen = 0 /\ shut = FALSE /\ outcome = "none" /\ gaveUp = FALSE
    /\ phase = "head" /\ consumed = 0 /\ head = <<>> /\ declared = 0 /\ body = <<>>
    /\ err = "none" /\ answer = "none" /\ written = 0 /\ drained = 0
    /\ clock = 0 /\ asked = Never /\ since = 0 /\ reset = FALSE

Arrived == pushed - consumed
Rest == Whole - written               \* still to be written
Free == room - (written - seen)       \* what the network has room for

\* Time for a blocked call: the socket's timeout ends it.
Timeout ==
    IF phase = "answering" THEN WriteTimeout
    ELSE IF phase = "draining" THEN DrainTimeout
    ELSE HeadDeadline

\* A read waits for the first byte; a write may wait until all of its bytes have room.
Blocked ==
    \/ phase = "answering" /\ Free < Rest
    \/ phase # "answering" /\ Arrived = 0 /\ ~shut

\* The client writes as soon as there is room, and only then reads, as soon as there
\* is an answer; another peer may wait as long as it likes.
PeerBusy ==
    /\ own /\ outcome = "none"
    /\ IF pushed < Len(stream) THEN Arrived < Buffer ELSE answer # "none"

Tick ==
    /\ asked # Never /\ clock - asked < Timeout
    /\ Blocked /\ ~PeerBusy
    /\ clock' = clock + 1
    /\ UNCHANGED <<peerVars, phase, consumed, reading, closing, asked, since>>

-----------------------------------------------------------------------------
(* The server: Request::read *)

\* A response for the error, and on to writing it.
Refuse(e) == phase' = "answering" /\ err' = e /\ answer' = "refused" /\ since' = clock
NotRefused == UNCHANGED <<phase, err, answer, since>>

\* Mutant: no deadline, only the timeout of each read.
AskWithoutDeadline ==
    /\ phase \in {"head", "body"} /\ asked = Never
    /\ asked' = clock /\ NotRefused
    /\ UNCHANGED <<peerVars, consumed, head, declared, body, written, drained, reset, clock>>

\* The top of read_head's and of read_body's loop: the deadline, then the read.
Ask ==
    /\ phase \in {"head", "body"} /\ asked = Never
    /\ \/ clock - since > HeadDeadline /\ Refuse("TimedOut") /\ UNCHANGED asked
       \/ clock - since <= HeadDeadline /\ asked' = clock /\ NotRefused
    /\ UNCHANGED <<peerVars, consumed, head, declared, body, written, drained, reset, clock>>

\* The head is whole: what follows the last terminator byte stays unread.
HeadFound(whole, used) ==
    LET p == Parsed(whole)
    IN /\ head' = whole
       /\ consumed' = consumed + used
       /\ \/ p.err # "none" /\ declared' = 0 /\ Refuse(p.err)
          \/ /\ p.err = "none" /\ declared' = p.length
             /\ phase' = IF p.length = 0 THEN "handling" ELSE "body"
             /\ UNCHANGED <<err, answer, since>>

\* Mutant: the terminator is looked for in the new bytes only.
NoOverlap == 0

\* How many of the bytes held already the search for the terminator goes back over.
Overlap == Min({Len(head), Len(Terminator) - 1})

\* How many of n available bytes are taken.
Take(n) == Min({n, MaxHead - Len(head)})

\* read_head: some bytes have come.  The search goes back over the last three
\* bytes held, and no more than MaxHead bytes are ever held.
ReadHead ==
    /\ phase = "head" /\ asked # Never
    /\ \E n \in 1 .. Arrived :
        LET from == Len(head) - Overlap
            held == head \o SubSeq(stream, consumed + 1, consumed + Take(n))
            at == {i \in from .. Len(held) - 4 : SubSeq(held, i + 1, i + 4) = Terminator}
            end == Min(at) + Len(Terminator)
        IN \/ at # {} /\ HeadFound(SubSeq(held, 1, end), end - from - Overlap)
           \/ /\ at = {}
              /\ head' = held /\ consumed' = consumed + Take(n)
              /\ \/ Len(held) >= MaxHead /\ Refuse("HeadTooLarge")
                 \/ Len(held) < MaxHead /\ NotRefused
              /\ UNCHANGED declared
    /\ asked' = Never
    /\ UNCHANGED <<peerVars, body, written, drained, reset, clock>>

\* read_head: the end of the stream, or a read that timed out.  A connection that
\* sent nothing is dropped without an answer.
ReadHeadFails ==
    /\ phase = "head" /\ asked # Never /\ Arrived = 0
    /\ \/ /\ shut /\ head = <<>> /\ phase' = "closed" /\ err' = "Incomplete"
          /\ UNCHANGED <<answer, since>>
       \/ shut /\ head # <<>> /\ Refuse("EndedEarly")
       \/ ~shut /\ clock - asked = Timeout /\ Refuse("TimedOut")
    /\ asked' = Never
    /\ UNCHANGED <<peerVars, consumed, head, declared, body, written, drained, reset, clock>>

\* read_body: never past the declared length.
ReadBody ==
    /\ phase = "body" /\ asked # Never
    /\ \E n \in 1 .. Min({Arrived, declared - Len(body)}) :
        /\ body' = body \o SubSeq(stream, consumed + 1, consumed + n)
        /\ consumed' = consumed + n
    /\ phase' = IF Len(body') = declared THEN "handling" ELSE "body"
    /\ asked' = Never
    /\ UNCHANGED <<peerVars, head, declared, err, closing, clock, since>>

\* read_body: the end of the stream and a timed out read are the same error.
ReadBodyFails ==
    /\ phase = "body" /\ asked # Never /\ Arrived = 0
    /\ shut \/ clock - asked = Timeout
    /\ Refuse("IncompleteBody")
    /\ asked' = Never
    /\ UNCHANGED <<peerVars, consumed, head, declared, body, written, drained, reset, clock>>

-----------------------------------------------------------------------------
(* The server: serve_connection and drain *)

Close == phase' = "closed" /\ reset' = (Arrived > 0)

\* The handler ran, or panicked: a 500 is an answer like another.
Handle ==
    /\ phase = "handling"
    /\ answer' \in {"ok", "large"}
    /\ phase' = "answering" /\ since' = clock
    /\ UNCHANGED <<peerVars, consumed, reading, written, drained, reset, clock, asked>>

\* write_all's loop in write_to: there is something left, and it is written.
WriteAsk ==
    /\ phase = "answering" /\ asked = Never
    /\ asked' = clock
    /\ UNCHANGED <<peerVars, phase, consumed, reading, closing, clock, since>>

\* Mutant: the connection is closed on what is still coming.
CloseOnRefusal == Close /\ UNCHANGED since

\* The answer is out, or given up.  After a refusal the sending half is shut and the
\* rest drained; otherwise the connection closes.
Answered ==
    \/ answer = "refused" /\ phase' = "draining" /\ since' = clock /\ UNCHANGED reset
    \/ answer # "refused" /\ Close /\ UNCHANGED since

\* A write takes some of what is left, as far as there is room.
WriteSome ==
    /\ phase = "answering" /\ asked # Never
    /\ \E n \in 1 .. Min({Free, Rest}) :
        /\ written' = written + n
        /\ \/ n = Rest /\ Answered
           \/ n < Rest /\ UNCHANGED <<phase, since, reset>>
    /\ asked' = Never
    /\ UNCHANGED <<peerVars, consumed, reading, answer, drained, clock>>

\* A write that took nothing within its timeout, or on a connection the peer has
\* closed, is an error, which serve_connection ignores: the rest is not written.
WriteFails ==
    /\ phase = "answering" /\ asked # Never
    /\ shut \/ (Free = 0 /\ clock - asked = Timeout)
    /\ Answered /\ asked' = Never
    /\ UNCHANGED <<peerVars, consumed, reading, answer, written, drained, clock>>

\* The drain loop's condition, then its read or the end.
DrainAsk ==
    /\ phase = "draining" /\ asked = Never
    /\ \/ /\ drained < MaxDrain /\ clock - since < DrainDeadline
          /\ asked' = clock /\ UNCHANGED <<phase, reset>>
       \/ /\ drained >= MaxDrain \/ clock - since >= DrainDeadline
          /\ Close /\ UNCHANGED asked
    /\ UNCHANGED <<peerVars, consumed, reading, answer, written, drained, clock, since>>

DrainRead ==
    /\ phase = "draining" /\ asked # Never
    /\ \E n \in 1 .. Min({Arrived, Sink}) :
        consumed' = consumed + n /\ drained' = drained + n
    /\ asked' = Never
    /\ UNCHANGED <<peerVars, phase, reading, answer, written, reset, clock, since>>

DrainEnds ==
    /\ phase = "draining" /\ asked # Never /\ Arrived = 0
    /\ shut \/ clock - asked = Timeout
    /\ Close /\ asked' = Never
    /\ UNCHANGED <<peerVars, consumed, reading, answer, written, drained, clock, since>>

-----------------------------------------------------------------------------
(* The peer *)

server == <<phase, consumed, reading, closing, clock, asked, since>>

\* write_all, byte by byte: it blocks while the network is full.
Push ==
    /\ phase # "closed" /\ ~shut /\ outcome = "none"
    /\ pushed < Len(stream) /\ Arrived < Buffer
    /\ pushed' = pushed + 1
    /\ UNCHANGED <<stream, own, room, seen, shut, outcome, gaveUp, server>>

\* The client reads when everything is written, another peer when it likes, or never.
PeerReads ==
    /\ outcome = "none" /\ own => pushed = Len(stream)
    /\ seen < written /\ seen' = seen + 1
    /\ UNCHANGED <<stream, own, room, pushed, shut, outcome, gaveUp, server>>

\* A peer other than the client may stop anywhere.
PeerShuts ==
    /\ ~own /\ ~shut /\ phase # "closed"
    /\ shut' = TRUE
    /\ UNCHANGED <<stream, own, room, pushed, seen, outcome, gaveUp, server>>

Returns(how) ==
    /\ outcome' = how /\ shut' = TRUE
    /\ UNCHANGED <<stream, own, room, pushed, seen, server>>

\* read_response has what it needs: the whole answer, or of one longer than the
\* client's own limits the beginning, which is an error to it.
ClientReads ==
    /\ own /\ outcome = "none" /\ pushed = Len(stream)
    /\ \/ answer = "large" /\ seen > 0 /\ Returns("error")
       \/ answer \in {"ok", "refused"} /\ seen = Whole /\ Returns("answer")
    /\ UNCHANGED gaveUp

\* Writing to a closed connection, or reading one that was reset (the reset may
\* overtake the answer) or whose end comes before the answer's.
ClientCutOff ==
    /\ own /\ outcome = "none"
    /\ \/ phase = "closed" /\ (pushed < Len(stream) \/ reset)
       \/ phase \in {"draining", "closed"} /\ pushed = Len(stream) /\ seen = written /\ Rest > 0
    /\ Returns("error") /\ UNCHANGED gaveUp

\* The client's own timeouts: of its read, while the handler works or waits for the
\* vault; of its write, while the server is blocked in writing a refusal to it.
ClientGivesUp ==
    /\ own /\ outcome = "none"
    /\ \/ phase = "handling" /\ pushed = Len(stream)
       \/ phase = "answering" /\ Free < Rest /\ pushed < Len(stream) /\ Arrived = Buffer
    /\ gaveUp' = TRUE /\ Returns("error")

ReadStep == Ask \/ ReadHead \/ ReadHeadFails \/ ReadBody \/ ReadBodyFails
CloseStep ==
    Handle \/ WriteAsk \/ WriteSome \/ WriteFails \/ DrainAsk \/ DrainRead \/ DrainEnds
PeerStep == Push \/ PeerReads \/ PeerShuts \/ ClientReads \/ ClientCutOff \/ ClientGivesUp

Next == Tick \/ ReadStep \/ CloseStep \/ PeerStep

Spec == Init /\ [][Next]_vars

-----------------------------------------------------------------------------
(* Properties *)

\* What a reader that had the whole stream at once would make of it.
HeadEnds == {i \in Ends(stream) : i <= MaxHead}
Ideal ==
    IF HeadEnds = {} THEN [err |-> "HeadTooLarge", length |-> 0]
    ELSE Parsed(SubSeq(stream, 1, Min(HeadEnds)))

\* However the bytes were cut into reads, the server serves exactly the request
\* that was sent, every byte of its body once and in place, and refuses for what
\* the stream holds, never for where a read happened to end (read_head, read_body).
ReadsWhatWasSent ==
    /\ phase = "handling" \/ answer \in {"ok", "large"} =>
          /\ Ideal.err = "none"
          /\ body = SubSeq(stream, Min(HeadEnds) + 1, Min(HeadEnds) + Ideal.length)
    /\ err \notin {"none", "TimedOut", "Incomplete", "EndedEarly", "IncompleteBody"} =>
          Ideal.err = err

\* A request that is served can be read only one way: in what was consumed as its
\* head there is one length at most, one host at most and no other framing.  Heads
\* with a bare LF are left out: strip_cr, which is there to refuse those, takes an empty
\* line that ends in one, and what comes after it in the head is never looked at.
OneReading ==
    phase = "handling" \/ answer \in {"ok", "large"} =>
        \/ \E i \in DOMAIN head : head[i] = "n" /\ (i = 1 \/ head[i - 1] # "r")
        \/ LET count(names) == Cardinality({i \in DOMAIN head : head[i] \in names})
           IN count(DOMAIN Lengths) <= 1 /\ count({"host"}) <= 1 /\ count({"te"}) = 0

\* No peer keeps a worker waiting for longer than this, whether it dribbles bytes, goes
\* quiet, sends on after a refusal, or takes its answer slowly or not at all: two request
\* deadlines (read_head, read_body), one write timeout for each byte of the answer (the
\* timeout is of one write, and a write may take one byte), and after a refusal the drain.
WorkerFreed ==
    /\ phase \in {"head", "body", "handling"} => clock <= 2 * HeadDeadline
    /\ phase = "answering" => clock <= 2 * HeadDeadline + Whole * WriteTimeout
    /\ phase = "draining" =>
          clock <= 2 * HeadDeadline + Whole * WriteTimeout + DrainDeadline + DrainTimeout

\* server.rs says of WRITE_TIMEOUT that it is how long a response may take to go out
\* before the connection is dropped.
GoesOutInTime == phase = "answering" => clock - since <= WriteTimeout

\* The network has no room for a whole refusal.
Cramped == answer = "refused" /\ AnswerSize["refused"] > room

\* ls-http's own client always gets the server's answer, a refusal too, unless its
\* own timeout ran out, the answer exceeds its limits, what it still had to send
\* when it was refused is more than drain clears, or the refusal could not be written
\* in one go while the client was itself still writing.
AnswerIsRead ==
    own /\ outcome = "error" =>
        \/ gaveUp \/ answer = "large" \/ Cramped
        \/ Len(stream) - (consumed - drained) > MaxDrain
=============================================================================
