------------------------------- MODULE Records -------------------------------
(***************************************************************************)
(* The records of the store as JSON values (ls-store event.rs, ls-server     *)
(* barrier.rs), and the envelopes inside them (ls-core crypto/aead.rs).     *)
(*                                                                         *)
(* A record in memory is a function on the names of its fields.  An optional *)
(* field holds <<>> or <<x>>, and so does what a reader returns: <<>> is a    *)
(* refusal.  A JSON string keeps whatever text was written into it, an object *)
(* its fields by name; that values survive their bytes is Json's subject.     *)
(***************************************************************************)
EXTENDS Calendar, Encoding

CONSTANT MaxPlaintext    \* MAX_PLAINTEXT_LEN

Null == [kind |-> "null"]
Text(s) == [kind |-> "string", text |-> s]
Number(n) == [kind |-> "int", n |-> n]
Object(fields) == [kind |-> "object", fields |-> fields]

SealedFormat == 1
BarrierFormat == 1
NonceLen == 12

-----------------------------------------------------------------------------
(* Writing: the fields of every type of record, and how each is written. *)

Types == {"user.created", "token.issued", "token.revoked", "project.created",
          "environment.created", "secret.set", "secret.deleted", "audit", "barrier"}

Written == [type \in Types |->
    CASE type = "user.created" ->
           [id |-> "text", email |-> "text", password_hash |-> "text", created_at |-> "time"]
      [] type = "token.issued" ->
           [id |-> "text", token_hash |-> "bytes", kind |-> "text", user_id |-> "maybe text",
            project_id |-> "maybe text", environment_id |-> "maybe text", label |-> "maybe text",
            expires_at |-> "maybe time", created_at |-> "time"]
      [] type = "token.revoked" -> [id |-> "text", at |-> "time"]
      [] type = "project.created" ->
           [id |-> "text", slug |-> "text", name |-> "text", data_key |-> "sealed",
            created_at |-> "time"]
      [] type = "environment.created" ->
           [id |-> "text", project_id |-> "text", slug |-> "text", name |-> "text",
            created_at |-> "time"]
      [] type = "secret.set" ->
           [project_id |-> "text", environment_id |-> "text", key |-> "text", value |-> "sealed",
            at |-> "time"]
      [] type = "secret.deleted" ->
           [project_id |-> "text", environment_id |-> "text", key |-> "text", at |-> "time"]
      [] type = "audit" ->
           [at |-> "time", actor |-> "text", action |-> "text", target |-> "text",
            outcome |-> "text"]
      [] type = "barrier" ->
           [v |-> "number", threshold |-> "number", shares |-> "number",
            root_key_nonce |-> "bytes", root_key_ciphertext |-> "bytes", created_at |-> "time"]]

Field(how, x) ==
    CASE how = "text" -> Text(x)
      [] how = "time" -> Text(to_rfc3339(x))
      [] how = "bytes" -> Text(hex_encode(x))
      [] how = "number" -> Number(x)
      [] how = "maybe text" -> IF x = <<>> THEN Null ELSE Text(x[1])
      [] how = "maybe time" -> IF x = <<>> THEN Null ELSE Text(to_rfc3339(x[1]))
      [] how = "sealed" -> Object([v |-> Number(SealedFormat),
                                   nonce |-> Text(hex_encode(x.nonce)),
                                   ciphertext |-> Text(hex_encode(x.ciphertext))])

to_value(type, record) ==
    Object([n \in DOMAIN record \cup {"type"} |->
               IF n = "type" THEN Text(type) ELSE Field(Written[type][n], record[n])])

-----------------------------------------------------------------------------
(* Reading *)

get(value, name) ==
    IF value.kind = "object" /\ name \in DOMAIN value.fields
    THEN <<value.fields[name]>> ELSE <<>>

text_field(value, name) ==
    LET got == get(value, name)
    IN IF got # <<>> /\ got[1].kind = "string" THEN <<got[1].text>> ELSE <<>>
int_field(value, name) ==
    LET got == get(value, name)
    IN IF got # <<>> /\ got[1].kind = "int" THEN <<got[1].n>> ELSE <<>>
time_field(value, name) ==
    LET s == text_field(value, name) IN IF s = <<>> THEN <<>> ELSE parse_rfc3339(s[1])
bytes_field(value, name) ==
    LET s == text_field(value, name) IN IF s = <<>> THEN <<>> ELSE hex_decode(s[1])

\* Mutant: what cannot be read is taken for not there.
optional_lenient(value, name, found) == <<found>>

\* optional_text_field and optional_time_field: only what is not there, or null, is none.
optional(value, name, found) ==
    IF get(value, name) \in {<<>>, <<Null>>} THEN <<<<>>>>
    ELSE IF found = <<>> THEN <<>> ELSE <<found>>

\* Sealed::from_value, of a field that must be there
sealed_field(value, name) ==
    LET got == get(value, name)
        nonce == bytes_field(got[1], "nonce")
        ciphertext == bytes_field(got[1], "ciphertext")
    IN IF got = <<>> THEN <<>>
       ELSE IF int_field(got[1], "v") # <<SealedFormat>> \/ nonce = <<>> \/ ciphertext = <<>>
       THEN <<>>
       ELSE <<[nonce |-> nonce[1], ciphertext |-> ciphertext[1]]>>

token_kind(value, name) ==
    LET s == text_field(value, name)
    IN IF s \in {<<"root">>, <<"session">>, <<"machine">>} THEN s ELSE <<>>

\* The barrier's format, and its counts, which must fit a byte
known_format(value, name) ==
    LET n == int_field(value, name) IN IF n = <<BarrierFormat>> THEN n ELSE <<>>
small(value, name) ==
    LET n == int_field(value, name)
    IN IF n # <<>> /\ n[1] \in 0 .. 255 THEN n ELSE <<>>

\* What each field of a record is read as, by the reader of events and that of barriers.
Expected == [type \in Types |->
    CASE type = "user.created" ->
           [id |-> "text", email |-> "text", password_hash |-> "text", created_at |-> "time"]
      [] type = "token.issued" ->
           [id |-> "text", token_hash |-> "bytes", kind |-> "kind", user_id |-> "maybe text",
            project_id |-> "maybe text", environment_id |-> "maybe text", label |-> "maybe text",
            expires_at |-> "maybe time", created_at |-> "time"]
      [] type = "token.revoked" -> [id |-> "text", at |-> "time"]
      [] type = "project.created" ->
           [id |-> "text", slug |-> "text", name |-> "text", data_key |-> "sealed",
            created_at |-> "time"]
      [] type = "environment.created" ->
           [id |-> "text", project_id |-> "text", slug |-> "text", name |-> "text",
            created_at |-> "time"]
      [] type = "secret.set" ->
           [project_id |-> "text", environment_id |-> "text", key |-> "text", value |-> "sealed",
            at |-> "time"]
      [] type = "secret.deleted" ->
           [project_id |-> "text", environment_id |-> "text", key |-> "text", at |-> "time"]
      [] type = "audit" ->
           [at |-> "time", actor |-> "text", action |-> "text", target |-> "text",
            outcome |-> "text"]
      [] type = "barrier" ->
           [v |-> "format", threshold |-> "small", shares |-> "small",
            root_key_nonce |-> "bytes", root_key_ciphertext |-> "bytes", created_at |-> "time"]]

Reader(how, value, name) ==
    CASE how = "text" -> text_field(value, name)
      [] how = "kind" -> token_kind(value, name)
      [] how = "time" -> time_field(value, name)
      [] how = "bytes" -> bytes_field(value, name)
      [] how = "format" -> known_format(value, name)
      [] how = "small" -> small(value, name)
      [] how = "maybe text" -> optional(value, name, text_field(value, name))
      [] how = "maybe time" -> optional(value, name, time_field(value, name))
      [] how = "sealed" -> sealed_field(value, name)

Reads(type, value) == [n \in DOMAIN Expected[type] |-> Reader(Expected[type][n], value, n)]

\* The first field that is refused refuses the record.
Complete(read) ==
    IF \E n \in DOMAIN read : read[n] = <<>> THEN <<>>
    ELSE <<[n \in DOMAIN read |-> read[n][1]]>>

\* Event::from_value, which knows of no barrier
from_value(value) ==
    LET type == text_field(value, "type")
    IN IF type = <<>> THEN <<>>
       ELSE IF type[1] \notin Types \ {"barrier"} THEN <<>>
       ELSE Complete(Reads(type[1], value))

\* Barrier::from_bytes, which takes nothing else
barrier_from_bytes(value) ==
    IF text_field(value, "type") # <<"barrier">> THEN <<>>
    ELSE Complete(Reads("barrier", value))

-----------------------------------------------------------------------------
(* Envelopes.  A context is a domain and its fields; lengths are written in one *)
(* byte here and in eight in the code, which no field outgrows.                 *)

\* Mutant: the fields are strung together.
push_bare(field) == field

push_field(field) == <<Len(field)>> \o field

Aad(domain, fields) ==
    push_field(domain) \o <<Len(fields)>>
      \o FlattenSeq([i \in DOMAIN fields |-> push_field(fields[i])])

\* The cipher itself is external: a ciphertext opens under its key, nonce and context.
seal(key, nonce, plaintext, aad) ==
    IF Len(plaintext) > MaxPlaintext THEN <<>>
    ELSE <<[nonce |-> nonce,
            ciphertext |-> [key |-> key, nonce |-> nonce, aad |-> aad, text |-> plaintext]]>>

open(key, envelope, aad) ==
    LET c == envelope.ciphertext
    IN IF /\ Len(envelope.nonce) = NonceLen
          /\ <<key, envelope.nonce, aad>> = <<c.key, c.nonce, c.aad>>
       THEN <<c.text>> ELSE <<>>
=============================================================================
