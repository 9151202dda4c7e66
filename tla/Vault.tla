------------------------------- MODULE Vault -------------------------------
(***************************************************************************)
(* The data plane of ls-server (vault.rs, and the handlers of api.rs that   *)
(* call it) over the event-sourced state of ls-store (state.rs, event.rs):  *)
(* accounts, tokens, projects, environments, secrets and the audit trail.   *)
(*                                                                         *)
(* Every request takes the one lock around the vault and runs to its end    *)
(* under it, so a handler is one step; what may cut it short is a record    *)
(* the store refuses, a write that fails, a panic between writing a record  *)
(* and applying it, or the end of the process.  The key hierarchy is Seal's *)
(* subject: here a vault is sealed or unsealed.                             *)
(*                                                                         *)
(* Identifiers are fresh random numbers in the code.  Here an identifier is *)
(* the position its record is written at, which is as fresh: a record that  *)
(* was lost again belongs to a call that reported failure, and its          *)
(* identifier was never given out.  A token is presented as its identifier  *)
(* (the hash of the secret finds the record).                               *)
(***************************************************************************)
EXTENDS Integers, Sequences, FiniteSets, Functions

CONSTANTS
    Emails, ProjectSlugs, EnvironmentSlugs, SecretKeys, Values,
    Large,     \* values that pass the size check and whose record the store refuses
    Batches,   \* bulk writes: sequences of <<key, value>> with different keys
    Lifetimes, \* what a token may be asked to live
    Histories, \* what the file may hold to begin with, init's root token first, and
               \* for each a bound: the records that may be added to it
    MaxNow     \* bound: the clock

Absent == "absent"

ASSUME VaultAssumption ==
    /\ Large \subseteq Values /\ Absent \notin Values
    /\ Batches \subseteq Seq(SecretKeys \X Values)
    /\ Lifetimes \subseteq Nat
    /\ MaxNow \in Nat

VARIABLES
    content, sure, older,  \* the store file, without the barrier: see DurableLog; an
               \* older file with the ghosts of when it was replaced
    pc,        \* "down" or "up"
    broken,    \* Log.broken
    unsealed,  \* Vault.root_key is there
    state,     \* Vault.state
    poisoned,  \* a handler panicked holding the lock
    now,       \* the wall clock
    limit,     \* bound: records the file may grow to
    ret,       \* how the last call ended
    dead,      \* ghost: tokens whose end was acknowledged
    may,       \* ghost: <<slot, value>> that acknowledged or failed writes allow
    shown      \* ghost: the audit entries of the values handed out

file == <<content, sure, older>>
ghosts == <<dead, may, shown>>
vars == <<content, sure, older, pc, broken, unsealed, state, poisoned, now, limit, ret,
          dead, may, shown>>

L == INSTANCE DurableLog

-----------------------------------------------------------------------------
(* Events *)

Never == MaxNow + 1
NoScope == <<0, 0>>
NoUser == 0

UserCreated(id, email) == [type |-> "user", id |-> id, email |-> email]
TokenIssued(id, kind, user, scope, expires) ==
    [type |-> "token", id |-> id, kind |-> kind, user |-> user, scope |-> scope,
     expires |-> expires]
TokenRevoked(id) == [type |-> "revoked", id |-> id]
ProjectCreated(id, slug) == [type |-> "project", id |-> id, slug |-> slug]
EnvironmentCreated(id, project, slug) ==
    [type |-> "environment", id |-> id, project |-> project, slug |-> slug]
SecretSet(slot, value) == [type |-> "set", slot |-> slot, value |-> value]
SecretDeleted(slot) == [type |-> "deleted", slot |-> slot]
Audited(actor, action, target, outcome) ==
    [type |-> "audited", actor |-> actor, action |-> action, target |-> target,
     outcome |-> outcome]

\* Log::append refuses a record over the limits before it writes anything.
TooLarge(e) == e.type = "set" /\ e.value \in Large

-----------------------------------------------------------------------------
(* State::apply and the lookups.  Vectors in creation order are sets: no two    *)
(* members answer to the same name (UniqueNames), so "the first" is "the one".  *)

NoState == [users |-> {}, tokens |-> {}, projects |-> {}, environments |-> {},
            secrets |-> {}]

\* Mutant: a value is added beside the one it replaces.
PushSecret(secrets, e) == secrets \cup {[slot |-> e.slot, value |-> e.value]}

WriteSecret(secrets, e) ==
    {s \in secrets : s.slot # e.slot} \cup {[slot |-> e.slot, value |-> e.value]}

Revoke(tokens, id) ==
    {IF t.id = id THEN [t EXCEPT !.revoked = TRUE] ELSE t : t \in tokens}

Apply(st, e) ==
    CASE e.type = "user" -> [st EXCEPT !.users = @ \cup {[id |-> e.id, email |-> e.email]}]
      [] e.type = "token" ->
            [st EXCEPT !.tokens = @ \cup {[id |-> e.id, kind |-> e.kind, user |-> e.user,
                                           scope |-> e.scope, expires |-> e.expires,
                                           revoked |-> FALSE]}]
      [] e.type = "revoked" -> [st EXCEPT !.tokens = Revoke(@, e.id)]
      [] e.type = "project" -> [st EXCEPT !.projects = @ \cup {[id |-> e.id, slug |-> e.slug]}]
      [] e.type = "environment" ->
            [st EXCEPT !.environments =
                @ \cup {[id |-> e.id, project |-> e.project, slug |-> e.slug]}]
      [] e.type = "set" -> [st EXCEPT !.secrets = WriteSecret(@, e)]
      [] e.type = "deleted" -> [st EXCEPT !.secrets = {s \in @ : s.slot # e.slot}]
      [] e.type = "audited" -> st

Folded(st, events) ==
    LET after[n \in 0 .. Len(events)] ==
            IF n = 0 THEN st ELSE Apply(after[n - 1], events[n])
    IN after[Len(events)]

\* replay: the whole file folded from nothing.
Replay(events) == Folded(NoState, events)

\* resolve: the <<project, environment>> identifiers behind two slugs, if any.
Resolve(target) ==
    {<<p.id, x.id>> : p \in {q \in state.projects : q.slug = target[1]},
                      x \in {y \in state.environments : y.slug = target[2]}}
      \cap {<<x.project, x.id>> : x \in state.environments}

SecretAt(slot) == {s \in state.secrets : s.slot = slot}

\* authenticate: Token::is_valid_at, and the root token spent by the first account.
Usable(t) ==
    /\ ~t.revoked
    /\ now < t.expires
    /\ t.kind = "root" => state.users = {}

\* Caller::actor: the account behind a session, otherwise the token itself.
Actor(t) == IF t.user # NoUser THEN t.user ELSE t.id

\* Capability::granted_to.
Granted(t, capability) ==
    CASE t.kind = "root" -> capability = "bootstrap"
      [] t.kind = "session" -> TRUE
      [] t.kind = "machine" -> capability = "read"

\* Mutant: the environment is not compared.
AuthorisedByProject(t, capability, scope) ==
    Granted(t, capability) /\ (t.kind = "machine" => t.scope[1] = scope[1])

Authorised(t, capability, scope) ==
    Granted(t, capability) /\ (t.kind = "machine" => t.scope = scope)

-----------------------------------------------------------------------------
Targets == ProjectSlugs \X EnvironmentSlugs \X (SecretKeys \cup {"*"})
Tokens(st) == {t.id : t \in st.tokens}
Answers == {"ok", "error", "unknown", "denied", "missing"}

Slots == Nat \X Nat \X SecretKeys

Events ==
    [type : {"user"}, id : Nat, email : Emails]
    \cup [type : {"token"}, id : Nat, kind : {"root", "session", "machine"},
          user : Nat, scope : Nat \X Nat, expires : Nat]
    \cup [type : {"revoked"}, id : Nat]
    \cup [type : {"project"}, id : Nat, slug : ProjectSlugs]
    \cup [type : {"environment"}, id : Nat, project : Nat, slug : EnvironmentSlugs]
    \cup [type : {"set"}, slot : Slots, value : Values]
    \cup [type : {"deleted"}, slot : Slots]
    \cup [type : {"audited"}, actor : Nat, action : {"set", "read", "list", "delete", "rekey"},
          target : Targets \cup {<<>>}, outcome : {"ok", "denied", "missing", "unknown"}]

\* What this program may have written at place i of a file: an identifier is new, a
\* revocation and a session name what is there already, and names are not repeated.
FitsAt(c, i) ==
    LET e == c[i] IN
    /\ e.type \in {"user", "token", "project", "environment"} => e.id = i
    /\ e.type = "revoked" => e.id \in 1 .. i - 1
    /\ e.type = "token" /\ e.user # NoUser =>
          e.user \in 1 .. i - 1 /\ c[e.user].type = "user"
    /\ \A j \in 1 .. i - 1 :
          c[j].type = e.type =>
              /\ e.type = "user" => c[j].email # e.email
              /\ e.type = "project" => c[j].slug # e.slug
              /\ e.type = "environment" => c[j].project # e.project \/ c[j].slug # e.slug

WellFormed(c) == c \in Seq(Events) /\ \A i \in 1 .. Len(c) : FitsAt(c, i)

ASSUME HistoriesAssumption ==
    \A h \in Histories : WellFormed(h.records) /\ h.room \in Nat

States ==
    [users : SUBSET [id : Nat, email : Emails],
     tokens : SUBSET [id : Nat, kind : {"root", "session", "machine"}, user : Nat,
                      scope : Nat \X Nat, expires : Nat, revoked : BOOLEAN],
     projects : SUBSET [id : Nat, slug : ProjectSlugs],
     environments : SUBSET [id : Nat, project : Nat, slug : EnvironmentSlugs],
     secrets : SUBSET [slot : Slots, value : Values]]

\* A file, and what its callers know of it.
Files ==
    [content : Seq(Events), sure : Nat, dead : SUBSET Nat,
     may : SUBSET (Slots \X (Values \cup {Absent})), shown : Seq(Events)]

Current ==
    [content |-> content, sure |-> sure, dead |-> dead, may |-> may, shown |-> shown]

TypeOK ==
    /\ content \in Seq(Events)
    /\ sure \in 0 .. Len(content)
    /\ older \subseteq Files
    /\ pc \in {"down", "up"}
    /\ {broken, unsealed, poisoned} \subseteq BOOLEAN
    /\ state \in States
    /\ ~unsealed => state = NoState /\ ~poisoned
    /\ now \in 0 .. MaxNow
    /\ limit \in Nat
    /\ ret \in Answers
    /\ dead \subseteq Nat
    /\ may \subseteq Slots \X (Values \cup {Absent})
    /\ shown \in Seq(Events)

\* What the secrets in a file allow.
Stored(events) == {<<s.slot, s.value>> : s \in Replay(events).secrets}

Init ==
    /\ \E h \in Histories :
          /\ content = h.records
          /\ limit = Len(h.records) + h.room
    /\ sure = Len(content) /\ older = {}
    /\ pc = "down" /\ broken = FALSE /\ unsealed = FALSE
    /\ state = NoState /\ poisoned = FALSE
    /\ now = 0 /\ ret = "ok"
    /\ dead = {} /\ may = Stored(content) /\ shown = <<>>

-----------------------------------------------------------------------------
(* commit: the record is written, then applied.  A handler that commits several *)
(* records stops at the first that fails, keeping the ones before it.           *)

Commits(events) ==
    /\ events # <<>> => ~broken
    /\ \A i \in 1 .. Len(events) : ~TooLarge(events[i])
    /\ content' = content \o events
    /\ sure' = IF events = <<>> THEN sure ELSE Len(content')
    /\ state' = Folded(state, events)
    /\ UNCHANGED <<broken, poisoned>>

\* Mutant: the store stays open to appends after a failed one.
StopsUnmarked(events) ==
    \E n \in 1 .. Len(events) :
        LET reach == content \o SubSeq(events, 1, n - 1) IN
        /\ ~broken
        /\ content' \in {reach, Append(reach, events[n])}
        /\ sure' = IF n = 1 THEN sure ELSE Len(reach)
        /\ state' = Folded(state, SubSeq(events, 1, n - 1))
        /\ UNCHANGED <<broken, poisoned>>

Stops(events) ==
    \E n \in 1 .. Len(events) :
        LET reach == content \o SubSeq(events, 1, n - 1)
            refused == broken \/ TooLarge(events[n])
        IN /\ n > 1 => ~broken
           /\ \A i \in 1 .. n - 1 : ~TooLarge(events[i])
           /\ state' = Folded(state, SubSeq(events, 1, n - 1))
           /\ \/ /\ refused
                 /\ content' = reach
                 /\ sure' = IF n = 1 THEN sure ELSE Len(reach)
                 /\ UNCHANGED <<broken, poisoned>>
              \/ \* the write fails, with the record readable or not
                 /\ ~refused
                 /\ content' \in {reach, Append(reach, events[n])}
                 /\ sure' = IF n = 1 THEN sure ELSE Len(reach)
                 /\ broken' = TRUE
                 /\ UNCHANGED poisoned
              \/ \* a panic before the record is applied
                 /\ ~refused
                 /\ content' = Append(reach, events[n])
                 /\ sure' = Len(content')
                 /\ poisoned' = TRUE
                 /\ UNCHANGED broken

\* What the writes among these events leave in their slots.
Writes(events) ==
    {<<e.slot, IF e.type = "set" THEN e.value ELSE Absent>> :
        e \in {d \in Range(events) : d.type \in {"set", "deleted"}}}

Ended(events) ==
    {e.id : e \in {d \in Range(events) : d.type = "revoked"}}
    \cup {t.id : t \in {u \in state.tokens :
                           u.kind = "root" /\ \E e \in Range(events) : e.type = "user"}}

Serving == pc = "up" /\ unsealed /\ ~poisoned

\* A handler that commits these events and then answers `res`.
Handle(op, events, res) ==
    /\ Serving
    /\ Len(content) + Len(events) <= limit
    /\ \/ /\ Commits(events)
          /\ ret' = res
          /\ dead' = dead \cup Ended(events)
          /\ may' = {m \in may : \A w \in Writes(events) : w[1] # m[1]} \cup Writes(events)
          /\ shown' = IF op \in {"read", "list"} /\ res = "ok" THEN shown \o events ELSE shown
       \/ /\ Stops(events)
          /\ ret' = "error"
          /\ may' = may \cup Writes(events)
                \cup {<<w[1], Absent>> : w \in {x \in Writes(events) : \A m \in may : m[1] # x[1]}}
          /\ UNCHANGED <<dead, shown>>
    /\ UNCHANGED <<older, pc, unsealed, now>>

-----------------------------------------------------------------------------
(* Accounts and tokens.  `t` is the caller's token, as authed() resolved it.    *)

NextId == Len(content) + 1
Expiry(ttl) == IF ttl = 0 \/ now + ttl > MaxNow THEN Never ELSE now + ttl

CreateUser(t, email) ==
    /\ Granted(t, "bootstrap")
    /\ \A u \in state.users : u.email # email
    /\ Handle("create_user", <<UserCreated(NextId, email)>>, "ok")

\* login with the right password; a wrong one, or an unknown address, changes nothing.
Login(email, ttl) ==
    /\ ttl # 0
    /\ \E u \in state.users :
          /\ u.email = email
          /\ Handle("login", <<TokenIssued(NextId, "session", u.id, NoScope, Expiry(ttl))>>,
                    "ok")

IssueMachineToken(t, p, x, ttl) ==
    /\ Granted(t, "administer")
    /\ \E scope \in Resolve(<<p, x>>) :
          Handle("issue", <<TokenIssued(NextId, "machine", NoUser, scope, Expiry(ttl))>>, "ok")

\* Mutant: the token is marked in memory and the record is not written.
RevokeInMemory(t, id) ==
    /\ Serving
    /\ id \in Tokens(state)
    /\ state' = [state EXCEPT !.tokens = Revoke(@, id)]
    /\ dead' = dead \cup {id}
    /\ ret' = "ok"
    /\ UNCHANGED <<file, pc, broken, unsealed, poisoned, now, may, shown>>

RevokeToken(t, id) ==
    /\ id # t.id => Granted(t, "administer")
    /\ id \in Tokens(state)
    /\ Handle("revoke", <<TokenRevoked(id)>>, "ok")

-----------------------------------------------------------------------------
(* Projects and environments *)

CreateProject(t, slug) ==
    /\ Granted(t, "administer")
    /\ \A p \in state.projects : p.slug # slug
    /\ Handle("create_project", <<ProjectCreated(NextId, slug)>>, "ok")

CreateEnvironment(t, p, slug) ==
    /\ Granted(t, "administer")
    /\ Resolve(<<p, slug>>) = {}
    /\ \E q \in state.projects :
          /\ q.slug = p
          /\ Handle("create_environment", <<EnvironmentCreated(NextId, q.id, slug)>>, "ok")

-----------------------------------------------------------------------------
(* Secrets *)

\* resolve_for: a machine token is not told which names exist.
Unknown(t) == IF t.kind = "machine" THEN "denied" ELSE "unknown"

\* resolve_and_record, authorise and the recording of a refusal.
Refused(t, action, capability, target) ==
    \/ /\ Resolve(target) = {}
       /\ Handle(action, <<Audited(Actor(t), action, target, "unknown")>>, Unknown(t))
    \/ \E scope \in Resolve(target) :
          /\ ~Authorised(t, capability, scope)
          /\ Handle(action, <<Audited(Actor(t), action, target, "denied")>>, "denied")

Permitted(t, capability, target) ==
    {scope \in Resolve(target) : Authorised(t, capability, scope)}

SlotIn(scope, key) == <<scope[1], scope[2], key>>

SetSecret(t, target, v) ==
    \/ Refused(t, "set", "write", target)
    \/ \E scope \in Permitted(t, "write", target) :
          Handle("set", <<SecretSet(SlotIn(scope, target[3]), v),
                          Audited(Actor(t), "set", target, "ok")>>, "ok")

\* Mutant: the value is handed out whether or not the read could be recorded.
GetSecretUnrecorded(t, target) ==
    /\ Serving
    /\ Len(content) < limit
    /\ \E scope \in Resolve(target) :
          Authorised(t, "read", scope) /\ SecretAt(SlotIn(scope, target[3])) # {}
    /\ LET e == Audited(Actor(t), "read", target, "ok") IN
       /\ Commits(<<e>>) \/ Stops(<<e>>)
       /\ shown' = Append(shown, e)
    /\ ret' = "ok"
    /\ UNCHANGED <<older, pc, unsealed, now, dead, may>>

GetSecret(t, target) ==
    \/ Refused(t, "read", "read", target)
    \/ \E scope \in Permitted(t, "read", target) :
          LET res == IF SecretAt(SlotIn(scope, target[3])) = {} THEN "missing" ELSE "ok" IN
          Handle("read", <<Audited(Actor(t), "read", target, res)>>, res)

ListSecrets(t, p, x) ==
    LET target == <<p, x, "*">> IN
    \/ Refused(t, "list", "read", target)
    \/ Permitted(t, "read", target) # {}
          /\ Handle("list", <<Audited(Actor(t), "list", target, "ok")>>, "ok")

\* A delete that finds nothing returns before it is recorded.
DeleteSecret(t, target) ==
    \/ Refused(t, "delete", "write", target)
    \/ \E scope \in Permitted(t, "write", target) :
          LET slot == SlotIn(scope, target[3]) IN
          \/ SecretAt(slot) = {} /\ Handle("delete", <<>>, "missing")
          \/ /\ SecretAt(slot) # {}
             /\ Handle("delete", <<SecretDeleted(slot),
                                   Audited(Actor(t), "delete", target, "ok")>>, "ok")

\* api.rs, set_many: check_secret on every entry, then set_secret on every entry.
\* A batch refused by the check is not recorded.
SetMany(t, p, x, batch) ==
    LET at == Resolve(<<p, x>>)
        Records(scope) ==
            [k \in 1 .. 2 * Len(batch) |->
                LET kv == batch[(k + 1) \div 2]
                IN IF k % 2 = 1 THEN SecretSet(SlotIn(scope, kv[1]), kv[2])
                   ELSE Audited(Actor(t), "set", <<p, x, kv[1]>>, "ok")]
    IN \/ at = {} /\ Handle("bulk", <<>>, Unknown(t))
       \/ \E scope \in at :
             \/ ~Authorised(t, "write", scope) /\ Handle("bulk", <<>>, "denied")
             \/ Authorised(t, "write", scope) /\ Handle("bulk", Records(scope), "ok")

-----------------------------------------------------------------------------
(* Sealing, re-splitting and recovery from a panic *)

\* seal(): the root key and the state are dropped.
Sealed ==
    /\ unsealed' = FALSE
    /\ state' = NoState
    /\ poisoned' = FALSE
    /\ ret' = "ok"

SealAs(t) ==
    /\ Serving
    /\ Granted(t, "administer")
    /\ Sealed
    /\ UNCHANGED <<file, pc, broken, now, ghosts>>

\* Mutant: the poison is cleared and the state kept.
RecoverKeepingState ==
    /\ pc = "up"
    /\ poisoned
    /\ poisoned' = FALSE
    /\ UNCHANGED <<file, pc, broken, unsealed, state, now, ret, ghosts>>

\* api.rs, lock(): whoever takes the lock next finds it poisoned and seals.
Recover ==
    /\ pc = "up"
    /\ poisoned
    /\ Sealed
    /\ UNCHANGED <<file, pc, broken, now, ghosts>>

\* A quorum of shares arrives (Seal): the file is replayed.
Unseal ==
    /\ pc = "up"
    /\ ~unsealed
    /\ unsealed' = TRUE
    /\ state' = Replay(content)
    /\ ret' = "ok"
    /\ UNCHANGED <<file, pc, broken, poisoned, now, ghosts>>

\* The history in the file, whatever memory holds, is carried into a new file
\* with one audit record more, and becomes the state; a log that was broken is
\* not any more.  The directory flush may fail; anything before may too.
Rekey(t) ==
    /\ Serving
    /\ Granted(t, "administer")
    /\ Len(content) < limit
    /\ \/ /\ content' = Append(content, Audited(Actor(t), "rekey", <<>>, "ok"))
          /\ sure' = Len(content')
          /\ older' \in {{}, older \cup {Current}}
          /\ state' = Replay(content')
          /\ broken' = FALSE
          /\ ret' = "ok"
       \/ /\ ret' = "error"
          /\ UNCHANGED <<file, state, broken>>
    /\ UNCHANGED <<pc, unsealed, poisoned, now, ghosts>>

-----------------------------------------------------------------------------
(* The environment *)

OpenVault ==
    /\ pc = "down"
    /\ pc' = "up"
    /\ UNCHANGED file \/ L!Settle
    /\ UNCHANGED <<broken, unsealed, state, poisoned, now, ret, ghosts>>

Gone ==
    /\ pc' = "down"
    /\ broken' = FALSE
    /\ Sealed
    /\ UNCHANGED now

Kill == pc = "up" /\ Gone /\ UNCHANGED <<file, ghosts>>

\* While the last rewrite's directory entry is unflushed the file it replaced may
\* come back (Log, Seal), and with it what had been acknowledged when it was
\* replaced.  What was acknowledged after that stands only if the new file stays.
PowerLoss ==
    /\ Gone
    /\ \E c \in older \cup {Current} :
          /\ L!Left(c)
          /\ dead' = c.dead /\ may' = c.may /\ shown' = c.shown
    /\ older' = {}

\* The clock is the machine's, and may be set back.
Tick ==
    /\ now' \in (0 .. MaxNow) \ {now}
    /\ UNCHANGED <<file, pc, broken, unsealed, state, poisoned, ret, ghosts>>

Call(t) ==
    \/ \E email \in Emails : CreateUser(t, email)
    \/ \E p \in ProjectSlugs : CreateProject(t, p)
    \/ \E id \in Tokens(state) : RevokeToken(t, id)
    \/ SealAs(t) \/ Rekey(t)
    \/ \E p \in ProjectSlugs, x \in EnvironmentSlugs :
          \/ CreateEnvironment(t, p, x)
          \/ \E ttl \in Lifetimes : IssueMachineToken(t, p, x, ttl)
          \/ ListSecrets(t, p, x)
          \/ \E batch \in Batches : SetMany(t, p, x, batch)
          \/ \E k \in SecretKeys : \/ GetSecret(t, <<p, x, k>>)
                                   \/ DeleteSecret(t, <<p, x, k>>)
                                   \/ \E v \in Values : SetSecret(t, <<p, x, k>>, v)

Next ==
    /\ \/ \E t \in state.tokens : Serving /\ Usable(t) /\ Call(t)
       \/ \E email \in Emails, ttl \in Lifetimes : Login(email, ttl)
       \/ OpenVault \/ Unseal \/ Recover \/ Kill \/ PowerLoss \/ Tick
    /\ UNCHANGED limit

Spec == Init /\ [][Next]_vars

-----------------------------------------------------------------------------
(* Properties *)

\* What requests are answered from is the file folded from nothing; only a record
\* whose write was reported as failed may be in the one and not in the other.
\* A panic between writing and applying does not leave the two apart for the
\* next request, and neither do a failed write, a restart or a rekey.  A sealed
\* vault holds nothing at all.
MemoryIsReplay ==
    /\ Serving => \/ state = Replay(content)
                  \/ broken /\ state = Replay(SubSeq(content, 1, Len(content) - 1))
    /\ ~unsealed => state = NoState

\* What is said below of acknowledged calls has one window, and no other: a power
\* loss that brings back the file a rekey replaced, whose directory entry could not
\* be flushed, undoes what was acknowledged after that rekey (and its audit records
\* with it); everything acknowledged before the rekey still stands.

\* A token whose revocation was acknowledged, and the root token once the first
\* account was, authenticates nobody ever again: not after an unseal, a restart,
\* a rekey, a failed write, the clock going back, or a power loss outside that window.
DeadStayDead ==
    Serving => \A t \in state.tokens : t.id \in dead => ~Usable(t)

\* A slot holds the value of the last acknowledged write or delete, or of a write
\* after it that was reported as failed; an acknowledged value is gone only in the
\* window above.
AcknowledgedStands ==
    Serving => /\ \A s \in state.secrets : <<s.slot, s.value>> \in may
               /\ \A m \in may : \/ SecretAt(m[1]) # {}
                                 \/ <<m[1], Absent>> \in may

\* No value leaves the vault without an audit record of who read what that is
\* already on the medium, one for each time, and stays there outside that window.
RevealedIsRecorded ==
    LET Times(a, q) == Cardinality({i \in 1 .. Len(q) : q[i] = a}) IN
    \A a \in Range(shown) : Times(a, shown) <= Times(a, SubSeq(content, 1, sure))

\* A machine token is only ever shown values of the environment it was issued for,
\* as the file, replayed, knows that token and that environment.
ConfinedReads ==
    LET st == Replay(content) IN
    \A a \in Range(shown), t \in st.tokens :
        a.actor = t.id /\ t.kind = "machine" =>
            /\ \E p \in st.projects : p.id = t.scope[1] /\ p.slug = a.target[1]
            /\ \E x \in st.environments : x.id = t.scope[2] /\ x.slug = a.target[2]

\* However creations fail and are tried again, no two projects, environments of a
\* project, accounts or tokens in the file answer to one name: lookups that take
\* the first match, and confinement by identifier, rest on this.
UniqueNames ==
    LET st == Replay(content) IN
    /\ \A p, q \in st.projects : p.slug = q.slug => p = q
    /\ \A x, y \in st.environments : x.project = y.project /\ x.slug = y.slug => x = y
    /\ \A u, v \in st.users : u.email = v.email => u = v
    /\ \A t, u \in st.tokens : t.id = u.id => t = u

\* security.md, of a bulk write that fails partway: "Such a failure also marks the
\* store unusable, so the server stops accepting writes".
PartialBulkStopsWrites ==
    [][ret' = "error" /\ content' # content => broken' \/ poisoned']_vars
=============================================================================
