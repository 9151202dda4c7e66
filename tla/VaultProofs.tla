----------------------------- MODULE VaultProofs -----------------------------
(* Proofs about the data plane, for every set of names, values, batches and     *)
(* histories, and files of any length.                                          *)
EXTENDS Vault, SequenceTheorems, FiniteSetTheorems, FunctionTheorems, WellFoundedInduction, TLAPS

-----------------------------------------------------------------------------
(* The inductive invariant *)

FileOK(c, n) == WellFormed(c) /\ n \in 0 .. Len(c)

\* Memory is the file folded, or all of it but a last record that is not sure.
MemoryOK ==
    /\ pc = "down" => ~unsealed
    /\ unsealed /\ ~poisoned =>
          \/ state = Replay(content)
          \/ /\ broken /\ sure < Len(content)
             /\ state = Replay(SubSeq(content, 1, Len(content) - 1))

\* What AcknowledgedStands says of the records c.
Stands(c, m) ==
    /\ \A s \in Replay(c).secrets : <<s.slot, s.value>> \in m
    /\ \A w \in m : \/ \E s \in Replay(c).secrets : s.slot = w[1]
                    \/ <<w[1], Absent>> \in m

\* It holds of every part of c, from n records on.
PartsStand(c, n, m) == \A l \in n .. Len(c) : Stands(SubSeq(c, 1, l), m)

\* The record that ended a token is sure: its revocation, or the first account if it
\* is a root token.
EndedBy(c, n, d, i) ==
    \/ c[i].type = "revoked" /\ c[i].id = d
    \/ /\ c[i].type = "user"
       /\ d \in 1 .. n /\ c[d].type = "token" /\ c[d].kind = "root"

DeadIn(c, n, ds) == \A d \in ds : \E i \in 1 .. n : EndedBy(c, n, d, i)

\* Every value shown has a sure record of its own.
Recorded(c, n, q, f) ==
    /\ f \in [1 .. Len(q) -> 1 .. n]
    /\ \A i \in 1 .. Len(q) : c[f[i]] = q[i]
    /\ \A i, j \in 1 .. Len(q) : f[i] = f[j] => i = j

ShownIn(c, n, q) == \E f \in [1 .. Len(q) -> 1 .. n] : Recorded(c, n, q, f)

\* The names a machine token was shown values of are those of its scope; all of it
\* can be read off sure records.
Confined(a, c, n) ==
    /\ a.actor \in 1 .. n
    /\ c[a.actor].type = "token" /\ c[a.actor].kind = "machine" =>
          LET scope == c[a.actor].scope IN
          /\ scope[1] \in 1 .. n /\ c[scope[1]].type = "project"
          /\ c[scope[1]].slug = a.target[1]
          /\ scope[2] \in 1 .. n /\ c[scope[2]].type = "environment"
          /\ c[scope[2]].slug = a.target[2]

ConfinedIn(c, n, q) == \A i \in 1 .. Len(q) : Confined(q[i], c, n)

\* The ghosts are true of the live file.
StandsOK == PartsStand(content, sure, may)
DeadOK == DeadIn(content, sure, dead)
ShownOK == ShownIn(content, sure, shown)
ConfinedOK == ConfinedIn(content, sure, shown)

\* A file that may come back, and the ghosts it was replaced with.
OlderOK(o) ==
    /\ FileOK(o.content, o.sure)
    /\ PartsStand(o.content, o.sure, o.may)
    /\ DeadIn(o.content, o.sure, o.dead)
    /\ ShownIn(o.content, o.sure, o.shown)
    /\ ConfinedIn(o.content, o.sure, o.shown)

\* The live file, and every file a power loss may bring back.
FilesOK == FileOK(content, sure) /\ \A o \in older : OlderOK(o)

\* The invariant that carries the induction.
IInv == TypeOK /\ FilesOK /\ MemoryOK /\ StandsOK /\ DeadOK /\ ShownOK /\ ConfinedOK

-----------------------------------------------------------------------------
(* Induction over the places of a file *)

\* A set of naturals that holds 0 and every successor of its members up to N holds
\* everything up to N.
LEMMA UpTo ==
    ASSUME NEW N \in Nat, NEW S, 0 \in S, \A k \in 0 .. N - 1 : k \in S => k + 1 \in S
    PROVE  \A k \in 0 .. N : k \in S
<1> DEFINE T == {k \in 0 .. N : k \notin S}
           R == OpToRel(<, Nat)
<1>1. IsWellFoundedOn(R, Nat)
  BY NatLessThanWellFounded, Zenon
<1>2. \A x, y \in Nat : y < x => <<y, x>> \in R
  BY DEF OpToRel
<1> HIDE DEF R
<1>3. SUFFICES ASSUME T # {} PROVE FALSE
  OBVIOUS
<1>4. T \subseteq Nat
  OBVIOUS
<1>5. PICK m \in T : \A y \in T : ~ (<<y, m>> \in R)
  BY <1>1, <1>3, <1>4, WFMin
<1>6. m \in Nat /\ m # 0 /\ m - 1 \in 0 .. N - 1 /\ m - 1 \in Nat /\ m - 1 < m
  OBVIOUS
<1>7. m - 1 \notin T
  BY <1>2, <1>5, <1>6
<1>8. m - 1 \in S
  BY <1>6, <1>7
<1>9. (m - 1) + 1 \in S
  BY <1>6, <1>8
<1> QED BY <1>6, <1>9

-----------------------------------------------------------------------------
(* The fold *)

\* f holds what the first n events make of st, for every n up to m.
Steps(f, st, events, m) ==
    f = [n \in 0 .. m |-> IF n = 0 THEN st ELSE Apply(f[n - 1], events[n])]

LEMMA StepsExist == \A st, events : \A m \in Nat : \E f : Steps(f, st, events, m)
<1> SUFFICES ASSUME NEW st, NEW events, NEW N \in Nat
             PROVE  \E f : Steps(f, st, events, N)
  OBVIOUS
<1> DEFINE S == {m \in Nat : \E f : Steps(f, st, events, m)}
<1>1. 0 \in S
  <2> DEFINE f == [n \in 0 .. 0 |-> st]
  <2>1. f = [n \in 0 .. 0 |-> IF n = 0 THEN st ELSE Apply(f[n - 1], events[n])]
    OBVIOUS
  <2> QED BY <2>1 DEF Steps
<1>2. ASSUME NEW k \in 0 .. N - 1, k \in S
      PROVE  k + 1 \in S
  <2>1. PICK f : Steps(f, st, events, k)
    BY <1>2
  <2> DEFINE g == [n \in 0 .. k + 1 |-> IF n = k + 1 THEN Apply(f[k], events[k + 1]) ELSE f[n]]
  <2>2. \A n \in 0 .. k : g[n] = f[n] /\ f[n] = IF n = 0 THEN st ELSE Apply(f[n - 1], events[n])
    BY <2>1 DEF Steps
  <2>3. \A n \in 0 .. k + 1 : g[n] = IF n = 0 THEN st ELSE Apply(g[n - 1], events[n])
    <3> SUFFICES ASSUME NEW n \in 0 .. k + 1
                 PROVE  g[n] = IF n = 0 THEN st ELSE Apply(g[n - 1], events[n])
      OBVIOUS
    <3>1. CASE n = k + 1
      <4>1. g[n] = Apply(f[k], events[k + 1]) /\ g[n - 1] = f[k] /\ n # 0
        BY <2>2, <3>1
      <4> QED BY <3>1, <4>1
    <3>2. CASE n # k + 1 /\ n # 0
      <4>1. n \in 0 .. k /\ n - 1 \in 0 .. k
        BY <3>2
      <4>2. g[n] = f[n] /\ g[n - 1] = f[n - 1] /\ f[n] = Apply(f[n - 1], events[n])
        BY <2>2, <3>2, <4>1
      <4> QED BY <3>2, <4>2
    <3>3. CASE n = 0
      <4>1. 0 \in 0 .. k /\ n \in 0 .. k
        BY <3>3
      <4>2. g[n] = f[n] /\ f[n] = st
        BY <2>2, <3>3, <4>1
      <4> QED BY <3>3, <4>2
    <3> QED BY <3>1, <3>2, <3>3
  <2>4. Steps(g, st, events, k + 1)
    BY <2>3 DEF Steps
  <2> QED BY <2>4
<1> HIDE DEF S
<1>3. \A k \in 0 .. N : k \in S
  BY <1>1, <1>2, UpTo
<1> QED BY <1>3 DEF S

\* Two folds from one state agree for as long as their events do.
LEMMA StepsAgree ==
    ASSUME NEW st, NEW s, NEW t, NEW k \in Nat, \A i \in 1 .. k : s[i] = t[i],
           NEW f, NEW g, Steps(f, st, s, k), Steps(g, st, t, k + 1)
    PROVE  f[k] = g[k]
<1> DEFINE S == {i \in Nat : f[i] = g[i]}
<1>1. 0 \in S
  BY DEF Steps
<1>2. ASSUME NEW i \in 0 .. k - 1, i \in S
      PROVE  i + 1 \in S
  <2>1. i + 1 \in 0 .. k /\ i + 1 \in 0 .. k + 1 /\ i + 1 # 0 /\ (i + 1) - 1 = i
    OBVIOUS
  <2>2. f[i + 1] = Apply(f[i], s[i + 1]) /\ g[i + 1] = Apply(g[i], t[i + 1])
    BY <2>1 DEF Steps
  <2>3. s[i + 1] = t[i + 1]
    BY <2>1
  <2> QED BY <1>2, <2>2, <2>3
<1> HIDE DEF S
<1>3. \A i \in 0 .. k : i \in S
  BY <1>1, <1>2, UpTo
<1> QED BY <1>3 DEF S

LEMMA FoldedSteps ==
    ASSUME NEW st, NEW events, Len(events) \in Nat
    PROVE  \E f : Steps(f, st, events, Len(events)) /\ Folded(st, events) = f[Len(events)]
<1>1. PICK h : Steps(h, st, events, Len(events))
  BY StepsExist
<1> DEFINE f == CHOOSE x : x = [n \in 0 .. Len(events) |->
                                   IF n = 0 THEN st ELSE Apply(x[n - 1], events[n])]
<1>2. h = [n \in 0 .. Len(events) |-> IF n = 0 THEN st ELSE Apply(h[n - 1], events[n])]
  BY <1>1 DEF Steps
<1>3. f = [n \in 0 .. Len(events) |-> IF n = 0 THEN st ELSE Apply(f[n - 1], events[n])]
  BY <1>2
<1>4. Folded(st, events) = f[Len(events)]
  BY DEF Folded
<1> HIDE DEF f
<1>5. Steps(f, st, events, Len(events))
  BY <1>3 DEF Steps
<1> QED BY <1>4, <1>5

\* State::apply on the last event comes after everything before it.
LEMMA FoldedAppend ==
    ASSUME NEW E, NEW st, NEW s \in Seq(E), NEW e \in E
    PROVE  Folded(st, Append(s, e)) = Apply(Folded(st, s), e)
<1> DEFINE t == Append(s, e)
           n == Len(s)
<1>1. n \in Nat /\ Len(t) = n + 1 /\ t[n + 1] = e /\ \A i \in 1 .. n : t[i] = s[i]
  BY AppendProperties, LenProperties
<1> HIDE DEF t, n
<1>2. PICK f : Steps(f, st, s, n) /\ Folded(st, s) = f[n]
  BY <1>1, FoldedSteps DEF n
<1>3. PICK g : Steps(g, st, t, n + 1) /\ Folded(st, t) = g[n + 1]
  BY <1>1, FoldedSteps
<1>4. f[n] = g[n]
  <2>1. \A i \in 1 .. n : s[i] = t[i]
    BY <1>1
  <2> QED BY <1>1, <1>2, <1>3, <2>1, StepsAgree
<1>5. g[n + 1] = Apply(g[(n + 1) - 1], t[n + 1])
  BY <1>1, <1>3 DEF Steps
<1> QED BY <1>1, <1>2, <1>3, <1>4, <1>5 DEF t

LEMMA FoldedEmpty == \A st : Folded(st, <<>>) = st
<1> SUFFICES ASSUME NEW st PROVE Folded(st, <<>>) = st
  OBVIOUS
<1>1. Len(<<>>) = 0
  OBVIOUS
<1>2. PICK f : Steps(f, st, <<>>, 0) /\ Folded(st, <<>>) = f[0]
  BY <1>1, FoldedSteps
<1> QED BY <1>2 DEF Steps

\* One more event of a sequence.
LEMMA FoldedNext ==
    ASSUME NEW E, NEW st, NEW c \in Seq(E), NEW k \in 0 .. Len(c) - 1
    PROVE  Folded(st, SubSeq(c, 1, k + 1)) = Apply(Folded(st, SubSeq(c, 1, k)), c[k + 1])
<1>1. /\ SubSeq(c, 1, k) \in Seq(E) /\ c[k + 1] \in E
      /\ SubSeq(c, 1, k + 1) = Append(SubSeq(c, 1, k), c[k + 1])
  OBVIOUS
<1>2. \A x \in Seq(E), e \in E : Folded(st, Append(x, e)) = Apply(Folded(st, x), e)
  BY FoldedAppend
<1> QED BY <1>1, <1>2, Zenon

\* commit after commit is replay of everything.
LEMMA FoldedConcat ==
    ASSUME NEW E, NEW st, NEW s \in Seq(E), NEW t \in Seq(E)
    PROVE  Folded(st, s \o t) = Folded(Folded(st, s), t)
<1> DEFINE w == s \o t
           n == Len(s)
           S == {k \in Nat : Folded(st, SubSeq(w, 1, n + k)) = Folded(Folded(st, s), SubSeq(t, 1, k))}
<1>1. /\ w \in Seq(E) /\ n \in Nat /\ Len(t) \in Nat /\ Len(w) = n + Len(t)
      /\ \A k \in 1 .. Len(t) : w[n + k] = t[k]
      /\ SubSeq(w, 1, n) = s
      /\ SubSeq(w, 1, n + Len(t)) = w /\ SubSeq(t, 1, Len(t)) = t /\ SubSeq(t, 1, 0) = <<>>
  OBVIOUS
<1> HIDE DEF w, n
<1>2. 0 \in S
  <2>1. n + 0 = n /\ Folded(Folded(st, s), <<>>) = Folded(st, s)
    BY <1>1, FoldedEmpty
  <2> QED BY <1>1, <2>1
<1>3. ASSUME NEW k \in 0 .. Len(t) - 1, k \in S
      PROVE  k + 1 \in S
  <2>1. /\ n + k \in 0 .. Len(w) - 1 /\ (n + k) + 1 = n + (k + 1) /\ k + 1 \in 1 .. Len(t)
        /\ k + 1 \in Nat
    BY <1>1
  <2>2. Folded(st, SubSeq(w, 1, n + (k + 1))) = Apply(Folded(st, SubSeq(w, 1, n + k)), w[n + (k + 1)])
    BY <1>1, <2>1, FoldedNext
  <2>3. Folded(Folded(st, s), SubSeq(t, 1, k + 1))
          = Apply(Folded(Folded(st, s), SubSeq(t, 1, k)), t[k + 1])
    BY <1>1, FoldedNext
  <2> QED BY <1>1, <1>3, <2>1, <2>2, <2>3
<1>4. \A k \in 0 .. Len(t) : k \in S
  <2> HIDE DEF S
  <2> QED BY <1>1, <1>2, <1>3, UpTo
<1>5. Folded(st, SubSeq(w, 1, n + Len(t))) = Folded(Folded(st, s), SubSeq(t, 1, Len(t)))
  BY <1>1, <1>4
<1> QED BY <1>1, <1>5 DEF w

-----------------------------------------------------------------------------
(* What a fold of events holds *)

UserOf(e) == [id |-> e.id, email |-> e.email]
TokenOf(e, r) == [id |-> e.id, kind |-> e.kind, user |-> e.user, scope |-> e.scope,
                  expires |-> e.expires, revoked |-> r]
ProjectOf(e) == [id |-> e.id, slug |-> e.slug]
EnvironmentOf(e) == [id |-> e.id, project |-> e.project, slug |-> e.slug]
SecretOf(e) == [slot |-> e.slot, value |-> e.value]

TokenRecords ==
    [id : Nat, kind : {"root", "session", "machine"}, user : Nat, scope : Nat \X Nat,
     expires : Nat, revoked : BOOLEAN]

Types == {"user", "token", "revoked", "project", "environment", "set", "deleted", "audited"}

IsWrite(e) == e.type \in {"set", "deleted"}

\* Record i of c is the last to write slot x.
LastWrite(c, x, i) ==
    /\ i \in 1 .. Len(c) /\ IsWrite(c[i]) /\ c[i].slot = x
    /\ \A k \in i + 1 .. Len(c) : IsWrite(c[k]) => c[k].slot # x

RevokedIn(c, i) == \E k \in i + 1 .. Len(c) : c[k].type = "revoked" /\ c[k].id = c[i].id

UsersAre(users, c) ==
    \A u : u \in users <=> \E i \in 1 .. Len(c) : c[i].type = "user" /\ u = UserOf(c[i])
TokensAre(tokens, c) ==
    \A t : t \in tokens <=>
        \E i \in 1 .. Len(c) : c[i].type = "token" /\ t = TokenOf(c[i], RevokedIn(c, i))
ProjectsAre(projects, c) ==
    \A p : p \in projects <=> \E i \in 1 .. Len(c) : c[i].type = "project" /\ p = ProjectOf(c[i])
EnvironmentsAre(environments, c) ==
    \A x : x \in environments <=>
        \E i \in 1 .. Len(c) : c[i].type = "environment" /\ x = EnvironmentOf(c[i])
SecretsAre(secrets, c) ==
    \A s : s \in secrets <=>
        \E i \in 1 .. Len(c) : /\ c[i].type = "set" /\ LastWrite(c, c[i].slot, i)
                               /\ s = SecretOf(c[i])

\* st is what a reader of the records of c would say the vault holds.
Reflects(st, c) ==
    /\ st \in States
    /\ UsersAre(st.users, c)
    /\ TokensAre(st.tokens, c)
    /\ ProjectsAre(st.projects, c)
    /\ EnvironmentsAre(st.environments, c)
    /\ SecretsAre(st.secrets, c)

\* State::apply, field by field.
LEMMA ApplyFields ==
    ASSUME NEW st \in States, NEW e \in Events
    PROVE  /\ e.type \in Types
           /\ Apply(st, e) \in States
           /\ Apply(st, e).users =
                 IF e.type = "user" THEN st.users \cup {UserOf(e)} ELSE st.users
           /\ Apply(st, e).tokens =
                 IF e.type = "token" THEN st.tokens \cup {TokenOf(e, FALSE)}
                 ELSE IF e.type = "revoked" THEN Revoke(st.tokens, e.id) ELSE st.tokens
           /\ Apply(st, e).projects =
                 IF e.type = "project" THEN st.projects \cup {ProjectOf(e)} ELSE st.projects
           /\ Apply(st, e).environments =
                 IF e.type = "environment" THEN st.environments \cup {EnvironmentOf(e)}
                 ELSE st.environments
           /\ Apply(st, e).secrets =
                 IF e.type = "set" THEN WriteSecret(st.secrets, e)
                 ELSE IF e.type = "deleted" THEN {s \in st.secrets : s.slot # e.slot}
                 ELSE st.secrets
<1>1. e.type \in Types
  BY DEF Events, Types
<1>2. CASE e.type = "user"
  <2>1. Apply(st, e) = [st EXCEPT !.users = @ \cup {UserOf(e)}]
    BY <1>2 DEF Apply, UserOf
  <2>2. UserOf(e) \in [id : Nat, email : Emails]
    BY <1>2 DEF Events, UserOf
  <2> QED BY <1>1, <1>2, <2>1, <2>2 DEF States
<1>3. CASE e.type = "token"
  <2>1. Apply(st, e) = [st EXCEPT !.tokens = @ \cup {TokenOf(e, FALSE)}]
    BY <1>3 DEF Apply, TokenOf
  <2>2. TokenOf(e, FALSE) \in TokenRecords
    BY <1>3 DEF Events, TokenOf, TokenRecords
  <2>3. Apply(st, e) \in States
    <3>1. st.tokens \cup {TokenOf(e, FALSE)} \subseteq TokenRecords
      BY <2>2 DEF States, TokenRecords
    <3> QED BY <2>1, <3>1 DEF States, TokenRecords
  <2> QED BY <1>1, <1>3, <2>1, <2>3 DEF States
<1>4. CASE e.type = "revoked"
  <2>1. Apply(st, e) = [st EXCEPT !.tokens = Revoke(@, e.id)]
    BY <1>4 DEF Apply
  <2>2. \A t \in TokenRecords : [t EXCEPT !.revoked = TRUE] \in TokenRecords
    BY DEF TokenRecords
  <2>3. st.tokens \subseteq TokenRecords
    BY DEF States, TokenRecords
  <2>4. Revoke(st.tokens, e.id) \subseteq TokenRecords
    BY <2>2, <2>3 DEF Revoke
  <2>5. Apply(st, e) \in States
    BY <2>1, <2>4 DEF States, TokenRecords
  <2> QED BY <1>1, <1>4, <2>1, <2>5 DEF States
<1>5. CASE e.type = "project"
  <2>1. Apply(st, e) = [st EXCEPT !.projects = @ \cup {ProjectOf(e)}]
    BY <1>5 DEF Apply, ProjectOf
  <2>2. ProjectOf(e) \in [id : Nat, slug : ProjectSlugs]
    BY <1>5 DEF Events, ProjectOf
  <2> QED BY <1>1, <1>5, <2>1, <2>2 DEF States
<1>6. CASE e.type = "environment"
  <2>1. Apply(st, e) = [st EXCEPT !.environments = @ \cup {EnvironmentOf(e)}]
    BY <1>6 DEF Apply, EnvironmentOf
  <2>2. EnvironmentOf(e) \in [id : Nat, project : Nat, slug : EnvironmentSlugs]
    BY <1>6 DEF Events, EnvironmentOf
  <2> QED BY <1>1, <1>6, <2>1, <2>2 DEF States
<1>7. CASE e.type = "set"
  <2>1. Apply(st, e) = [st EXCEPT !.secrets = WriteSecret(@, e)]
    BY <1>7 DEF Apply
  <2>2. WriteSecret(st.secrets, e) \subseteq [slot : Slots, value : Values]
    BY <1>7 DEF Events, States, WriteSecret
  <2> QED BY <1>1, <1>7, <2>1, <2>2 DEF States
<1>8. CASE e.type = "deleted"
  <2>1. Apply(st, e) = [st EXCEPT !.secrets = {s \in @ : s.slot # e.slot}]
    BY <1>8 DEF Apply
  <2> QED BY <1>1, <1>8, <2>1 DEF States
<1>9. CASE e.type = "audited"
  <2>1. Apply(st, e) = st
    BY <1>9 DEF Apply
  <2> QED BY <1>1, <1>9, <2>1
<1> QED BY <1>1, <1>2, <1>3, <1>4, <1>5, <1>6, <1>7, <1>8, <1>9 DEF Types

\* What an appended record changes about a file.
LEMMA Appended ==
    ASSUME NEW c \in Seq(Events), NEW e \in Events
    PROVE  /\ Append(c, e) \in Seq(Events)
           /\ Len(c) \in Nat
           /\ Len(Append(c, e)) = Len(c) + 1
           /\ \A i \in 1 .. Len(c) : Append(c, e)[i] = c[i]
           /\ Append(c, e)[Len(c) + 1] = e
BY AppendProperties, LenProperties

LEMMA UsersStep ==
    ASSUME NEW c \in Seq(Events), NEW e \in Events, NEW us, UsersAre(us, c)
    PROVE  UsersAre(IF e.type = "user" THEN us \cup {UserOf(e)} ELSE us, Append(c, e))
<1> DEFINE d == Append(c, e)
<1>1. /\ Len(c) \in Nat /\ Len(d) = Len(c) + 1 /\ d[Len(c) + 1] = e
      /\ \A i \in 1 .. Len(c) : d[i] = c[i]
  BY Appended
<1> HIDE DEF d
<1>2. UsersAre(IF e.type = "user" THEN us \cup {UserOf(e)} ELSE us, d)
  BY <1>1 DEF UsersAre
<1> QED BY <1>2 DEF d

LEMMA ProjectsStep ==
    ASSUME NEW c \in Seq(Events), NEW e \in Events, NEW ps, ProjectsAre(ps, c)
    PROVE  ProjectsAre(IF e.type = "project" THEN ps \cup {ProjectOf(e)} ELSE ps, Append(c, e))
<1> DEFINE d == Append(c, e)
<1>1. /\ Len(c) \in Nat /\ Len(d) = Len(c) + 1 /\ d[Len(c) + 1] = e
      /\ \A i \in 1 .. Len(c) : d[i] = c[i]
  BY Appended
<1> HIDE DEF d
<1>2. ProjectsAre(IF e.type = "project" THEN ps \cup {ProjectOf(e)} ELSE ps, d)
  BY <1>1 DEF ProjectsAre
<1> QED BY <1>2 DEF d

LEMMA EnvironmentsStep ==
    ASSUME NEW c \in Seq(Events), NEW e \in Events, NEW xs, EnvironmentsAre(xs, c)
    PROVE  EnvironmentsAre(IF e.type = "environment" THEN xs \cup {EnvironmentOf(e)} ELSE xs,
                           Append(c, e))
<1> DEFINE d == Append(c, e)
<1>1. /\ Len(c) \in Nat /\ Len(d) = Len(c) + 1 /\ d[Len(c) + 1] = e
      /\ \A i \in 1 .. Len(c) : d[i] = c[i]
  BY Appended
<1> HIDE DEF d
<1>2. EnvironmentsAre(IF e.type = "environment" THEN xs \cup {EnvironmentOf(e)} ELSE xs, d)
  BY <1>1 DEF EnvironmentsAre
<1> QED BY <1>2 DEF d

LEMMA TokensStep ==
    ASSUME NEW c \in Seq(Events), NEW e \in Events, NEW ts, TokensAre(ts, c)
    PROVE  TokensAre(IF e.type = "token" THEN ts \cup {TokenOf(e, FALSE)}
                     ELSE IF e.type = "revoked" THEN Revoke(ts, e.id) ELSE ts, Append(c, e))
<1> DEFINE d == Append(c, e)
           n == Len(c) + 1
<1>1. /\ Len(c) \in Nat /\ Len(d) = n /\ d[n] = e /\ n \in Nat
      /\ \A i \in 1 .. Len(c) : d[i] = c[i]
  BY Appended
<1> HIDE DEF d
<1>2. \A i \in 1 .. Len(c) :
         RevokedIn(d, i) <=> (RevokedIn(c, i) \/ (e.type = "revoked" /\ e.id = c[i].id))
  <2> SUFFICES ASSUME NEW i \in 1 .. Len(c)
               PROVE  RevokedIn(d, i) <=> (RevokedIn(c, i) \/ (e.type = "revoked" /\ e.id = c[i].id))
    OBVIOUS
  <2>1. ASSUME RevokedIn(d, i) PROVE RevokedIn(c, i) \/ (e.type = "revoked" /\ e.id = c[i].id)
    <3>1. PICK k \in i + 1 .. n : d[k].type = "revoked" /\ d[k].id = c[i].id
      BY <1>1, <2>1 DEF RevokedIn
    <3>2. CASE k = n
      BY <1>1, <3>1, <3>2
    <3>3. CASE k # n
      <4>1. k \in i + 1 .. Len(c) /\ k \in 1 .. Len(c)
        BY <1>1, <3>3
      <4>2. c[k].type = "revoked" /\ c[k].id = c[i].id
        BY <1>1, <3>1, <4>1
      <4>3. RevokedIn(c, i)
        BY <4>1, <4>2, Zenon DEF RevokedIn
      <4> QED BY <4>3
    <3> QED BY <3>2, <3>3
  <2>2. ASSUME RevokedIn(c, i) PROVE RevokedIn(d, i)
    <3>1. PICK k \in i + 1 .. Len(c) : c[k].type = "revoked" /\ c[k].id = c[i].id
      BY <2>2 DEF RevokedIn
    <3>2. k \in 1 .. Len(c) /\ k \in i + 1 .. n
      BY <1>1
    <3> QED BY <1>1, <3>1, <3>2 DEF RevokedIn
  <2>3. ASSUME e.type = "revoked", e.id = c[i].id PROVE RevokedIn(d, i)
    <3>1. n \in i + 1 .. n /\ d[n].type = "revoked" /\ d[n].id = d[i].id
      BY <1>1, <2>3
    <3> QED BY <1>1, <3>1 DEF RevokedIn
  <2> QED BY <2>1, <2>2, <2>3
<1>3. RevokedIn(d, n) = FALSE
  BY <1>1 DEF RevokedIn
<1>4. ASSUME NEW i \in 1 .. Len(c), ~(e.type = "revoked" /\ e.id = c[i].id)
      PROVE  TokenOf(d[i], RevokedIn(d, i)) = TokenOf(c[i], RevokedIn(c, i))
  <2>1. CASE RevokedIn(c, i)
    <3>1. RevokedIn(d, i)
      BY <1>2, <2>1, Zenon
    <3>2. RevokedIn(c, i) = TRUE
      BY <2>1 DEF RevokedIn
    <3>3. RevokedIn(d, i) = TRUE
      BY <3>1 DEF RevokedIn
    <3> QED BY <1>1, <3>2, <3>3
  <2>2. CASE ~RevokedIn(c, i)
    <3>1. RevokedIn(c, i) = FALSE /\ RevokedIn(d, i) = FALSE
      BY <1>2, <1>4, <2>2 DEF RevokedIn
    <3> QED BY <1>1, <3>1
  <2> QED BY <2>1, <2>2
<1>5. CASE e.type = "token"
  <2>1. \A i \in 1 .. Len(c) : TokenOf(d[i], RevokedIn(d, i)) = TokenOf(c[i], RevokedIn(c, i))
    BY <1>4, <1>5
  <2>2. TokenOf(d[n], RevokedIn(d, n)) = TokenOf(e, FALSE)
    BY <1>1, <1>3
  <2>3. ASSUME NEW u
        PROVE  (u \in ts \/ u = TokenOf(e, FALSE)) <=>
               \E i \in 1 .. Len(d) : d[i].type = "token" /\ u = TokenOf(d[i], RevokedIn(d, i))
    <3>1. u \in ts <=> \E i \in 1 .. Len(c) : d[i].type = "token" /\ u = TokenOf(d[i], RevokedIn(d, i))
      BY <1>1, <2>1 DEF TokensAre
    <3>2. \A i : i \in 1 .. Len(d) <=> i \in 1 .. Len(c) \/ i = n
      BY <1>1
    <3>3. d[n].type = "token"
      BY <1>1, <1>5
    <3> HIDE DEF n
    <3> QED BY <2>2, <3>1, <3>2, <3>3, Zenon
  <2>4. TokensAre(ts \cup {TokenOf(e, FALSE)}, d)
    BY <2>3 DEF TokensAre
  <2> QED BY <1>5, <2>4 DEF d
<1>6. CASE e.type = "revoked"
  <2>1. \A i \in 1 .. Len(c) :
           LET t == TokenOf(c[i], RevokedIn(c, i)) IN
           TokenOf(d[i], RevokedIn(d, i)) = IF t.id = e.id THEN [t EXCEPT !.revoked = TRUE] ELSE t
    <3> SUFFICES ASSUME NEW i \in 1 .. Len(c)
                 PROVE  LET t == TokenOf(c[i], RevokedIn(c, i)) IN
                        TokenOf(d[i], RevokedIn(d, i))
                          = IF t.id = e.id THEN [t EXCEPT !.revoked = TRUE] ELSE t
      OBVIOUS
    <3>1. CASE e.id = c[i].id
      <4>1. RevokedIn(d, i) = TRUE
        BY <1>2, <1>6, <3>1 DEF RevokedIn
      <4> QED BY <1>1, <3>1, <4>1 DEF TokenOf
    <3>2. CASE e.id # c[i].id
      <4>1. TokenOf(c[i], RevokedIn(c, i)).id = c[i].id
        BY DEF TokenOf
      <4> QED BY <1>4, <3>2, <4>1
    <3> QED BY <3>1, <3>2
  <2>2. TokensAre(Revoke(ts, e.id), d)
    <3> SUFFICES ASSUME NEW u
                 PROVE  u \in Revoke(ts, e.id) <=>
                        \E i \in 1 .. Len(d) : d[i].type = "token" /\ u = TokenOf(d[i], RevokedIn(d, i))
      BY DEF TokensAre
    <3>1. u \in Revoke(ts, e.id) <=>
            \E t \in ts : u = IF t.id = e.id THEN [t EXCEPT !.revoked = TRUE] ELSE t
      BY DEF Revoke
    <3>2. (\E t \in ts : u = IF t.id = e.id THEN [t EXCEPT !.revoked = TRUE] ELSE t) <=>
            \E i \in 1 .. Len(c) : c[i].type = "token" /\ u = TokenOf(d[i], RevokedIn(d, i))
      <4> DEFINE Of(i) == TokenOf(c[i], RevokedIn(c, i))
                 Marked(t) == IF t.id = e.id THEN [t EXCEPT !.revoked = TRUE] ELSE t
      <4>1. \A t : t \in ts <=> \E i \in 1 .. Len(c) : c[i].type = "token" /\ t = Of(i)
        BY DEF TokensAre
      <4>2. \A i \in 1 .. Len(c) : TokenOf(d[i], RevokedIn(d, i)) = Marked(Of(i))
        BY <2>1
      <4> HIDE DEF Of, Marked
      <4>3. (\E t \in ts : u = Marked(t)) <=>
              \E i \in 1 .. Len(c) : c[i].type = "token" /\ u = Marked(Of(i))
        BY <4>1, Zenon
      <4>4. (\E t \in ts : u = Marked(t)) <=>
              \E i \in 1 .. Len(c) : c[i].type = "token" /\ u = TokenOf(d[i], RevokedIn(d, i))
        BY <4>2, <4>3, Zenon
      <4> QED BY <4>4 DEF Marked
    <3>3. (\E i \in 1 .. Len(c) : c[i].type = "token" /\ u = TokenOf(d[i], RevokedIn(d, i))) <=>
            \E i \in 1 .. Len(d) : d[i].type = "token" /\ u = TokenOf(d[i], RevokedIn(d, i))
      BY <1>1, <1>6
    <3> QED BY <3>1, <3>2, <3>3
  <2> QED BY <1>6, <2>2 DEF d
<1>7. CASE e.type \notin {"token", "revoked"}
  <2>1. \A i \in 1 .. Len(c) : TokenOf(d[i], RevokedIn(d, i)) = TokenOf(c[i], RevokedIn(c, i))
    BY <1>4, <1>7
  <2>2. TokensAre(ts, d)
    BY <1>1, <1>7, <2>1 DEF TokensAre
  <2> QED BY <1>7, <2>2 DEF d
<1> QED BY <1>5, <1>6, <1>7

LEMMA SecretsStep ==
    ASSUME NEW c \in Seq(Events), NEW e \in Events, NEW ss, SecretsAre(ss, c)
    PROVE  SecretsAre(IF e.type = "set" THEN WriteSecret(ss, e)
                      ELSE IF e.type = "deleted" THEN {s \in ss : s.slot # e.slot} ELSE ss,
                      Append(c, e))
<1> DEFINE d == Append(c, e)
           n == Len(c) + 1
           Last(b, i) == b[i].type = "set" /\ LastWrite(b, b[i].slot, i)
           After == IF e.type = "set" THEN WriteSecret(ss, e)
                    ELSE IF e.type = "deleted" THEN {s \in ss : s.slot # e.slot} ELSE ss
<1>1. /\ Len(c) \in Nat /\ Len(d) = n /\ d[n] = e /\ n \in Nat
      /\ \A i \in 1 .. Len(c) : d[i] = c[i]
  BY Appended
<1> HIDE DEF d
<1>2. ASSUME NEW i \in 1 .. Len(c)
      PROVE  Last(d, i) <=> (Last(c, i) /\ ~(IsWrite(e) /\ e.slot = c[i].slot))
  <2>1. ASSUME Last(d, i) PROVE Last(c, i) /\ ~(IsWrite(e) /\ e.slot = c[i].slot)
    <3>1. n \in i + 1 .. Len(d) /\ \A k \in i + 1 .. Len(c) : k \in i + 1 .. Len(d) /\ d[k] = c[k]
      BY <1>1
    <3> QED BY <1>1, <2>1, <3>1 DEF LastWrite
  <2>2. ASSUME Last(c, i), ~(IsWrite(e) /\ e.slot = c[i].slot) PROVE Last(d, i)
    <3>1. \A k \in i + 1 .. Len(d) : k = n \/ (k \in i + 1 .. Len(c) /\ d[k] = c[k])
      BY <1>1
    <3>2. \A k \in i + 1 .. Len(d) : IsWrite(d[k]) => d[k].slot # c[i].slot
      BY <1>1, <2>2, <3>1 DEF LastWrite
    <3> QED BY <1>1, <2>2, <3>2 DEF LastWrite
  <2> QED BY <2>1, <2>2
<1>3. Last(d, n) <=> e.type = "set"
  BY <1>1 DEF LastWrite, IsWrite
<1> HIDE DEF Last
<1>4. ASSUME NEW s
      PROVE  s \in ss <=> \E i \in 1 .. Len(c) : Last(c, i) /\ s = SecretOf(d[i])
  BY <1>1 DEF SecretsAre, Last
<1>5. ASSUME NEW s
      PROVE  (\E i \in 1 .. Len(d) : Last(d, i) /\ s = SecretOf(d[i])) <=>
             \/ e.type = "set" /\ s = SecretOf(e)
             \/ s \in ss /\ ~(IsWrite(e) /\ e.slot = s.slot)
  <2>1. \A i : i \in 1 .. Len(d) <=> i \in 1 .. Len(c) \/ i = n
    BY <1>1
  <2>2. \A i \in 1 .. Len(c) : SecretOf(d[i]).slot = c[i].slot
    BY <1>1 DEF SecretOf
  <2> HIDE DEF n
  <2>3. (\E i \in 1 .. Len(c) : Last(d, i) /\ s = SecretOf(d[i])) <=>
          (s \in ss /\ ~(IsWrite(e) /\ e.slot = s.slot))
    BY <1>2, <1>4, <2>2
  <2>4. (Last(d, n) /\ s = SecretOf(d[n])) <=> (e.type = "set" /\ s = SecretOf(e))
    BY <1>1, <1>3
  <2> QED BY <2>1, <2>3, <2>4
<1>6. ASSUME NEW s
      PROVE  s \in After <=> \/ e.type = "set" /\ s = SecretOf(e)
                             \/ s \in ss /\ ~(IsWrite(e) /\ e.slot = s.slot)
  <2>1. CASE e.type = "set"
    BY <2>1 DEF WriteSecret, SecretOf, IsWrite
  <2>2. CASE e.type = "deleted"
    BY <2>2 DEF IsWrite
  <2>3. CASE ~IsWrite(e)
    BY <2>3 DEF IsWrite
  <2> QED BY <2>1, <2>2, <2>3 DEF IsWrite
<1> HIDE DEF After
<1>7. SecretsAre(After, d)
  BY <1>5, <1>6 DEF SecretsAre, Last
<1> QED BY <1>7 DEF After, d

LEMMA ReflectsStep ==
    ASSUME NEW c \in Seq(Events), NEW e \in Events, NEW st, Reflects(st, c)
    PROVE  Reflects(Apply(st, e), Append(c, e))
<1>1. st \in States
  BY DEF Reflects
<1>2. UsersAre(Apply(st, e).users, Append(c, e))
  BY <1>1, ApplyFields, UsersStep DEF Reflects
<1>3. TokensAre(Apply(st, e).tokens, Append(c, e))
  <2> DEFINE ts == IF e.type = "token" THEN st.tokens \cup {TokenOf(e, FALSE)}
                   ELSE IF e.type = "revoked" THEN Revoke(st.tokens, e.id) ELSE st.tokens
  <2>1. Apply(st, e).tokens = ts
    BY <1>1, ApplyFields
  <2>2. TokensAre(ts, Append(c, e))
    BY TokensStep DEF Reflects
  <2> QED BY <2>1, <2>2
<1>4. ProjectsAre(Apply(st, e).projects, Append(c, e))
  BY <1>1, ApplyFields, ProjectsStep DEF Reflects
<1>5. EnvironmentsAre(Apply(st, e).environments, Append(c, e))
  BY <1>1, ApplyFields, EnvironmentsStep DEF Reflects
<1>6. SecretsAre(Apply(st, e).secrets, Append(c, e))
  <2> DEFINE ss == IF e.type = "set" THEN WriteSecret(st.secrets, e)
                   ELSE IF e.type = "deleted" THEN {s \in st.secrets : s.slot # e.slot}
                   ELSE st.secrets
  <2>1. Apply(st, e).secrets = ss
    BY <1>1, ApplyFields
  <2>2. SecretsAre(ss, Append(c, e))
    BY SecretsStep DEF Reflects
  <2> QED BY <2>1, <2>2
<1>7. Apply(st, e) \in States
  BY <1>1, ApplyFields
<1> QED BY <1>2, <1>3, <1>4, <1>5, <1>6, <1>7 DEF Reflects

\* replay(): whatever was written, the state is what a reader of the file would say.
LEMMA ReplayReflects == \A c \in Seq(Events) : Reflects(Replay(c), c)
<1> SUFFICES ASSUME NEW c \in Seq(Events) PROVE Reflects(Replay(c), c)
  OBVIOUS
<1> DEFINE S == {k \in Nat : Reflects(Replay(SubSeq(c, 1, k)), SubSeq(c, 1, k))}
<1>1. Len(c) \in Nat /\ SubSeq(c, 1, 0) = <<>> /\ SubSeq(c, 1, Len(c)) = c
  OBVIOUS
<1>2. 0 \in S
  <2>1. Replay(<<>>) = NoState
    BY FoldedEmpty DEF Replay
  <2>2. Len(<<>>) = 0 /\ 1 .. 0 = {}
    OBVIOUS
  <2>3. Reflects(NoState, <<>>)
    BY <2>2 DEF Reflects, NoState, States, UsersAre, TokensAre, ProjectsAre, EnvironmentsAre,
                SecretsAre
  <2> QED BY <1>1, <2>1, <2>3
<1>3. ASSUME NEW k \in 0 .. Len(c) - 1, k \in S
      PROVE  k + 1 \in S
  <2>1. /\ SubSeq(c, 1, k) \in Seq(Events) /\ c[k + 1] \in Events /\ k + 1 \in Nat
        /\ SubSeq(c, 1, k + 1) = Append(SubSeq(c, 1, k), c[k + 1])
    OBVIOUS
  <2>2. Replay(SubSeq(c, 1, k + 1)) = Apply(Replay(SubSeq(c, 1, k)), c[k + 1])
    BY FoldedNext DEF Replay
  <2>3. Reflects(Replay(SubSeq(c, 1, k)), SubSeq(c, 1, k))
    BY <1>3
  <2>4. Reflects(Apply(Replay(SubSeq(c, 1, k)), c[k + 1]), Append(SubSeq(c, 1, k), c[k + 1]))
    BY <2>1, <2>3, ReflectsStep
  <2> QED BY <2>1, <2>2, <2>4
<1> HIDE DEF S
<1>4. \A k \in 0 .. Len(c) : k \in S
  BY <1>1, <1>2, <1>3, UpTo
<1>5. Reflects(Replay(SubSeq(c, 1, Len(c))), SubSeq(c, 1, Len(c)))
  BY <1>1, <1>4 DEF S
<1> QED BY <1>1, <1>5

-----------------------------------------------------------------------------
(* Files that grow *)

\* d is c with more records after it.
Grown(c, d) ==
    /\ c \in Seq(Events) /\ d \in Seq(Events) /\ Len(c) <= Len(d)
    /\ \A i \in 1 .. Len(c) : d[i] = c[i]

\* A slot that is written in the new part has a last write, and it is there.
LEMMA LastWriteIn ==
    ASSUME NEW c, NEW d, Grown(c, d), NEW x,
           \E i \in Len(c) + 1 .. Len(d) : IsWrite(d[i]) /\ d[i].slot = x
    PROVE  \E i \in Len(c) + 1 .. Len(d) : LastWrite(d, x, i)
<1> DEFINE W(i) == IsWrite(d[i]) /\ d[i].slot = x
           m == Len(c)
           \* nothing in the new part up to m + k is a last write among those
           S == {k \in Nat : (\E i \in m + 1 .. m + k : W(i)) =>
                             \E i \in m + 1 .. m + k : W(i) /\ \A j \in i + 1 .. m + k : ~W(j)}
           N == Len(d) - m
<1>1. m \in Nat /\ Len(d) \in Nat /\ N \in Nat /\ m + N = Len(d)
  BY DEF Grown
<1> HIDE DEF W, m, N
<1>2. 0 \in S
  BY <1>1
<1>3. ASSUME NEW k \in 0 .. N - 1, k \in S
      PROVE  k + 1 \in S
  <2>1. k \in Nat /\ k + 1 \in Nat /\ m + (k + 1) = (m + k) + 1
    BY <1>1
  <2>2. CASE W(m + (k + 1))
    <3>1. /\ m + (k + 1) \in m + 1 .. m + (k + 1)
          /\ \A j \in (m + (k + 1)) + 1 .. m + (k + 1) : FALSE
      BY <1>1, <2>1
    <3> QED BY <2>1, <2>2, <3>1
  <2>3. CASE ~W(m + (k + 1)) /\ \E i \in m + 1 .. m + (k + 1) : W(i)
    <3>1. \A i \in m + 1 .. m + (k + 1) : i \in m + 1 .. m + k \/ i = m + (k + 1)
      BY <1>1, <2>1
    <3>2. \E i \in m + 1 .. m + k : W(i)
      BY <2>3, <3>1
    <3>3. PICK i \in m + 1 .. m + k : W(i) /\ \A j \in i + 1 .. m + k : ~W(j)
      BY <1>3, <3>2
    <3>4. /\ i \in m + 1 .. m + (k + 1)
          /\ \A j \in i + 1 .. m + (k + 1) : j \in i + 1 .. m + k \/ j = m + (k + 1)
      BY <1>1, <2>1
    <3> QED BY <2>1, <2>3, <3>3, <3>4
  <2>4. CASE ~ \E i \in m + 1 .. m + (k + 1) : W(i)
    BY <2>1, <2>4
  <2> QED BY <2>2, <2>3, <2>4
<1>4. N \in S
  <2> HIDE DEF S
  <2>1. \A k \in 0 .. N : k \in S
    BY <1>1, <1>2, <1>3, UpTo
  <2> QED BY <1>1, <2>1
<1>5. \E i \in m + 1 .. Len(d) : W(i)
  BY DEF W, m
<1>6. PICK i \in m + 1 .. Len(d) : W(i) /\ \A j \in i + 1 .. Len(d) : ~W(j)
  BY <1>1, <1>4, <1>5
<1>7. i \in 1 .. Len(d)
  BY <1>1
<1>8. LastWrite(d, x, i)
  BY <1>6, <1>7 DEF LastWrite, W
<1> QED BY <1>8 DEF m

\* A slot that is not written in the new part holds what it held.
LEMMA SlotKept ==
    ASSUME NEW c, NEW d, Grown(c, d), NEW x,
           \A i \in Len(c) + 1 .. Len(d) : IsWrite(d[i]) => d[i].slot # x,
           NEW s, s.slot = x
    PROVE  s \in Replay(c).secrets <=> s \in Replay(d).secrets
<1>1. Len(c) \in Nat /\ Len(d) \in Nat
  BY DEF Grown
<1>2. SecretsAre(Replay(c).secrets, c) /\ SecretsAre(Replay(d).secrets, d)
  BY ReplayReflects DEF Grown, Reflects
<1>3. ASSUME NEW i \in 1 .. Len(c), c[i].type = "set", LastWrite(c, c[i].slot, i), s = SecretOf(c[i])
      PROVE  d[i].type = "set" /\ LastWrite(d, d[i].slot, i) /\ s = SecretOf(d[i]) /\ i \in 1 .. Len(d)
  <2>1. d[i] = c[i] /\ i \in 1 .. Len(d) /\ c[i].slot = x
    BY <1>1, <1>3 DEF Grown, SecretOf
  <2>2. \A k \in i + 1 .. Len(d) : k \in Len(c) + 1 .. Len(d) \/ (k \in i + 1 .. Len(c) /\ d[k] = c[k])
    BY <1>1 DEF Grown
  <2>3. \A k \in i + 1 .. Len(d) : IsWrite(d[k]) => d[k].slot # x
    BY <1>3, <2>1, <2>2 DEF LastWrite
  <2> QED BY <1>3, <2>1, <2>3 DEF LastWrite
<1>4. ASSUME NEW i \in 1 .. Len(d), d[i].type = "set", LastWrite(d, d[i].slot, i), s = SecretOf(d[i])
      PROVE  c[i].type = "set" /\ LastWrite(c, c[i].slot, i) /\ s = SecretOf(c[i]) /\ i \in 1 .. Len(c)
  <2>1. d[i].slot = x /\ IsWrite(d[i])
    BY <1>4 DEF SecretOf, LastWrite
  <2>2. i \in 1 .. Len(c)
    BY <1>1, <2>1
  <2>3. c[i] = d[i] /\ \A k \in i + 1 .. Len(c) : k \in i + 1 .. Len(d) /\ d[k] = c[k]
    BY <1>1, <2>2 DEF Grown
  <2> QED BY <1>4, <2>2, <2>3 DEF LastWrite
<1>5. ASSUME s \in Replay(c).secrets PROVE s \in Replay(d).secrets
  BY <1>2, <1>3, <1>5 DEF SecretsAre
<1>6. ASSUME s \in Replay(d).secrets PROVE s \in Replay(c).secrets
  BY <1>2, <1>4, <1>6 DEF SecretsAre
<1> QED BY <1>5, <1>6

-----------------------------------------------------------------------------
(* Slots after a handler's events, all of them or the first few *)

\* d is c and the first k of the events.
Joined(c, events, k, d) ==
    /\ Grown(c, d) /\ events \in Seq(Events) /\ k \in 0 .. Len(events)
    /\ Len(d) = Len(c) + k
    /\ \A i \in 1 .. k : d[Len(c) + i] = events[i]

WriteOf(e) == <<e.slot, IF e.type = "set" THEN e.value ELSE Absent>>

LEMMA WritesAre ==
    ASSUME NEW events \in Seq(Events), NEW w
    PROVE  w \in Writes(events) <=> \E i \in 1 .. Len(events) : IsWrite(events[i]) /\ w = WriteOf(events[i])
<1>1. \A d : d \in Range(events) <=> \E i \in 1 .. Len(events) : d = events[i]
  BY DEF Range
<1>2. w \in Writes(events) <=> \E d \in Range(events) : IsWrite(d) /\ w = WriteOf(d)
  BY DEF Writes, WriteOf, IsWrite
<1> QED BY <1>1, <1>2

Untouched(x, c, events, k, d) ==
    /\ \A i \in 1 .. k : IsWrite(events[i]) => events[i].slot # x
    /\ \A s : s.slot = x => (s \in Replay(c).secrets <=> s \in Replay(d).secrets)
SetTo(x, e, d) ==
    /\ e.type = "set" /\ e.slot = x
    /\ \A s : s.slot = x => (s \in Replay(d).secrets <=> s = SecretOf(e))
Emptied(x, e, d) ==
    /\ e.type = "deleted" /\ e.slot = x
    /\ \A s : s.slot = x => s \notin Replay(d).secrets

\* A slot holds what it held, or what the last of the events to write it left.
LEMMA SlotAfter ==
    ASSUME NEW c, NEW events, NEW k, NEW d, Joined(c, events, k, d), NEW x
    PROVE  \/ Untouched(x, c, events, k, d)
           \/ \E i \in 1 .. k : SetTo(x, events[i], d)
           \/ \E i \in 1 .. k : Emptied(x, events[i], d)
<1>1. /\ Len(c) \in Nat /\ Len(d) \in Nat /\ k \in Nat /\ Len(d) = Len(c) + k
      /\ \A i \in 1 .. k : d[Len(c) + i] = events[i] /\ Len(c) + i \in Len(c) + 1 .. Len(d)
      /\ \A j \in Len(c) + 1 .. Len(d) : j - Len(c) \in 1 .. k /\ d[j] = events[j - Len(c)]
  BY DEF Joined, Grown
<1>2. CASE \A i \in 1 .. k : IsWrite(events[i]) => events[i].slot # x
  <2>1. \A j \in Len(c) + 1 .. Len(d) : IsWrite(d[j]) => d[j].slot # x
    BY <1>1, <1>2
  <2>2. \A s : s.slot = x => (s \in Replay(c).secrets <=> s \in Replay(d).secrets)
    BY <2>1, SlotKept DEF Joined
  <2> QED BY <1>2, <2>2 DEF Untouched
<1>3. CASE \E i \in 1 .. k : IsWrite(events[i]) /\ events[i].slot = x
  <2>1. \E j \in Len(c) + 1 .. Len(d) : IsWrite(d[j]) /\ d[j].slot = x
    BY <1>1, <1>3
  <2>2. PICK j \in Len(c) + 1 .. Len(d) : LastWrite(d, x, j)
    BY <2>1, LastWriteIn DEF Joined
  <2> DEFINE i == j - Len(c)
  <2>3. i \in 1 .. k /\ d[j] = events[i] /\ j \in 1 .. Len(d)
    BY <1>1
  <2> HIDE DEF i
  <2>4. SecretsAre(Replay(d).secrets, d)
    BY ReplayReflects DEF Joined, Grown, Reflects
  <2>5. \A l \in 1 .. Len(d) : LastWrite(d, x, l) => l = j
    <3> SUFFICES ASSUME NEW l \in 1 .. Len(d), LastWrite(d, x, l), l # j PROVE FALSE
      OBVIOUS
    <3>1. l \in j + 1 .. Len(d) \/ j \in l + 1 .. Len(d)
      BY <1>1, <2>3
    <3> QED BY <2>2, <3>1 DEF LastWrite
  <2>6. \A s : s.slot = x => (s \in Replay(d).secrets <=> d[j].type = "set" /\ s = SecretOf(d[j]))
    <3> SUFFICES ASSUME NEW s, s.slot = x
                 PROVE  s \in Replay(d).secrets <=> d[j].type = "set" /\ s = SecretOf(d[j])
      OBVIOUS
    <3>1. \A l : SecretOf(d[l]).slot = d[l].slot
      BY DEF SecretOf
    <3>2. ASSUME s \in Replay(d).secrets PROVE d[j].type = "set" /\ s = SecretOf(d[j])
      <4>1. PICK l \in 1 .. Len(d) : d[l].type = "set" /\ LastWrite(d, d[l].slot, l) /\ s = SecretOf(d[l])
        BY <2>4, <3>2 DEF SecretsAre
      <4>2. d[l].slot = x
        BY <3>1, <4>1
      <4> QED BY <2>5, <4>1, <4>2
    <3>3. ASSUME d[j].type = "set", s = SecretOf(d[j]) PROVE s \in Replay(d).secrets
      <4>1. d[j].slot = x
        BY <2>2 DEF LastWrite
      <4> QED BY <2>2, <2>3, <2>4, <3>3, <4>1 DEF SecretsAre
    <3> QED BY <3>2, <3>3
  <2>7. IsWrite(events[i]) /\ events[i].slot = x
    BY <2>2, <2>3 DEF LastWrite
  <2>8. CASE events[i].type = "set"
    <3>1. SetTo(x, events[i], d)
      BY <2>3, <2>6, <2>7, <2>8 DEF SetTo
    <3> QED BY <2>3, <3>1
  <2>9. CASE events[i].type = "deleted"
    <3>1. Emptied(x, events[i], d)
      BY <2>3, <2>6, <2>7, <2>9 DEF Emptied
    <3> QED BY <2>3, <3>1
  <2> QED BY <2>7, <2>8, <2>9 DEF IsWrite
<1> QED BY <1>2, <1>3

\* What is allowed after a handler that stopped, where m was allowed before it.
Allowed(m, events) ==
    m \cup Writes(events)
      \cup {<<w[1], Absent>> : w \in {x \in Writes(events) : \A y \in m : y[1] # x[1]}}

\* What a handler that stops on the way leaves is allowed for, however far it came.
LEMMA StandsStopped ==
    ASSUME NEW c, NEW events, NEW k, NEW d, Joined(c, events, k, d), NEW m, Stands(c, m)
    PROVE  Stands(d, Allowed(m, events))
<1> DEFINE new == {<<w[1], Absent>> : w \in {x \in Writes(events) : \A y \in m : y[1] # x[1]}}
           all == m \cup Writes(events) \cup new
<1>1. events \in Seq(Events) /\ Len(events) \in Nat /\ \A i \in 1 .. k : i \in 1 .. Len(events)
  BY DEF Joined
<1>2. ASSUME NEW i \in 1 .. k, IsWrite(events[i]) PROVE WriteOf(events[i]) \in Writes(events)
  BY <1>1, <1>2, WritesAre
<1>3. ASSUME NEW s \in Replay(d).secrets PROVE <<s.slot, s.value>> \in all
  <2>1. CASE Untouched(s.slot, c, events, k, d)
    BY <2>1 DEF Untouched, Stands
  <2>2. CASE \E i \in 1 .. k : SetTo(s.slot, events[i], d)
    <3>1. PICK i \in 1 .. k : SetTo(s.slot, events[i], d)
      BY <2>2
    <3>2. s = SecretOf(events[i]) /\ events[i].type = "set"
      BY <3>1 DEF SetTo
    <3>3. IsWrite(events[i]) /\ WriteOf(events[i]) = <<s.slot, s.value>>
      BY <3>2 DEF SecretOf, WriteOf, IsWrite
    <3> QED BY <1>2, <3>3
  <2>3. CASE \E i \in 1 .. k : Emptied(s.slot, events[i], d)
    BY <2>3 DEF Emptied
  <2> QED BY <2>1, <2>2, <2>3, SlotAfter
<1>4. ASSUME NEW w \in all
      PROVE  (\E s \in Replay(d).secrets : s.slot = w[1]) \/ <<w[1], Absent>> \in all
  <2>1. CASE Untouched(w[1], c, events, k, d)
    <3>1. ASSUME NEW y \in m, y[1] = w[1]
          PROVE  (\E s \in Replay(d).secrets : s.slot = w[1]) \/ <<w[1], Absent>> \in all
      BY <2>1, <3>1 DEF Stands, Untouched
    <3>2. CASE w \in Writes(events) /\ \A y \in m : y[1] # w[1]
      BY <3>2
    <3>3. CASE w \in new
      BY <3>3
    <3> QED BY <3>1, <3>2, <3>3
  <2>2. CASE \E i \in 1 .. k : SetTo(w[1], events[i], d)
    <3>1. PICK i \in 1 .. k : SetTo(w[1], events[i], d)
      BY <2>2
    <3>2. SecretOf(events[i]).slot = w[1]
      BY <3>1 DEF SetTo, SecretOf
    <3> QED BY <3>1, <3>2 DEF SetTo
  <2>3. CASE \E i \in 1 .. k : Emptied(w[1], events[i], d)
    <3>1. PICK i \in 1 .. k : Emptied(w[1], events[i], d)
      BY <2>3
    <3>2. IsWrite(events[i]) /\ WriteOf(events[i]) = <<w[1], Absent>>
      BY <3>1 DEF Emptied, WriteOf, IsWrite
    <3> QED BY <1>2, <3>2
  <2> QED BY <2>1, <2>2, <2>3, SlotAfter
<1> HIDE DEF all
<1>5. Stands(d, all)
  BY <1>3, <1>4 DEF Stands
<1> QED BY <1>5 DEF all, Allowed

\* What a handler that ends leaves is exactly what it wrote, and the rest as it was.
LEMMA StandsCommitted ==
    ASSUME NEW c, NEW events, NEW d, Joined(c, events, Len(events), d), NEW m, Stands(c, m)
    PROVE  Stands(d, {x \in m : \A w \in Writes(events) : w[1] # x[1]} \cup Writes(events))
<1> DEFINE k == Len(events)
           all == {x \in m : \A w \in Writes(events) : w[1] # x[1]} \cup Writes(events)
<1>1. events \in Seq(Events)
  BY DEF Joined
<1> HIDE DEF k
<1>2. ASSUME NEW i \in 1 .. k, IsWrite(events[i]) PROVE WriteOf(events[i]) \in Writes(events)
  BY <1>1, <1>2, WritesAre DEF k
<1>3. ASSUME NEW x, Untouched(x, c, events, k, d) PROVE \A w \in Writes(events) : w[1] # x
  <2>1. \A e : WriteOf(e)[1] = e.slot
    BY DEF WriteOf
  <2> QED BY <1>1, <1>3, <2>1, WritesAre DEF Untouched, k
<1>4. ASSUME NEW s \in Replay(d).secrets PROVE <<s.slot, s.value>> \in all
  <2>1. CASE Untouched(s.slot, c, events, k, d)
    <3>1. <<s.slot, s.value>> \in m
      BY <2>1 DEF Untouched, Stands
    <3>2. \A w \in Writes(events) : w[1] # <<s.slot, s.value>>[1]
      BY <1>3, <2>1
    <3> QED BY <3>1, <3>2
  <2>2. CASE \E i \in 1 .. k : SetTo(s.slot, events[i], d)
    <3>1. PICK i \in 1 .. k : SetTo(s.slot, events[i], d)
      BY <2>2
    <3>2. s = SecretOf(events[i]) /\ events[i].type = "set"
      BY <3>1 DEF SetTo
    <3>3. IsWrite(events[i]) /\ WriteOf(events[i]) = <<s.slot, s.value>>
      BY <3>2 DEF SecretOf, WriteOf, IsWrite
    <3> QED BY <1>2, <3>3
  <2>3. CASE \E i \in 1 .. k : Emptied(s.slot, events[i], d)
    BY <2>3 DEF Emptied
  <2> QED BY <2>1, <2>2, <2>3, SlotAfter DEF k
<1>5. ASSUME NEW w \in all
      PROVE  (\E s \in Replay(d).secrets : s.slot = w[1]) \/ <<w[1], Absent>> \in all
  <2>1. CASE Untouched(w[1], c, events, k, d)
    <3>1. \A y \in Writes(events) : y[1] # w[1]
      BY <1>3, <2>1
    <3>2. w \in m
      BY <3>1
    <3>3. CASE \E s \in Replay(c).secrets : s.slot = w[1]
      BY <2>1, <3>3 DEF Untouched
    <3>4. CASE <<w[1], Absent>> \in m
      BY <3>1, <3>4
    <3> QED BY <3>2, <3>3, <3>4 DEF Stands
  <2>2. CASE \E i \in 1 .. k : SetTo(w[1], events[i], d)
    <3>1. PICK i \in 1 .. k : SetTo(w[1], events[i], d)
      BY <2>2
    <3>2. SecretOf(events[i]).slot = w[1]
      BY <3>1 DEF SetTo, SecretOf
    <3> QED BY <3>1, <3>2 DEF SetTo
  <2>3. CASE \E i \in 1 .. k : Emptied(w[1], events[i], d)
    <3>1. PICK i \in 1 .. k : Emptied(w[1], events[i], d)
      BY <2>3
    <3>2. IsWrite(events[i]) /\ WriteOf(events[i]) = <<w[1], Absent>>
      BY <3>1 DEF Emptied, WriteOf, IsWrite
    <3> QED BY <1>2, <3>2
  <2> QED BY <2>1, <2>2, <2>3, SlotAfter DEF k
<1> HIDE DEF all
<1>6. Stands(d, all)
  BY <1>4, <1>5 DEF Stands
<1> QED BY <1>6 DEF all

-----------------------------------------------------------------------------
(* Well-formed files *)

\* Whether a record fits is decided by the ones before it.
LEMMA FitsAgree ==
    ASSUME NEW c, NEW d, NEW i \in Nat, \A j \in 1 .. i : d[j] = c[j], i >= 1, FitsAt(c, i)
    PROVE  FitsAt(d, i)
<1>1. d[i] = c[i] /\ \A j \in 1 .. i - 1 : d[j] = c[j]
  OBVIOUS
<1> QED BY <1>1 DEF FitsAt

LEMMA Prefix ==
    ASSUME NEW c \in Seq(Events), NEW n \in 0 .. Len(c)
    PROVE  /\ SubSeq(c, 1, n) \in Seq(Events) /\ Len(SubSeq(c, 1, n)) = n
           /\ \A i \in 1 .. n : SubSeq(c, 1, n)[i] = c[i]
           /\ Len(c) \in Nat /\ n \in Nat
OBVIOUS

\* What is left of a file after a loss is a file.
LEMMA WellFormedPrefix ==
    ASSUME NEW c, WellFormed(c), NEW n \in 0 .. Len(c)
    PROVE  WellFormed(SubSeq(c, 1, n))
<1> DEFINE d == SubSeq(c, 1, n)
<1>1. /\ d \in Seq(Events) /\ Len(d) = n /\ n \in Nat /\ Len(c) \in Nat
      /\ \A i \in 1 .. n : d[i] = c[i]
  BY Prefix DEF WellFormed
<1> HIDE DEF d
<1>2. ASSUME NEW i \in 1 .. n PROVE FitsAt(d, i)
  <2>1. i \in Nat /\ i >= 1 /\ i \in 1 .. Len(c) /\ \A j \in 1 .. i : d[j] = c[j]
    BY <1>1
  <2> QED BY <2>1, FitsAgree DEF WellFormed
<1>3. WellFormed(d)
  BY <1>1, <1>2 DEF WellFormed
<1> QED BY <1>3 DEF d

LEMMA WellFormedGrown ==
    ASSUME NEW c, NEW d, WellFormed(c), Grown(c, d), \A i \in Len(c) + 1 .. Len(d) : FitsAt(d, i)
    PROVE  WellFormed(d)
<1>1. Len(c) \in Nat /\ Len(d) \in Nat /\ d \in Seq(Events)
  BY DEF Grown
<1>2. ASSUME NEW i \in 1 .. Len(c) PROVE FitsAt(d, i)
  <2>1. i \in Nat /\ i >= 1 /\ \A j \in 1 .. i : d[j] = c[j]
    BY <1>1 DEF Grown
  <2> QED BY <2>1, FitsAgree DEF WellFormed
<1>3. \A i \in 1 .. Len(d) : i \in 1 .. Len(c) \/ i \in Len(c) + 1 .. Len(d)
  BY <1>1
<1> QED BY <1>1, <1>2, <1>3 DEF WellFormed

\* A part of a file joined to events is joined to fewer of them.
LEMMA JoinedPrefix ==
    ASSUME NEW c, NEW events, NEW k, NEW d, Joined(c, events, k, d),
           NEW n \in Len(c) .. Len(d)
    PROVE  Joined(c, events, n - Len(c), SubSeq(d, 1, n))
<1> DEFINE p == SubSeq(d, 1, n)
<1>1. /\ Len(c) \in Nat /\ Len(d) \in Nat /\ d \in Seq(Events) /\ n \in 0 .. Len(d)
      /\ k \in Nat /\ Len(d) = Len(c) + k /\ Len(events) \in Nat /\ k <= Len(events)
  BY DEF Joined, Grown
<1>2. p \in Seq(Events) /\ Len(p) = n /\ \A i \in 1 .. n : p[i] = d[i]
  BY <1>1, Prefix
<1> HIDE DEF p
<1>3. Grown(c, p)
  BY <1>1, <1>2 DEF Joined, Grown
<1>4. n - Len(c) \in 0 .. Len(events) /\ Len(p) = Len(c) + (n - Len(c))
  BY <1>1, <1>2
<1>5. ASSUME NEW i \in 1 .. n - Len(c) PROVE p[Len(c) + i] = events[i]
  <2>1. i \in 1 .. k /\ Len(c) + i \in 1 .. n
    BY <1>1
  <2> QED BY <1>2, <2>1 DEF Joined
<1>6. Joined(c, events, n - Len(c), p)
  BY <1>3, <1>4, <1>5 DEF Joined
<1> QED BY <1>6 DEF p

\* The parts that may be left after a handler stopped.
LEMMA StandsLeft ==
    ASSUME NEW c, NEW n \in 0 .. Len(c), NEW events, NEW k, NEW d, Joined(c, events, k, d),
           NEW m, PartsStand(c, n, m)
    PROVE  PartsStand(d, n, Allowed(m, events))
<1> SUFFICES ASSUME NEW l \in n .. Len(d) PROVE Stands(SubSeq(d, 1, l), Allowed(m, events))
  BY DEF PartsStand
<1>1. /\ c \in Seq(Events) /\ d \in Seq(Events) /\ events \in Seq(Events) /\ Len(c) <= Len(d)
      /\ Len(c) \in Nat /\ Len(d) \in Nat /\ \A i \in 1 .. Len(c) : d[i] = c[i]
  BY DEF Joined, Grown
<1>2. CASE l <= Len(c)
  <2> DEFINE p == SubSeq(c, 1, l)
  <2>1. l \in n .. Len(c) /\ l \in 0 .. Len(c) /\ l \in 0 .. Len(d)
    BY <1>1, <1>2
  <2>2. p \in Seq(Events) /\ Len(p) = l /\ l \in Nat
    BY <1>1, <2>1, Prefix
  <2>3. SubSeq(d, 1, l) = p
    <3>1. SubSeq(d, 1, l) \in Seq(Events) /\ Len(SubSeq(d, 1, l)) = l
      BY <1>1, <2>1, Prefix
    <3>2. \A i \in 1 .. l : SubSeq(d, 1, l)[i] = p[i]
      BY <1>1, <2>1, Prefix
    <3> QED BY <2>2, <3>1, <3>2, SeqEqual
  <2>4. Stands(p, m)
    BY <2>1 DEF PartsStand
  <2> HIDE DEF p
  <2>5. Joined(p, events, 0, p)
    BY <1>1, <2>2 DEF Joined, Grown
  <2>6. Stands(p, Allowed(m, events))
    BY <2>4, <2>5, StandsStopped
  <2> QED BY <2>3, <2>6
<1>3. CASE l > Len(c)
  <2>1. l \in Len(c) .. Len(d) /\ SubSeq(c, 1, Len(c)) = c /\ Len(c) \in n .. Len(c)
    BY <1>1, <1>3
  <2>2. Stands(c, m)
    BY <2>1 DEF PartsStand
  <2>3. Joined(c, events, l - Len(c), SubSeq(d, 1, l))
    BY <2>1, JoinedPrefix
  <2> QED BY <2>2, <2>3, StandsStopped
<1> QED BY <1>1, <1>2, <1>3

-----------------------------------------------------------------------------
(* The ghosts that speak of sure records *)

\* The sure records are still there, in their places, and still sure.
Keeps ==
    /\ sure \in Nat /\ sure' \in Nat /\ sure <= sure'
    /\ \A i \in 1 .. sure : content'[i] = content[i]

LEMMA DeadKept ==
    ASSUME NEW c, NEW d, NEW m \in Nat, NEW n \in Nat, m <= n,
           \A i \in 1 .. m : d[i] = c[i], NEW ds, DeadIn(c, m, ds)
    PROVE  DeadIn(d, n, ds)
<1> SUFFICES ASSUME NEW x \in ds PROVE \E i \in 1 .. n : EndedBy(d, n, x, i)
  BY DEF DeadIn
<1>1. PICK i \in 1 .. m : EndedBy(c, m, x, i)
  BY DEF DeadIn
<1>2. i \in 1 .. n /\ d[i] = c[i] /\ (x \in 1 .. m => x \in 1 .. n /\ d[x] = c[x])
  OBVIOUS
<1>3. EndedBy(d, n, x, i)
  BY <1>1, <1>2 DEF EndedBy
<1> QED BY <1>2, <1>3

LEMMA ShownKept ==
    ASSUME NEW c, NEW d, NEW m \in Nat, NEW n \in Nat, m <= n,
           \A i \in 1 .. m : d[i] = c[i], NEW q, ShownIn(c, m, q)
    PROVE  ShownIn(d, n, q)
<1>1. PICK f \in [1 .. Len(q) -> 1 .. m] : Recorded(c, m, q, f)
  BY DEF ShownIn
<1>2. \A i \in 1 .. m : i \in 1 .. n
  OBVIOUS
<1>3. f \in [1 .. Len(q) -> 1 .. n]
  BY <1>2
<1>4. Recorded(d, n, q, f)
  BY <1>1, <1>3 DEF Recorded
<1> QED BY <1>3, <1>4 DEF ShownIn

LEMMA ConfinedAgree ==
    ASSUME NEW a, NEW c, NEW d, NEW m \in Nat, NEW n \in Nat, m <= n,
           \A i \in 1 .. m : d[i] = c[i], Confined(a, c, m)
    PROVE  Confined(a, d, n)
<1>1. a.actor \in 1 .. m /\ d[a.actor] = c[a.actor] /\ \A i \in 1 .. m : i \in 1 .. n
  BY DEF Confined
<1> QED BY <1>1 DEF Confined

LEMMA ConfinedKept ==
    ASSUME NEW c, NEW d, NEW m \in Nat, NEW n \in Nat, m <= n,
           \A i \in 1 .. m : d[i] = c[i], NEW q, ConfinedIn(c, m, q)
    PROVE  ConfinedIn(d, n, q)
BY ConfinedAgree DEF ConfinedIn

\* All the invariant says of the ghosts shown, and dead.
LEMMA ShownStillOK ==
    ASSUME IInv, Keeps, shown' = shown
    PROVE  ShownOK' /\ ConfinedOK'
<1>1. /\ sure \in Nat /\ sure' \in Nat /\ sure <= sure'
      /\ \A i \in 1 .. sure : content'[i] = content[i]
  BY DEF Keeps
<1>2. ShownIn(content, sure, shown) /\ ConfinedIn(content, sure, shown)
  BY DEF IInv, ShownOK, ConfinedOK
<1>3. ShownIn(content', sure', shown)
  BY <1>1, <1>2, ShownKept
<1>4. ConfinedIn(content', sure', shown)
  BY <1>1, <1>2, ConfinedKept
<1> QED BY <1>3, <1>4 DEF ShownOK, ConfinedOK

LEMMA GhostsKept ==
    ASSUME IInv, Keeps, dead' = dead, shown' = shown
    PROVE  DeadOK' /\ ShownOK' /\ ConfinedOK'
<1>1. /\ sure \in Nat /\ sure' \in Nat /\ sure <= sure'
      /\ \A i \in 1 .. sure : content'[i] = content[i]
  BY DEF Keeps
<1>2. DeadIn(content', sure', dead)
  BY <1>1, DeadKept DEF IInv, DeadOK
<1> QED BY <1>2, ShownStillOK DEF DeadOK

-----------------------------------------------------------------------------
(* Handlers *)

LEMMA ConcatJoined ==
    ASSUME NEW c \in Seq(Events), NEW events \in Seq(Events), NEW k \in 0 .. Len(events)
    PROVE  /\ SubSeq(events, 1, k) \in Seq(Events)
           /\ Joined(c, events, k, c \o SubSeq(events, 1, k))
<1> DEFINE p == SubSeq(events, 1, k)
<1>1. p \in Seq(Events) /\ Len(p) = k /\ k \in Nat /\ \A i \in 1 .. k : p[i] = events[i]
  BY Prefix
<1> HIDE DEF p
<1>2. /\ c \o p \in Seq(Events) /\ Len(c \o p) = Len(c) + k /\ Len(c) \in Nat
      /\ \A i \in 1 .. Len(c) : (c \o p)[i] = c[i]
      /\ \A i \in 1 .. k : (c \o p)[Len(c) + i] = p[i]
  BY <1>1
<1>3. Joined(c, events, k, c \o p)
  BY <1>1, <1>2 DEF Joined, Grown
<1> QED BY <1>1, <1>3 DEF p

\* Memory that is the file stays the file when events are applied to both.
LEMMA ReplayConcat ==
    ASSUME NEW c \in Seq(Events), NEW events \in Seq(Events)
    PROVE  Folded(Replay(c), events) = Replay(c \o events)
BY FoldedConcat DEF Replay

LEMMA AppendedJoined ==
    ASSUME NEW c \in Seq(Events), NEW events \in Seq(Events), NEW k \in 1 .. Len(events)
    PROVE  Append(c \o SubSeq(events, 1, k - 1), events[k]) = c \o SubSeq(events, 1, k)
<1>1. /\ SubSeq(events, 1, k - 1) \in Seq(Events) /\ events[k] \in Events
      /\ SubSeq(events, 1, k) = Append(SubSeq(events, 1, k - 1), events[k])
  OBVIOUS
<1> QED BY <1>1

\* commit, all the way.
LEMMA CommitShape ==
    ASSUME IInv, Serving, NEW events \in Seq(Events), events # <<>>, Commits(events)
    PROVE  /\ ~broken /\ state = Replay(content)
           /\ Joined(content, events, Len(events), content')
           /\ sure' = Len(content')
           /\ state' = Replay(content')
           /\ UNCHANGED <<broken, poisoned>>
<1>1. ~broken /\ content' = content \o events /\ sure' = Len(content')
  BY DEF Commits
<1>2. state = Replay(content) /\ content \in Seq(Events)
  BY <1>1 DEF IInv, MemoryOK, Serving, TypeOK
<1>3. Len(events) \in 0 .. Len(events) /\ SubSeq(events, 1, Len(events)) = events
  OBVIOUS
<1>4. Joined(content, events, Len(events), content \o SubSeq(events, 1, Len(events)))
  BY <1>2, <1>3, ConcatJoined
<1>5. state' = Folded(Replay(content), events)
  BY <1>2 DEF Commits
<1>6. state' = Replay(content')
  BY <1>1, <1>2, <1>5, ReplayConcat
<1> QED BY <1>1, <1>2, <1>3, <1>4, <1>6 DEF Commits

\* A handler that stops at one of its events: nothing changed because the store had
\* stopped taking records, or the events before it and perhaps the record itself are
\* in the file.
LEMMA StopShape ==
    ASSUME IInv, Serving, NEW events \in Seq(Events), Stops(events)
    PROVE  \/ broken /\ UNCHANGED <<content, sure, state, broken, poisoned>>
           \/ /\ ~broken /\ state = Replay(content)
              /\ \E k \in 0 .. Len(events) : Joined(content, events, k, content')
              /\ sure' \in sure .. Len(content')
              /\ state' \in States
              /\ broken' \in BOOLEAN /\ poisoned' \in BOOLEAN
              /\ ~poisoned' =>
                    \/ state' = Replay(content')
                    \/ /\ broken' /\ sure' < Len(content')
                       /\ state' = Replay(SubSeq(content', 1, Len(content') - 1))
<1>1. /\ content \in Seq(Events) /\ Len(content) \in Nat /\ sure \in 0 .. Len(content)
      /\ broken \in BOOLEAN /\ poisoned = FALSE
  BY DEF IInv, TypeOK, Serving
<1>2. PICK n \in 1 .. Len(events) :
        LET reach == content \o SubSeq(events, 1, n - 1)
            refused == broken \/ TooLarge(events[n])
        IN /\ n > 1 => ~broken
           /\ state' = Folded(state, SubSeq(events, 1, n - 1))
           /\ \/ /\ refused
                 /\ content' = reach
                 /\ sure' = IF n = 1 THEN sure ELSE Len(reach)
                 /\ UNCHANGED <<broken, poisoned>>
              \/ /\ ~refused
                 /\ content' \in {reach, Append(reach, events[n])}
                 /\ sure' = IF n = 1 THEN sure ELSE Len(reach)
                 /\ broken' = TRUE
                 /\ UNCHANGED poisoned
              \/ /\ ~refused
                 /\ content' = Append(reach, events[n])
                 /\ sure' = Len(content')
                 /\ poisoned' = TRUE
                 /\ UNCHANGED broken
  BY DEF Stops
<1> DEFINE reach == content \o SubSeq(events, 1, n - 1)
<1>3. CASE broken
  <2>1. n = 1 /\ SubSeq(events, 1, n - 1) = <<>> /\ reach = content
    BY <1>1, <1>2, <1>3
  <2>2. state' = state
    BY <1>2, <2>1, FoldedEmpty
  <2> QED BY <1>2, <1>3, <2>1, <2>2
<1>4. CASE ~broken
  <2>1. state = Replay(content)
    BY <1>4 DEF IInv, MemoryOK, Serving
  <2>2. /\ n - 1 \in 0 .. Len(events) /\ n \in 0 .. Len(events) /\ n \in Nat
    OBVIOUS
  <2>3. /\ SubSeq(events, 1, n - 1) \in Seq(Events)
        /\ Joined(content, events, n - 1, reach)
        /\ Joined(content, events, n, content \o SubSeq(events, 1, n))
    BY <1>1, <2>2, ConcatJoined
  <2>4. Append(reach, events[n]) = content \o SubSeq(events, 1, n)
    BY <1>1, AppendedJoined
  <2>5. state' = Replay(reach)
    BY <1>1, <1>2, <2>1, <2>3, ReplayConcat
  <2>6. reach \in Seq(Events) /\ Len(reach) = Len(content) + (n - 1) /\ Len(reach) \in Nat
    BY <1>1, <2>2, <2>3 DEF Joined, Grown
  <2>7. state' \in States
    BY <2>5, <2>6, ReplayReflects DEF Reflects
  <2>8. events[n] \in Events
    OBVIOUS
  <2>9. /\ Len(Append(reach, events[n])) = Len(reach) + 1
        /\ SubSeq(Append(reach, events[n]), 1, Len(reach)) = reach
    BY <2>6, <2>8
  <2>10. (IF n = 1 THEN sure ELSE Len(reach)) \in sure .. Len(reach)
    BY <1>1, <2>2, <2>6
  <2> HIDE DEF reach
  <2>11. CASE content' = reach /\ sure' = (IF n = 1 THEN sure ELSE Len(reach)) /\ poisoned' = poisoned
              /\ broken' \in BOOLEAN
    BY <1>4, <2>1, <2>2, <2>3, <2>5, <2>7, <2>10, <2>11, <1>1
  <2>12. CASE /\ content' = Append(reach, events[n]) /\ poisoned' = poisoned /\ broken' = TRUE
              /\ sure' = IF n = 1 THEN sure ELSE Len(reach)
    <3>1. /\ sure' \in sure .. Len(content') /\ sure' < Len(content')
          /\ Len(content') - 1 = Len(reach)
      BY <1>1, <2>6, <2>9, <2>10, <2>12
    <3>2. Joined(content, events, n, content')
      BY <2>3, <2>4, <2>12
    <3>3. state' = Replay(SubSeq(content', 1, Len(content') - 1))
      BY <2>5, <2>9, <2>12, <3>1
    <3> QED BY <1>1, <1>4, <2>1, <2>2, <2>7, <2>12, <3>1, <3>2, <3>3
  <2>13. CASE /\ content' = Append(reach, events[n]) /\ poisoned' = TRUE /\ broken' = broken
              /\ sure' = Len(content')
    <3>1. sure' \in sure .. Len(content')
      BY <1>1, <2>6, <2>9, <2>13
    <3>2. Joined(content, events, n, content')
      BY <2>3, <2>4, <2>13
    <3> QED BY <1>1, <1>4, <2>1, <2>2, <2>7, <2>13, <3>1, <3>2
  <2> QED BY <1>1, <1>2, <1>4, <2>11, <2>12, <2>13 DEF reach
<1> QED BY <1>3, <1>4

\* What a handler may ask to be written, and what it may answer with a value.
Proper(op, events, res) ==
    /\ events \in Seq(Events) /\ res \in Answers
    /\ ~broken => \A k \in 1 .. Len(events) :
                     FitsAt(content \o events, Len(content) + k)
    /\ op \in {"read", "list"} /\ res = "ok" =>
          /\ Len(events) = 1
          /\ ~broken => Confined(events[1], content, Len(content))

LEMMA WritesType ==
    ASSUME NEW events \in Seq(Events)
    PROVE  Writes(events) \subseteq Slots \X (Values \cup {Absent})
<1>1. \A e \in Events : IsWrite(e) => WriteOf(e) \in Slots \X (Values \cup {Absent})
  BY DEF Events, IsWrite, WriteOf
<1>2. \A i \in 1 .. Len(events) : events[i] \in Events
  OBVIOUS
<1> QED BY <1>1, <1>2, WritesAre

\* The file a handler leaves is one this program may have written.
LEMMA JoinedWellFormed ==
    ASSUME IInv, NEW events \in Seq(Events), NEW k, NEW d, Joined(content, events, k, d),
           \A i \in 1 .. Len(events) : FitsAt(content \o events, Len(content) + i)
    PROVE  WellFormed(d)
<1> DEFINE w == content \o events
<1>1. /\ content \in Seq(Events) /\ WellFormed(content) /\ Len(content) \in Nat
      /\ Len(events) \in Nat /\ k \in Nat /\ k <= Len(events) /\ Len(d) = Len(content) + k
      /\ Grown(content, d)
  BY DEF IInv, TypeOK, FilesOK, FileOK, Joined, Grown
<1>2. /\ Len(w) = Len(content) + Len(events) /\ \A i \in 1 .. Len(content) : w[i] = content[i]
      /\ \A i \in 1 .. Len(events) : w[Len(content) + i] = events[i]
  BY <1>1
<1> HIDE DEF w
<1>3. \A j \in 1 .. Len(d) : d[j] = w[j]
  <2> SUFFICES ASSUME NEW j \in 1 .. Len(d) PROVE d[j] = w[j]
    OBVIOUS
  <2>1. CASE j <= Len(content)
    BY <1>1, <1>2, <2>1 DEF Grown
  <2>2. CASE j > Len(content)
    <3> DEFINE i == j - Len(content)
    <3>1. i \in 1 .. k /\ i \in 1 .. Len(events) /\ j = Len(content) + i
      BY <1>1, <2>2
    <3> HIDE DEF i
    <3> QED BY <1>2, <3>1 DEF Joined
  <2> QED BY <1>1, <2>1, <2>2
<1>4. ASSUME NEW j \in Len(content) + 1 .. Len(d) PROVE FitsAt(d, j)
  <2> DEFINE i == j - Len(content)
  <2>1. i \in 1 .. Len(events) /\ j = Len(content) + i /\ j \in Nat /\ j >= 1
    BY <1>1
  <2>2. FitsAt(w, j)
    BY <2>1 DEF w
  <2>3. \A l \in 1 .. j : d[l] = w[l]
    BY <1>1, <1>3
  <2> QED BY <2>1, <2>2, <2>3, FitsAgree
<1> QED BY <1>1, <1>4, WellFormedGrown

\* Joining keeps what is sure.
LEMMA JoinedKeeps ==
    ASSUME IInv, NEW events, NEW k, Joined(content, events, k, content'),
           sure' \in sure .. Len(content')
    PROVE  Keeps /\ content' \in Seq(Events) /\ Len(content') \in Nat /\ sure' \in 0 .. Len(content')
<1>1. /\ sure \in 0 .. Len(content) /\ Len(content) \in Nat
      /\ content' \in Seq(Events) /\ Len(content') \in Nat
      /\ \A i \in 1 .. Len(content) : content'[i] = content[i]
  BY DEF IInv, TypeOK, Joined, Grown
<1> QED BY <1>1 DEF Keeps

LEMMA StoppedOK ==
    ASSUME IInv, NEW op, NEW events, NEW res, Proper(op, events, res), Serving, Stops(events),
           ret' = "error",
           may' = may \cup Writes(events)
                \cup {<<w[1], Absent>> : w \in {x \in Writes(events) : \A m \in may : m[1] # x[1]}},
           UNCHANGED <<dead, shown, older, pc, unsealed, now, limit>>
    PROVE  IInv'
<1> USE DEF Proper
<1>0. may' = Allowed(may, events)
  BY DEF Allowed
<1>1. /\ may' \subseteq Slots \X (Values \cup {Absent})
  <2>1. Writes(events) \subseteq Slots \X (Values \cup {Absent}) /\ may \subseteq Slots \X (Values \cup {Absent})
    BY WritesType DEF IInv, TypeOK
  <2>2. \A w \in Writes(events) : <<w[1], Absent>> \in Slots \X (Values \cup {Absent})
    BY <2>1
  <2> QED BY <2>1, <2>2
<1>2. CASE broken /\ UNCHANGED <<content, sure, state, broken, poisoned>>
  <2>1. TypeOK'
    BY <1>1, <1>2 DEF IInv, TypeOK, Answers
  <2>2. FilesOK' /\ MemoryOK' /\ Keeps
    BY <1>2 DEF IInv, FilesOK, FileOK, MemoryOK, Keeps, TypeOK
  <2>3. StandsOK'
    <3>1. content \in Seq(Events) /\ sure \in 0 .. Len(content) /\ events \in Seq(Events)
      BY DEF IInv, TypeOK
    <3>2. Joined(content, events, 0, content)
      BY <3>1 DEF Joined, Grown
    <3>3. PartsStand(content, sure, may)
      BY DEF IInv, StandsOK
    <3>4. PartsStand(content, sure, Allowed(may, events))
      BY <3>1, <3>2, <3>3, StandsLeft
    <3> QED BY <1>0, <1>2, <3>4 DEF StandsOK
  <2> QED BY <2>1, <2>2, <2>3, GhostsKept DEF IInv
<1>3. CASE /\ ~broken /\ state = Replay(content)
           /\ \E k \in 0 .. Len(events) : Joined(content, events, k, content')
           /\ sure' \in sure .. Len(content')
           /\ state' \in States
           /\ broken' \in BOOLEAN /\ poisoned' \in BOOLEAN
           /\ ~poisoned' =>
                 \/ state' = Replay(content')
                 \/ /\ broken' /\ sure' < Len(content')
                    /\ state' = Replay(SubSeq(content', 1, Len(content') - 1))
  <2>1. PICK k \in 0 .. Len(events) : Joined(content, events, k, content')
    BY <1>3
  <2>2. Keeps /\ content' \in Seq(Events) /\ Len(content') \in Nat /\ sure' \in 0 .. Len(content')
    BY <1>3, <2>1, JoinedKeeps
  <2>3. TypeOK'
    <3>1. unsealed' = TRUE /\ unsealed' \in BOOLEAN
      BY DEF IInv, TypeOK, Serving
    <3> QED BY <1>1, <1>3, <2>2, <3>1 DEF IInv, TypeOK, Answers
  <2>4. FilesOK'
    <3>1. WellFormed(content')
      BY <1>3, <2>1, JoinedWellFormed
    <3> QED BY <2>2, <3>1 DEF IInv, FilesOK, FileOK
  <2>5. MemoryOK'
    BY <1>3 DEF IInv, MemoryOK, Serving
  <2>6. StandsOK'
    <3>1. content \in Seq(Events) /\ sure \in 0 .. Len(content) /\ sure \in Nat
      BY DEF IInv, TypeOK
    <3>2. PartsStand(content, sure, may)
      BY DEF IInv, StandsOK
    <3>3. PartsStand(content', sure, Allowed(may, events))
      BY <2>1, <3>1, <3>2, StandsLeft
    <3>4. \A l \in sure' .. Len(content') : l \in sure .. Len(content')
      BY <1>3, <2>2, <3>1
    <3> QED BY <1>0, <3>3, <3>4 DEF StandsOK, PartsStand
  <2> QED BY <2>2, <2>3, <2>4, <2>5, <2>6, GhostsKept DEF IInv
<1> QED BY <1>2, <1>3, StopShape

\* Whatever leaves the file and the ghosts alone leaves alone what is said of them.
LEMMA SameFile ==
    ASSUME IInv, UNCHANGED <<content, sure, older, dead, may, shown>>
    PROVE  FilesOK' /\ StandsOK' /\ DeadOK' /\ ShownOK' /\ ConfinedOK'
<1>1. Keeps
  BY DEF IInv, TypeOK, Keeps
<1>2. FilesOK' /\ StandsOK'
  BY DEF IInv, FilesOK, StandsOK, PartsStand
<1> QED BY <1>1, <1>2, GhostsKept

\* A token in memory is a record of the file, at the place that is its identifier.
LEMMA TokenIsRecord ==
    ASSUME NEW c, WellFormed(c), NEW t \in Replay(c).tokens
    PROVE  /\ t.id \in 1 .. Len(c) /\ c[t.id].type = "token"
           /\ t = TokenOf(c[t.id], RevokedIn(c, t.id))
<1>1. c \in Seq(Events) /\ TokensAre(Replay(c).tokens, c)
  BY ReplayReflects DEF WellFormed, Reflects
<1>2. PICK i \in 1 .. Len(c) : c[i].type = "token" /\ t = TokenOf(c[i], RevokedIn(c, i))
  BY <1>1 DEF TokensAre
<1>3. t.id = c[i].id
  BY <1>2 DEF TokenOf
<1>4. c[i].id = i
  BY <1>2 DEF WellFormed, FitsAt
<1> QED BY <1>2, <1>3, <1>4

\* An acknowledged end is on the medium.
LEMMA DeadCommitted ==
    ASSUME IInv, NEW events \in Seq(Events), Joined(content, events, Len(events), content'),
           state = Replay(content), sure' = Len(content'), dead' = dead \cup Ended(events)
    PROVE  DeadOK'
<1>1. /\ WellFormed(content) /\ content \in Seq(Events) /\ Len(content) \in Nat /\ Len(events) \in Nat
      /\ sure \in 0 .. Len(content) /\ Len(content') = Len(content) + Len(events)
      /\ \A i \in 1 .. Len(content) : content'[i] = content[i]
      /\ \A i \in 1 .. Len(events) : content'[Len(content) + i] = events[i]
      /\ \A i \in 1 .. Len(events) : Len(content) + i \in 1 .. sure'
      /\ \A i \in 1 .. Len(content) : i \in 1 .. sure'
      /\ \A i \in 1 .. sure : i \in 1 .. Len(content)
  BY DEF IInv, TypeOK, FilesOK, FileOK, Joined, Grown
<1>2. \A e : e \in Range(events) <=> \E i \in 1 .. Len(events) : e = events[i]
  BY DEF Range
<1> SUFFICES ASSUME NEW d \in dead' PROVE \E i \in 1 .. sure' : EndedBy(content', sure', d, i)
  BY DEF DeadOK, DeadIn
<1>3. CASE d \in dead
  <2>1. PICK i \in 1 .. sure : EndedBy(content, sure, d, i)
    BY <1>3 DEF IInv, DeadOK, DeadIn
  <2>2. i \in 1 .. sure' /\ content'[i] = content[i]
    BY <1>1
  <2>3. EndedBy(content', sure', d, i)
    BY <1>1, <2>1, <2>2 DEF EndedBy
  <2> QED BY <2>2, <2>3
<1>4. CASE \E e \in Range(events) : e.type = "revoked" /\ e.id = d
  <2>1. PICK i \in 1 .. Len(events) : events[i].type = "revoked" /\ events[i].id = d
    BY <1>2, <1>4
  <2>2. PICK j \in 1 .. sure' : content'[j] = events[i]
    BY <1>1
  <2>3. EndedBy(content', sure', d, j)
    BY <2>1, <2>2 DEF EndedBy
  <2> QED BY <2>3
<1>5. CASE \E t \in state.tokens : t.id = d /\ t.kind = "root" /\ \E e \in Range(events) : e.type = "user"
  <2>1. PICK t \in state.tokens : t.id = d /\ t.kind = "root"
    BY <1>5
  <2>2. PICK i \in 1 .. Len(events) : events[i].type = "user"
    BY <1>2, <1>5
  <2>3. /\ d \in 1 .. Len(content) /\ content[d].type = "token"
        /\ t = TokenOf(content[d], RevokedIn(content, d))
    BY <1>1, <2>1, TokenIsRecord
  <2>4. content[d].kind = "root"
    BY <2>1, <2>3 DEF TokenOf
  <2>5. PICK j \in 1 .. sure' : content'[j] = events[i]
    BY <1>1
  <2>6. EndedBy(content', sure', d, j)
    BY <1>1, <2>2, <2>3, <2>4, <2>5 DEF EndedBy
  <2> QED BY <2>6
<1>6. d \in dead \/ d \in Ended(events)
  OBVIOUS
<1>7. d \in Ended(events) =>
         \/ \E e \in Range(events) : e.type = "revoked" /\ e.id = d
         \/ \E t \in state.tokens : t.id = d /\ t.kind = "root" /\ \E e \in Range(events) : e.type = "user"
  BY DEF Ended
<1> QED BY <1>3, <1>4, <1>5, <1>6, <1>7

LEMMA OneMore ==
    ASSUME NEW c \in Seq(Events), NEW d \in Seq(Events), Len(d) = 1
    PROVE  /\ Len(c \o d) = Len(c) + 1 /\ (c \o d)[Len(c) + 1] = d[1]
           /\ \A i \in 1 .. Len(c) : (c \o d)[i] = c[i]
<1>1. Len(c) \in Nat /\ Len(c) + 1 \in 1 .. Len(c) + 1
  OBVIOUS
<1>2. /\ Len(c \o d) = Len(c) + Len(d)
      /\ \A i \in 1 .. Len(c) + Len(d) : (c \o d)[i] = IF i <= Len(c) THEN c[i] ELSE d[i - Len(c)]
  BY ConcatProperties
<1> QED BY <1>1, <1>2

\* A value is shown together with a new sure record of it.
LEMMA ShownCommitted ==
    ASSUME IInv, NEW events \in Seq(Events), Joined(content, events, Len(events), content'),
           sure' = Len(content'), Len(events) = 1, shown' = shown \o events,
           Confined(events[1], content, Len(content))
    PROVE  ShownOK' /\ ConfinedOK'
<1> DEFINE n == Len(shown)
<1>1. /\ content \in Seq(Events) /\ Len(content) \in Nat /\ shown \in Seq(Events) /\ n \in Nat
      /\ sure \in 0 .. Len(content) /\ sure \in Nat /\ sure' = Len(content) + 1 /\ sure' \in Nat
      /\ \A i \in 1 .. Len(content) : content'[i] = content[i]
      /\ content'[Len(content) + 1] = events[1]
  BY DEF IInv, TypeOK, Joined, Grown
<1>2. /\ Len(shown') = n + 1 /\ shown'[n + 1] = events[1]
      /\ \A i \in 1 .. n : shown'[i] = shown[i]
  <2>1. shown \in Seq(Events) /\ events \in Seq(Events) /\ Len(events) = 1
    BY <1>1
  <2>2. /\ Len(shown \o events) = Len(shown) + 1
        /\ (shown \o events)[Len(shown) + 1] = events[1]
        /\ \A i \in 1 .. Len(shown) : (shown \o events)[i] = shown[i]
    BY <2>1, OneMore
  <2> QED BY <2>2
<1>3. \A i \in 1 .. n + 1 : i \in 1 .. n \/ i = n + 1
  BY <1>1
<1>4. PICK f \in [1 .. n -> 1 .. sure] : Recorded(content, sure, shown, f)
  BY DEF IInv, ShownOK, ShownIn
<1>5. /\ \A i \in 1 .. n : content[f[i]] = shown[i]
      /\ \A i, j \in 1 .. n : f[i] = f[j] => i = j
  BY <1>4 DEF Recorded
<1> HIDE DEF n
<1>6. \A i \in 1 .. n : /\ f[i] \in 1 .. sure /\ f[i] \in 1 .. Len(content) /\ f[i] # Len(content) + 1
                        /\ f[i] \in 1 .. sure' /\ i # n + 1
  <2>1. \A i \in 1 .. n : f[i] \in 1 .. sure
    BY <1>4, Zenon
  <2>2. \A i \in 1 .. n : i # n + 1
    BY <1>1
  <2>3. \A j \in 1 .. sure : j \in 1 .. Len(content) /\ j # Len(content) + 1 /\ j \in 1 .. sure'
    BY <1>1
  <2> QED BY <2>1, <2>2, <2>3
<1>7. PICK g \in [1 .. n + 1 -> 1 .. sure'] :
        g[n + 1] = Len(content) + 1 /\ \A i \in 1 .. n : g[i] = f[i]
  <2> DEFINE h == [i \in 1 .. n + 1 |-> IF i = n + 1 THEN Len(content) + 1 ELSE f[i]]
  <2>1. n + 1 \in 1 .. n + 1 /\ \A i \in 1 .. n : i \in 1 .. n + 1
    BY <1>1
  <2>2. h[n + 1] = Len(content) + 1 /\ \A i \in 1 .. n : h[i] = f[i]
    BY <1>6, <2>1
  <2>3. h \in [1 .. n + 1 -> 1 .. sure']
    BY <1>1, <1>3, <1>6
  <2> QED BY <2>2, <2>3
<1>8. ASSUME NEW i \in 1 .. n + 1 PROVE content'[g[i]] = shown'[i]
  <2>1. CASE i = n + 1
    BY <1>1, <1>2, <1>7, <2>1
  <2>2. CASE i \in 1 .. n
    <3>1. g[i] = f[i] /\ f[i] \in 1 .. Len(content) /\ shown'[i] = shown[i]
      BY <1>2, <1>6, <1>7, <2>2
    <3>2. content'[f[i]] = content[f[i]]
      BY <1>1, <3>1
    <3> QED BY <1>5, <2>2, <3>1, <3>2
  <2> QED BY <1>3, <2>1, <2>2
<1>9. \A i, j \in 1 .. n + 1 : g[i] = g[j] => i = j
  BY <1>3, <1>5, <1>6, <1>7
<1>10. Recorded(content', sure', shown', g)
  BY <1>2, <1>7, <1>8, <1>9 DEF Recorded
<1>11. ShownOK'
  BY <1>2, <1>7, <1>10 DEF ShownOK, ShownIn
<1>12. ASSUME NEW i \in 1 .. n + 1 PROVE Confined(shown'[i], content', sure')
  <2>1. CASE i = n + 1
    <3>1. Len(content) <= sure'
      BY <1>1
    <3> QED BY <1>1, <1>2, <2>1, <3>1, ConfinedAgree
  <2>2. CASE i \in 1 .. n
    <3>1. Confined(shown[i], content, sure)
      BY <2>2 DEF IInv, ConfinedOK, ConfinedIn, n
    <3>2. sure <= sure' /\ \A j \in 1 .. sure : content'[j] = content[j]
      BY <1>1
    <3>3. Confined(shown[i], content', sure')
      BY <1>1, <3>1, <3>2, ConfinedAgree
    <3> QED BY <1>2, <2>2, <3>3
  <2> QED BY <1>3, <2>1, <2>2
<1>13. ConfinedOK'
  BY <1>2, <1>12 DEF ConfinedOK, ConfinedIn
<1> QED BY <1>11, <1>13

LEMMA CommittedOK ==
    ASSUME IInv, NEW op, NEW events, NEW res, Proper(op, events, res), Serving, Commits(events),
           ret' = res, dead' = dead \cup Ended(events),
           may' = {m \in may : \A w \in Writes(events) : w[1] # m[1]} \cup Writes(events),
           shown' = IF op \in {"read", "list"} /\ res = "ok" THEN shown \o events ELSE shown,
           UNCHANGED <<older, pc, unsealed, now, limit>>
    PROVE  IInv'
<1>1. events \in Seq(Events) /\ res \in Answers /\ Len(events) \in Nat
  BY DEF Proper
<1>2. CASE events = <<>>
  <2>1. content' = content /\ sure' = sure /\ UNCHANGED <<broken, poisoned>>
    BY <1>2 DEF Commits, IInv, TypeOK
  <2>2. state' = state
    BY <1>2, FoldedEmpty DEF Commits
  <2>3. Range(events) = {}
    BY <1>2 DEF Range
  <2>4. Ended(events) = {} /\ Writes(events) = {}
    BY <2>3 DEF Ended, Writes
  <2>5. dead' = dead /\ may' = may
    BY <2>4
  <2>6. shown' = shown
    BY <1>2 DEF Proper
  <2>7. TypeOK'
    BY <1>1, <2>1, <2>2, <2>5, <2>6 DEF IInv, TypeOK
  <2>8. MemoryOK'
    BY <2>1, <2>2 DEF IInv, MemoryOK
  <2> QED BY <2>1, <2>5, <2>6, <2>7, <2>8, SameFile DEF IInv
<1>3. CASE events # <<>>
  <2>1. /\ ~broken /\ state = Replay(content)
        /\ Joined(content, events, Len(events), content')
        /\ sure' = Len(content')
        /\ state' = Replay(content')
        /\ UNCHANGED <<broken, poisoned>>
    BY <1>1, <1>3, CommitShape
  <2>2. sure' \in sure .. Len(content')
    BY <2>1 DEF IInv, TypeOK, Joined, Grown
  <2>3. Keeps /\ content' \in Seq(Events) /\ Len(content') \in Nat /\ sure' \in 0 .. Len(content')
    BY <2>1, <2>2, JoinedKeeps
  <2>4. FilesOK'
    <3>1. WellFormed(content')
      BY <1>1, <2>1, JoinedWellFormed DEF Proper
    <3> QED BY <2>3, <3>1 DEF IInv, FilesOK, FileOK
  <2>5. MemoryOK'
    BY <2>1 DEF IInv, MemoryOK, Serving
  <2>6. StandsOK'
    <3> DEFINE all == {x \in may : \A w \in Writes(events) : w[1] # x[1]} \cup Writes(events)
    <3>1. may' = all
      OBVIOUS
    <3>2. content \in Seq(Events) /\ sure \in 0 .. Len(content) /\ Len(content) \in Nat
      BY DEF IInv, TypeOK
    <3>3. Len(content) \in sure .. Len(content) /\ SubSeq(content, 1, Len(content)) = content
      BY <3>2
    <3>4. Stands(content, may)
      BY <3>3 DEF IInv, StandsOK, PartsStand
    <3>5. Stands(content', all)
      BY <2>1, <3>4, StandsCommitted
    <3> HIDE DEF all
    <3>6. \A l \in sure' .. Len(content') : SubSeq(content', 1, l) = content'
      BY <2>1, <2>3
    <3> QED BY <3>1, <3>5, <3>6 DEF StandsOK, PartsStand
  <2>7. DeadOK'
    BY <1>1, <2>1, DeadCommitted
  <2>8. ShownOK' /\ ConfinedOK' /\ shown' \in Seq(Events)
    <3>1. CASE op \in {"read", "list"} /\ res = "ok"
      <4>1. Len(events) = 1 /\ Confined(events[1], content, Len(content)) /\ shown' = shown \o events
        BY <2>1, <3>1 DEF Proper
      <4>2. shown' \in Seq(Events)
        BY <1>1, <4>1 DEF IInv, TypeOK
      <4> QED BY <1>1, <2>1, <4>1, <4>2, ShownCommitted
    <3>2. CASE ~ (op \in {"read", "list"} /\ res = "ok")
      <4>1. shown' = shown
        BY <3>2
      <4>2. shown' \in Seq(Events)
        BY <4>1 DEF IInv, TypeOK
      <4> QED BY <2>3, <4>1, <4>2, ShownStillOK
    <3> QED BY <3>1, <3>2
  <2>9. dead' \subseteq Nat
    <3>1. \A i \in 1 .. Len(events) : events[i] \in Events
      BY <1>1
    <3>2. \A e \in Events : e.type = "revoked" => e.id \in Nat
      BY DEF Events
    <3>3. \A e \in Range(events) : \E i \in 1 .. Len(events) : e = events[i]
      BY <1>1 DEF Range
    <3>4. \A t \in state.tokens : t.id \in Nat
      BY DEF IInv, TypeOK, States
    <3>5. Ended(events) \subseteq Nat
      BY <3>1, <3>2, <3>3, <3>4 DEF Ended
    <3> QED BY <3>5 DEF IInv, TypeOK
  <2>10. may' \subseteq Slots \X (Values \cup {Absent})
    <3>1. Writes(events) \subseteq Slots \X (Values \cup {Absent})
      BY <1>1, WritesType
    <3> QED BY <3>1 DEF IInv, TypeOK
  <2>11. state' \in States
    BY <2>1, <2>3, ReplayReflects DEF Reflects
  <2>12. TypeOK'
    <3>1. unsealed' = TRUE
      BY DEF IInv, TypeOK, Serving
    <3> QED BY <1>1, <2>1, <2>3, <2>8, <2>9, <2>10, <2>11, <3>1 DEF IInv, TypeOK
  <2> QED BY <2>4, <2>5, <2>6, <2>7, <2>8, <2>12 DEF IInv
<1> QED BY <1>2, <1>3

\* A handler that asks for what it may keeps the invariant, however it ends.
LEMMA HandleOK ==
    ASSUME IInv, NEW op, NEW events, NEW res, Proper(op, events, res),
           Handle(op, events, res), limit' = limit
    PROVE  IInv'
<1>1. Serving /\ UNCHANGED <<older, pc, unsealed, now>>
  BY DEF Handle
<1>2. CASE /\ Commits(events)
           /\ ret' = res
           /\ dead' = dead \cup Ended(events)
           /\ may' = {m \in may : \A w \in Writes(events) : w[1] # m[1]} \cup Writes(events)
           /\ shown' = IF op \in {"read", "list"} /\ res = "ok" THEN shown \o events ELSE shown
  BY <1>1, <1>2, CommittedOK
<1>3. CASE /\ Stops(events)
           /\ ret' = "error"
           /\ may' = may \cup Writes(events)
                 \cup {<<w[1], Absent>> : w \in {x \in Writes(events) : \A m \in may : m[1] # x[1]}}
           /\ UNCHANGED <<dead, shown>>
  BY <1>1, <1>3, StoppedOK
<1> QED BY <1>2, <1>3 DEF Handle

-----------------------------------------------------------------------------
(* What each handler asks for *)

\* While the store takes records, memory is what the file says, and everything in
\* memory can be found in the file under its identifier.
LEMMA Known ==
    ASSUME IInv, Serving, ~broken
    PROVE  /\ content \in Seq(Events) /\ Len(content) \in Nat
           /\ \A i \in 1 .. Len(content) : FitsAt(content, i)
           /\ \A u \in state.users :
                 /\ u.id \in 1 .. Len(content) /\ content[u.id].type = "user"
                 /\ u = UserOf(content[u.id])
           /\ \A i \in 1 .. Len(content) :
                 content[i].type = "user" => UserOf(content[i]) \in state.users
           /\ \A p \in state.projects :
                 /\ p.id \in 1 .. Len(content) /\ content[p.id].type = "project"
                 /\ p = ProjectOf(content[p.id])
           /\ \A i \in 1 .. Len(content) :
                 content[i].type = "project" => ProjectOf(content[i]) \in state.projects
           /\ \A x \in state.environments :
                 /\ x.id \in 1 .. Len(content) /\ content[x.id].type = "environment"
                 /\ x = EnvironmentOf(content[x.id])
           /\ \A i \in 1 .. Len(content) :
                 content[i].type = "environment" => EnvironmentOf(content[i]) \in state.environments
           /\ \A t \in state.tokens :
                 /\ t.id \in 1 .. Len(content) /\ content[t.id].type = "token"
                 /\ t = TokenOf(content[t.id], RevokedIn(content, t.id))
<1>1. state = Replay(content) /\ WellFormed(content) /\ content \in Seq(Events) /\ Len(content) \in Nat
  BY DEF IInv, MemoryOK, Serving, TypeOK, FilesOK, FileOK
<1>2. Reflects(state, content)
  BY <1>1, ReplayReflects
<1>3. /\ \A i \in 1 .. Len(content) : FitsAt(content, i)
      /\ \A i \in 1 .. Len(content) :
            content[i].type \in {"user", "token", "project", "environment"} => content[i].id = i
  BY <1>1 DEF WellFormed, FitsAt
<1>4. /\ \A u \in state.users :
            /\ u.id \in 1 .. Len(content) /\ content[u.id].type = "user"
            /\ u = UserOf(content[u.id])
      /\ \A i \in 1 .. Len(content) :
            content[i].type = "user" => UserOf(content[i]) \in state.users
  <2>1. UsersAre(state.users, content)
    BY <1>2 DEF Reflects
  <2>2. \A e : UserOf(e).id = e.id
    BY DEF UserOf
  <2> QED BY <1>3, <2>1, <2>2 DEF UsersAre
<1>5. /\ \A p \in state.projects :
            /\ p.id \in 1 .. Len(content) /\ content[p.id].type = "project"
            /\ p = ProjectOf(content[p.id])
      /\ \A i \in 1 .. Len(content) :
            content[i].type = "project" => ProjectOf(content[i]) \in state.projects
  <2>1. ProjectsAre(state.projects, content)
    BY <1>2 DEF Reflects
  <2>2. \A e : ProjectOf(e).id = e.id
    BY DEF ProjectOf
  <2> QED BY <1>3, <2>1, <2>2 DEF ProjectsAre
<1>6. /\ \A x \in state.environments :
            /\ x.id \in 1 .. Len(content) /\ content[x.id].type = "environment"
            /\ x = EnvironmentOf(content[x.id])
      /\ \A i \in 1 .. Len(content) :
            content[i].type = "environment" => EnvironmentOf(content[i]) \in state.environments
  <2>1. EnvironmentsAre(state.environments, content)
    BY <1>2 DEF Reflects
  <2>2. \A e : EnvironmentOf(e).id = e.id
    BY DEF EnvironmentOf
  <2> QED BY <1>3, <2>1, <2>2 DEF EnvironmentsAre
<1>7. \A t \in state.tokens :
         /\ t.id \in 1 .. Len(content) /\ content[t.id].type = "token"
         /\ t = TokenOf(content[t.id], RevokedIn(content, t.id))
  BY <1>1, TokenIsRecord
<1> QED BY <1>1, <1>3, <1>4, <1>5, <1>6, <1>7

\* The record e may come after the records c.
FitsAfter(c, e) ==
    /\ e.type \in {"user", "token", "project", "environment"} => e.id = Len(c) + 1
    /\ e.type = "revoked" => e.id \in 1 .. Len(c)
    /\ e.type = "token" /\ e.user # NoUser => e.user \in 1 .. Len(c) /\ c[e.user].type = "user"
    /\ \A j \in 1 .. Len(c) :
          c[j].type = e.type =>
              /\ e.type = "user" => c[j].email # e.email
              /\ e.type = "project" => c[j].slug # e.slug
              /\ e.type = "environment" => c[j].project # e.project \/ c[j].slug # e.slug

LEMMA FitsNext ==
    ASSUME NEW c \in Seq(Events), NEW e \in Events, FitsAfter(c, e)
    PROVE  FitsAt(c \o <<e>>, Len(c) + 1)
<1> DEFINE d == c \o <<e>>
           n == Len(c)
<1>1. n \in Nat /\ d[n + 1] = e /\ \A i \in 1 .. n : d[i] = c[i]
  <2>1. <<e>> \in Seq(Events) /\ Len(<<e>>) = 1 /\ <<e>>[1] = e
    OBVIOUS
  <2> QED BY <2>1, OneMore
<1>2. (n + 1) - 1 = n
  BY <1>1
<1>3. /\ e.type \in {"user", "token", "project", "environment"} => e.id = n + 1
      /\ e.type = "revoked" => e.id \in 1 .. n
      /\ e.type = "token" /\ e.user # NoUser => e.user \in 1 .. n /\ d[e.user].type = "user"
      /\ \A j \in 1 .. n :
            d[j].type = e.type =>
                /\ e.type = "user" => d[j].email # e.email
                /\ e.type = "project" => d[j].slug # e.slug
                /\ e.type = "environment" => d[j].project # e.project \/ d[j].slug # e.slug
  BY <1>1 DEF FitsAfter
<1> HIDE DEF d, n
<1>4. FitsAt(d, n + 1)
  BY <1>1, <1>2, <1>3 DEF FitsAt
<1> QED BY <1>4 DEF d, n

LEMMA ProperOne ==
    ASSUME IInv, Serving, NEW op, op \notin {"read", "list"}, NEW e \in Events,
           ~broken => FitsAfter(content, e)
    PROVE  Proper(op, <<e>>, "ok")
<1>1. <<e>> \in Seq(Events) /\ Len(<<e>>) = 1 /\ content \in Seq(Events)
  BY DEF IInv, TypeOK
<1>2. ~broken => FitsAt(content \o <<e>>, Len(content) + 1)
  BY <1>1, FitsNext
<1>3. \A k \in 1 .. Len(<<e>>) : k = 1
  BY <1>1
<1> QED BY <1>1, <1>2, <1>3 DEF Proper, Answers

\* Records of values, deletions and audit entries may come anywhere.
LEMMA PlainFits ==
    ASSUME NEW c \in Seq(Events), NEW events \in Seq(Events),
           \A i \in 1 .. Len(events) : events[i].type \in {"set", "deleted", "audited"},
           NEW k \in 1 .. Len(events)
    PROVE  FitsAt(c \o events, Len(c) + k)
<1> DEFINE d == c \o events
<1>1. d[Len(c) + k] = events[k]
  <2>1. Len(c) \in Nat /\ Len(events) \in Nat /\ Len(c) + k \in 1 .. Len(c) + Len(events)
        /\ ~ (Len(c) + k <= Len(c)) /\ (Len(c) + k) - Len(c) = k
    OBVIOUS
  <2>2. \A i \in 1 .. Len(c) + Len(events) :
           (c \o events)[i] = IF i <= Len(c) THEN c[i] ELSE events[i - Len(c)]
    BY ConcatProperties
  <2> QED BY <2>1, <2>2
<1>2. d[Len(c) + k].type \in {"set", "deleted", "audited"}
  BY <1>1
<1> HIDE DEF d
<1>3. FitsAt(d, Len(c) + k)
  BY <1>2 DEF FitsAt
<1> QED BY <1>3 DEF d

LEMMA ProperPlain ==
    ASSUME IInv, NEW op, NEW res \in Answers, op \notin {"read", "list"} \/ res # "ok",
           NEW events \in Seq(Events),
           \A i \in 1 .. Len(events) : events[i].type \in {"set", "deleted", "audited"}
    PROVE  Proper(op, events, res)
<1>1. content \in Seq(Events)
  BY DEF IInv, TypeOK
<1> QED BY <1>1, PlainFits DEF Proper

LEMMA EventTypes ==
    ASSUME NEW id \in Nat
    PROVE  /\ \A email \in Emails : UserCreated(id, email) \in Events
           /\ \A kind \in {"session", "machine"}, user \in Nat, scope \in Nat \X Nat, expires \in Nat :
                 TokenIssued(id, kind, user, scope, expires) \in Events
           /\ TokenRevoked(id) \in Events
           /\ \A slug \in ProjectSlugs : ProjectCreated(id, slug) \in Events
           /\ \A project \in Nat, slug \in EnvironmentSlugs :
                 EnvironmentCreated(id, project, slug) \in Events
           /\ \A action \in {"set", "read", "list", "delete", "rekey"}, target \in Targets \cup {<<>>},
                 outcome \in {"ok", "denied", "missing", "unknown"} :
                 Audited(id, action, target, outcome) \in Events
BY DEF Events, UserCreated, TokenIssued, TokenRevoked, ProjectCreated, EnvironmentCreated, Audited

LEMMA WriteTypes ==
    ASSUME NEW scope \in Nat \X Nat, NEW key \in SecretKeys
    PROVE  /\ \A v \in Values : SecretSet(SlotIn(scope, key), v) \in Events
           /\ SecretDeleted(SlotIn(scope, key)) \in Events
<1>1. SlotIn(scope, key) \in Slots
  BY DEF SlotIn, Slots
<1> QED BY <1>1 DEF Events, SecretSet, SecretDeleted

\* What memory holds has its type.
LEMMA MemoryTypes ==
    ASSUME IInv
    PROVE  /\ Len(content) \in Nat /\ NextId \in Nat
           /\ \A u \in state.users : u.id \in Nat
           /\ \A t \in state.tokens : t.id \in Nat /\ t.user \in Nat /\ Actor(t) \in Nat
           /\ \A p \in state.projects : p.id \in Nat
           /\ \A x \in state.environments : x.id \in Nat /\ x.project \in Nat
           /\ \A target : Resolve(target) \subseteq Nat \X Nat
           /\ \A ttl \in Lifetimes : Expiry(ttl) \in Nat
<1>1. content \in Seq(Events) /\ state \in States /\ now \in 0 .. MaxNow
  BY DEF IInv, TypeOK
<1>2. Len(content) \in Nat /\ NextId \in Nat
  BY <1>1 DEF NextId
<1>3. /\ \A u \in state.users : u.id \in Nat
      /\ \A t \in state.tokens : t.id \in Nat /\ t.user \in Nat
      /\ \A p \in state.projects : p.id \in Nat
      /\ \A x \in state.environments : x.id \in Nat /\ x.project \in Nat
  BY <1>1 DEF States
<1>4. \A target : Resolve(target) \subseteq Nat \X Nat
  BY <1>3 DEF Resolve
<1>5. \A ttl \in Lifetimes : Expiry(ttl) \in Nat
  BY <1>1, VaultAssumption DEF Expiry, Never
<1>6. \A t \in state.tokens : Actor(t) \in Nat
  BY <1>3 DEF Actor
<1> QED BY <1>2, <1>3, <1>4, <1>5, <1>6

LEMMA CreateUserOK ==
    ASSUME IInv, NEW t \in state.tokens, NEW email \in Emails, CreateUser(t, email), limit' = limit
    PROVE  IInv'
<1> DEFINE e == UserCreated(NextId, email)
<1>1. Serving /\ \A u \in state.users : u.email # email
  BY DEF CreateUser, Handle
<1>2. e \in Events
  BY MemoryTypes, EventTypes
<1>3. ASSUME ~broken PROVE FitsAfter(content, e)
  <2>1. e.type = "user" /\ e.id = Len(content) + 1 /\ e.email = email
    BY DEF UserCreated, NextId
  <2>2. \A j \in 1 .. Len(content) : content[j].type = "user" => content[j].email # email
    <3>1. \A j \in 1 .. Len(content) : content[j].type = "user" => UserOf(content[j]) \in state.users
      BY <1>1, <1>3, Known
    <3> QED BY <1>1, <3>1 DEF UserOf
  <2> HIDE DEF e
  <2> QED BY <2>1, <2>2 DEF FitsAfter
<1>4. Handle("create_user", <<e>>, "ok")
  BY DEF CreateUser
<1> HIDE DEF e
<1>5. Proper("create_user", <<e>>, "ok")
  BY <1>1, <1>2, <1>3, ProperOne
<1> QED BY <1>4, <1>5, HandleOK

LEMMA LoginOK ==
    ASSUME IInv, NEW email \in Emails, NEW ttl \in Lifetimes, Login(email, ttl), limit' = limit
    PROVE  IInv'
<1>1. PICK u \in state.users :
        Handle("login", <<TokenIssued(NextId, "session", u.id, NoScope, Expiry(ttl))>>, "ok")
  BY DEF Login
<1> DEFINE e == TokenIssued(NextId, "session", u.id, NoScope, Expiry(ttl))
<1>2. Serving
  BY <1>1 DEF Handle
<1>3. e \in Events
  <2>1. NoScope \in Nat \X Nat
    BY DEF NoScope
  <2> QED BY <2>1, MemoryTypes, EventTypes
<1>4. ASSUME ~broken PROVE FitsAfter(content, e)
  <2>1. e.type = "token" /\ e.id = Len(content) + 1 /\ e.user = u.id
    BY DEF TokenIssued, NextId
  <2>2. u.id \in 1 .. Len(content) /\ content[u.id].type = "user"
    BY <1>2, <1>4, Known
  <2> HIDE DEF e
  <2> QED BY <2>1, <2>2 DEF FitsAfter
<1> HIDE DEF e
<1>5. Proper("login", <<e>>, "ok")
  BY <1>2, <1>3, <1>4, ProperOne
<1>6. Handle("login", <<e>>, "ok")
  BY <1>1 DEF e
<1> QED BY <1>5, <1>6, HandleOK

LEMMA IssueOK ==
    ASSUME IInv, NEW t \in state.tokens, NEW p, NEW x, NEW ttl \in Lifetimes,
           IssueMachineToken(t, p, x, ttl), limit' = limit
    PROVE  IInv'
<1>1. PICK scope \in Resolve(<<p, x>>) :
        Handle("issue", <<TokenIssued(NextId, "machine", NoUser, scope, Expiry(ttl))>>, "ok")
  BY DEF IssueMachineToken
<1> DEFINE e == TokenIssued(NextId, "machine", NoUser, scope, Expiry(ttl))
<1>2. Serving
  BY <1>1 DEF Handle
<1>3. e \in Events
  <2>1. scope \in Nat \X Nat /\ NoUser \in Nat
    BY MemoryTypes DEF NoUser
  <2> QED BY <2>1, MemoryTypes, EventTypes
<1>4. ASSUME ~broken PROVE FitsAfter(content, e)
  <2>1. e.type = "token" /\ e.id = Len(content) + 1 /\ e.user = NoUser
    BY DEF TokenIssued, NextId
  <2> HIDE DEF e
  <2> QED BY <2>1 DEF FitsAfter
<1> HIDE DEF e
<1>5. Proper("issue", <<e>>, "ok")
  BY <1>2, <1>3, <1>4, ProperOne
<1>6. Handle("issue", <<e>>, "ok")
  BY <1>1 DEF e
<1> QED BY <1>5, <1>6, HandleOK

LEMMA RevokeOK ==
    ASSUME IInv, NEW t \in state.tokens, NEW id, RevokeToken(t, id), limit' = limit
    PROVE  IInv'
<1> DEFINE e == TokenRevoked(id)
<1>1. PICK u \in state.tokens : u.id = id
  BY DEF RevokeToken, Tokens
<1>2. Serving /\ Handle("revoke", <<e>>, "ok")
  BY DEF RevokeToken, Handle
<1>3. e \in Events
  BY <1>1, MemoryTypes, EventTypes
<1>4. ASSUME ~broken PROVE FitsAfter(content, e)
  <2>1. e.type = "revoked" /\ e.id = id
    BY DEF TokenRevoked
  <2>2. id \in 1 .. Len(content)
    BY <1>1, <1>2, <1>4, Known
  <2> HIDE DEF e
  <2> QED BY <2>1, <2>2 DEF FitsAfter
<1> HIDE DEF e
<1>5. Proper("revoke", <<e>>, "ok")
  BY <1>2, <1>3, <1>4, ProperOne
<1> QED BY <1>2, <1>5, HandleOK

LEMMA CreateProjectOK ==
    ASSUME IInv, NEW t \in state.tokens, NEW slug \in ProjectSlugs, CreateProject(t, slug), limit' = limit
    PROVE  IInv'
<1> DEFINE e == ProjectCreated(NextId, slug)
<1>1. Serving /\ \A p \in state.projects : p.slug # slug
  BY DEF CreateProject, Handle
<1>2. e \in Events
  BY MemoryTypes, EventTypes
<1>3. ASSUME ~broken PROVE FitsAfter(content, e)
  <2>1. e.type = "project" /\ e.id = Len(content) + 1 /\ e.slug = slug
    BY DEF ProjectCreated, NextId
  <2>2. \A j \in 1 .. Len(content) : content[j].type = "project" => content[j].slug # slug
    <3>1. \A j \in 1 .. Len(content) :
             content[j].type = "project" => ProjectOf(content[j]) \in state.projects
      BY <1>1, <1>3, Known
    <3> QED BY <1>1, <3>1 DEF ProjectOf
  <2> HIDE DEF e
  <2> QED BY <2>1, <2>2 DEF FitsAfter
<1>4. Handle("create_project", <<e>>, "ok")
  BY DEF CreateProject
<1> HIDE DEF e
<1>5. Proper("create_project", <<e>>, "ok")
  BY <1>1, <1>2, <1>3, ProperOne
<1> QED BY <1>4, <1>5, HandleOK

\* No environment of that project has that slug, or resolve would have found it.
LEMMA CreateEnvironmentOK ==
    ASSUME IInv, NEW t \in state.tokens, NEW p, NEW slug \in EnvironmentSlugs,
           CreateEnvironment(t, p, slug), limit' = limit
    PROVE  IInv'
<1>1. PICK q \in state.projects :
        q.slug = p /\ Handle("create_environment", <<EnvironmentCreated(NextId, q.id, slug)>>, "ok")
  BY DEF CreateEnvironment
<1> DEFINE e == EnvironmentCreated(NextId, q.id, slug)
<1>2. Serving /\ Resolve(<<p, slug>>) = {}
  BY <1>1 DEF Handle, CreateEnvironment
<1>3. e \in Events
  BY MemoryTypes, EventTypes
<1>4. ASSUME ~broken PROVE FitsAfter(content, e)
  <2>1. e.type = "environment" /\ e.id = Len(content) + 1 /\ e.project = q.id /\ e.slug = slug
    BY DEF EnvironmentCreated, NextId
  <2>2. ASSUME NEW j \in 1 .. Len(content), content[j].type = "environment",
               content[j].project = q.id, content[j].slug = slug
        PROVE  FALSE
    <3> DEFINE x == EnvironmentOf(content[j])
    <3>1. x \in state.environments
      BY <1>2, <1>4, <2>2, Known
    <3>2. x.project = q.id /\ x.slug = slug
      BY <2>2 DEF EnvironmentOf
    <3> HIDE DEF x
    <3>3. <<q.id, x.id>> \in Resolve(<<p, slug>>)
      <4>1. q \in {r \in state.projects : r.slug = <<p, slug>>[1]}
        BY <1>1
      <4>2. x \in {y \in state.environments : y.slug = <<p, slug>>[2]}
        BY <3>1, <3>2
      <4>3. <<q.id, x.id>> \in {<<y.project, y.id>> : y \in state.environments}
        BY <3>1, <3>2
      <4> QED BY <4>1, <4>2, <4>3 DEF Resolve
    <3> QED BY <1>2, <3>3
  <2> HIDE DEF e
  <2> QED BY <2>1, <2>2 DEF FitsAfter
<1> HIDE DEF e
<1>5. Proper("create_environment", <<e>>, "ok")
  BY <1>2, <1>3, <1>4, ProperOne
<1>6. Handle("create_environment", <<e>>, "ok")
  BY <1>1 DEF e
<1> QED BY <1>5, <1>6, HandleOK

-----------------------------------------------------------------------------
(* Secrets *)

LEMMA RefusedOK ==
    ASSUME IInv, NEW t \in state.tokens, NEW action \in {"set", "read", "list", "delete"},
           NEW capability, NEW target \in Targets, Refused(t, action, capability, target),
           limit' = limit
    PROVE  IInv'
<1>1. ASSUME NEW outcome \in {"denied", "unknown"}, NEW res \in {"denied", "unknown"},
             Handle(action, <<Audited(Actor(t), action, target, outcome)>>, res)
      PROVE  IInv'
  <2> DEFINE e == Audited(Actor(t), action, target, outcome)
  <2>1. e \in Events /\ e.type = "audited"
    BY MemoryTypes, EventTypes DEF Audited
  <2> HIDE DEF e
  <2>2. <<e>> \in Seq(Events) /\ \A i \in 1 .. Len(<<e>>) : <<e>>[i].type \in {"set", "deleted", "audited"}
    BY <2>1
  <2>3. res \in Answers /\ res # "ok"
    BY DEF Answers
  <2>4. Proper(action, <<e>>, res)
    BY <2>2, <2>3, ProperPlain
  <2>5. Handle(action, <<e>>, res)
    BY <1>1 DEF e
  <2> QED BY <2>4, <2>5, HandleOK
<1>2. Unknown(t) \in {"denied", "unknown"}
  BY DEF Unknown
<1> QED BY <1>1, <1>2 DEF Refused

LEMMA SetSecretOK ==
    ASSUME IInv, NEW t \in state.tokens, NEW target \in ProjectSlugs \X EnvironmentSlugs \X SecretKeys,
           NEW v \in Values, SetSecret(t, target, v), limit' = limit
    PROVE  IInv'
<1>1. target \in Targets /\ target[3] \in SecretKeys
  BY DEF Targets
<1>2. CASE Refused(t, "set", "write", target)
  BY <1>1, <1>2, RefusedOK
<1>3. ASSUME NEW scope \in Permitted(t, "write", target),
             Handle("set", <<SecretSet(SlotIn(scope, target[3]), v),
                             Audited(Actor(t), "set", target, "ok")>>, "ok")
      PROVE  IInv'
  <2> DEFINE e == SecretSet(SlotIn(scope, target[3]), v)
             a == Audited(Actor(t), "set", target, "ok")
  <2>1. scope \in Nat \X Nat
    BY MemoryTypes DEF Permitted
  <2>2. e \in Events /\ e.type = "set"
    BY <1>1, <2>1, WriteTypes DEF SecretSet
  <2>3. a \in Events /\ a.type = "audited"
    BY <1>1, MemoryTypes, EventTypes DEF Audited
  <2> HIDE DEF e, a
  <2>4. /\ <<e, a>> \in Seq(Events)
        /\ \A i \in 1 .. Len(<<e, a>>) : <<e, a>>[i].type \in {"set", "deleted", "audited"}
    BY <2>2, <2>3
  <2>5. Proper("set", <<e, a>>, "ok")
    BY <2>4, ProperPlain DEF Answers
  <2>6. Handle("set", <<e, a>>, "ok")
    BY <1>3 DEF e, a
  <2> QED BY <2>5, <2>6, HandleOK
<1> QED BY <1>2, <1>3 DEF SetSecret

LEMMA DeleteSecretOK ==
    ASSUME IInv, NEW t \in state.tokens, NEW target \in ProjectSlugs \X EnvironmentSlugs \X SecretKeys,
           DeleteSecret(t, target), limit' = limit
    PROVE  IInv'
<1>1. target \in Targets /\ target[3] \in SecretKeys
  BY DEF Targets
<1>2. CASE Refused(t, "delete", "write", target)
  BY <1>1, <1>2, RefusedOK
<1>3. CASE Handle("delete", <<>>, "missing")
  <2>1. <<>> \in Seq(Events) /\ \A i \in 1 .. Len(<<>>) : <<>>[i].type \in {"set", "deleted", "audited"}
    OBVIOUS
  <2>2. Proper("delete", <<>>, "missing")
    BY <2>1, ProperPlain DEF Answers
  <2> QED BY <1>3, <2>2, HandleOK
<1>4. ASSUME NEW scope \in Permitted(t, "write", target),
             Handle("delete", <<SecretDeleted(SlotIn(scope, target[3])),
                                Audited(Actor(t), "delete", target, "ok")>>, "ok")
      PROVE  IInv'
  <2> DEFINE e == SecretDeleted(SlotIn(scope, target[3]))
             a == Audited(Actor(t), "delete", target, "ok")
  <2>1. scope \in Nat \X Nat
    BY MemoryTypes DEF Permitted
  <2>2. e \in Events /\ e.type = "deleted"
    BY <1>1, <2>1, WriteTypes DEF SecretDeleted
  <2>3. a \in Events /\ a.type = "audited"
    BY <1>1, MemoryTypes, EventTypes DEF Audited
  <2> HIDE DEF e, a
  <2>4. /\ <<e, a>> \in Seq(Events)
        /\ \A i \in 1 .. Len(<<e, a>>) : <<e, a>>[i].type \in {"set", "deleted", "audited"}
    BY <2>2, <2>3
  <2>5. Proper("delete", <<e, a>>, "ok")
    BY <2>4, ProperPlain DEF Answers
  <2>6. Handle("delete", <<e, a>>, "ok")
    BY <1>4 DEF e, a
  <2> QED BY <2>5, <2>6, HandleOK
<1> QED BY <1>2, <1>3, <1>4 DEF DeleteSecret

\* A read that was allowed: the names in its audit record are those of the scope of
\* the token that asked, if it is a machine's.
LEMMA ReadConfined ==
    ASSUME IInv, Serving, ~broken, NEW t \in state.tokens, NEW target, NEW action,
           NEW scope \in Permitted(t, "read", target)
    PROVE  Confined(Audited(Actor(t), action, target, "ok"), content, Len(content))
<1> DEFINE a == Audited(Actor(t), action, target, "ok")
           e == content[t.id]
<1>1. a.actor = Actor(t) /\ a.target = target
  BY DEF Audited
<1>2. /\ t.id \in 1 .. Len(content) /\ e.type = "token" /\ t = TokenOf(e, RevokedIn(content, t.id))
      /\ FitsAt(content, t.id) /\ Len(content) \in Nat
  BY Known
<1>3. e.kind = t.kind /\ e.scope = t.scope /\ e.user = t.user
  BY <1>2 DEF TokenOf
<1>4. e.user # NoUser => e.user \in 1 .. t.id - 1 /\ content[e.user].type = "user"
  BY <1>2 DEF FitsAt
<1>5. Actor(t) \in 1 .. Len(content) /\ (content[Actor(t)].type = "token" => Actor(t) = t.id)
  BY <1>2, <1>3, <1>4 DEF Actor
<1>6. ASSUME t.kind = "machine"
      PROVE  /\ t.scope[1] \in 1 .. Len(content) /\ content[t.scope[1]].type = "project"
             /\ content[t.scope[1]].slug = target[1]
             /\ t.scope[2] \in 1 .. Len(content) /\ content[t.scope[2]].type = "environment"
             /\ content[t.scope[2]].slug = target[2]
  <2>1. t.scope = scope /\ scope \in Resolve(target)
    BY <1>6 DEF Permitted, Authorised
  <2>2. PICK p \in state.projects, x \in state.environments :
          scope = <<p.id, x.id>> /\ p.slug = target[1] /\ x.slug = target[2]
    BY <2>1 DEF Resolve
  <2>3. /\ p.id \in 1 .. Len(content) /\ content[p.id].type = "project" /\ p = ProjectOf(content[p.id])
        /\ x.id \in 1 .. Len(content) /\ content[x.id].type = "environment"
        /\ x = EnvironmentOf(content[x.id])
    BY Known
  <2>4. content[p.id].slug = p.slug /\ content[x.id].slug = x.slug
    BY <2>3 DEF ProjectOf, EnvironmentOf
  <2>5. t.scope[1] = p.id /\ t.scope[2] = x.id
    BY <2>1, <2>2
  <2> QED BY <2>2, <2>3, <2>4, <2>5
<1> HIDE DEF a
<1>7. Confined(a, content, Len(content))
  BY <1>1, <1>3, <1>5, <1>6 DEF Confined
<1> QED BY <1>7 DEF a

LEMMA ReadOK ==
    ASSUME IInv, NEW t \in state.tokens, NEW target \in Targets, NEW action \in {"read", "list"},
           NEW scope \in Permitted(t, "read", target), NEW res \in {"ok", "missing"},
           Handle(action, <<Audited(Actor(t), action, target, res)>>, res), limit' = limit
    PROVE  IInv'
<1> DEFINE a == Audited(Actor(t), action, target, res)
<1>1. a \in Events /\ a.type = "audited"
  BY MemoryTypes, EventTypes DEF Audited
<1>2. Serving
  BY DEF Handle
<1>3. res = "ok" /\ ~broken => Confined(a, content, Len(content))
  BY <1>2, ReadConfined
<1> HIDE DEF a
<1>4. /\ <<a>> \in Seq(Events) /\ Len(<<a>>) = 1 /\ <<a>>[1] = a
      /\ \A i \in 1 .. Len(<<a>>) : <<a>>[i].type \in {"set", "deleted", "audited"}
  BY <1>1
<1>5. content \in Seq(Events) /\ res \in Answers
  BY DEF IInv, TypeOK, Answers
<1>6. \A k \in 1 .. Len(<<a>>) : FitsAt(content \o <<a>>, Len(content) + k)
  BY <1>4, <1>5, PlainFits
<1>7. Proper(action, <<a>>, res)
  BY <1>3, <1>4, <1>5, <1>6 DEF Proper
<1>8. Handle(action, <<a>>, res)
  BY DEF a
<1> QED BY <1>7, <1>8, HandleOK

LEMMA GetSecretOK ==
    ASSUME IInv, NEW t \in state.tokens, NEW target \in ProjectSlugs \X EnvironmentSlugs \X SecretKeys,
           GetSecret(t, target), limit' = limit
    PROVE  IInv'
<1>1. target \in Targets
  BY DEF Targets
<1>2. CASE Refused(t, "read", "read", target)
  BY <1>1, <1>2, RefusedOK
<1>3. ASSUME NEW scope \in Permitted(t, "read", target), NEW res \in {"ok", "missing"},
             Handle("read", <<Audited(Actor(t), "read", target, res)>>, res)
      PROVE  IInv'
  BY <1>1, <1>3, ReadOK
<1> QED BY <1>2, <1>3 DEF GetSecret

LEMMA ListSecretsOK ==
    ASSUME IInv, NEW t \in state.tokens, NEW p \in ProjectSlugs, NEW x \in EnvironmentSlugs,
           ListSecrets(t, p, x), limit' = limit
    PROVE  IInv'
<1> DEFINE target == <<p, x, "*">>
<1>1. target \in Targets
  BY DEF Targets
<1>2. \/ Refused(t, "list", "read", target)
      \/ /\ Permitted(t, "read", target) # {}
         /\ Handle("list", <<Audited(Actor(t), "list", target, "ok")>>, "ok")
  BY DEF ListSecrets
<1> HIDE DEF target
<1>3. CASE Refused(t, "list", "read", target)
  BY <1>1, <1>3, RefusedOK
<1>4. CASE /\ Permitted(t, "read", target) # {}
           /\ Handle("list", <<Audited(Actor(t), "list", target, "ok")>>, "ok")
  <2>1. PICK scope : scope \in Permitted(t, "read", target)
    BY <1>4
  <2> QED BY <1>1, <1>4, <2>1, ReadOK
<1> QED BY <1>2, <1>3, <1>4

\* The records of a bulk write: for each entry its value and its audit record.
LEMMA SetManyOK ==
    ASSUME IInv, NEW t \in state.tokens, NEW p \in ProjectSlugs, NEW x \in EnvironmentSlugs,
           NEW batch \in Batches, SetMany(t, p, x, batch), limit' = limit
    PROVE  IInv'
<1> DEFINE At(k) == batch[(k + 1) \div 2]
           Record(scope, k) ==
               IF k % 2 = 1 THEN SecretSet(SlotIn(scope, At(k)[1]), At(k)[2])
               ELSE Audited(Actor(t), "set", <<p, x, At(k)[1]>>, "ok")
           Records(scope) == [k \in 1 .. 2 * Len(batch) |-> Record(scope, k)]
<1>1. batch \in Seq(SecretKeys \X Values) /\ Len(batch) \in Nat
  BY VaultAssumption
<1>2. ASSUME NEW res \in Answers, Handle("bulk", <<>>, res) PROVE IInv'
  <2>1. <<>> \in Seq(Events) /\ \A i \in 1 .. Len(<<>>) : <<>>[i].type \in {"set", "deleted", "audited"}
    OBVIOUS
  <2>2. Proper("bulk", <<>>, res)
    BY <2>1, ProperPlain
  <2> QED BY <1>2, <2>2, HandleOK
<1>3. ASSUME NEW scope \in Resolve(<<p, x>>), Handle("bulk", Records(scope), "ok") PROVE IInv'
  <2>1. scope \in Nat \X Nat
    BY MemoryTypes
  <2>2. ASSUME NEW k \in 1 .. 2 * Len(batch)
        PROVE  /\ Record(scope, k) \in Events
               /\ Record(scope, k).type \in {"set", "deleted", "audited"}
    <3>1. (k + 1) \div 2 \in 1 .. Len(batch)
      BY <1>1
    <3>2. At(k) \in SecretKeys \X Values
      BY <1>1, <3>1
    <3> HIDE DEF At
    <3>3. At(k)[1] \in SecretKeys /\ At(k)[2] \in Values /\ <<p, x, At(k)[1]>> \in Targets
      BY <3>2 DEF Targets
    <3>4. /\ SecretSet(SlotIn(scope, At(k)[1]), At(k)[2]) \in Events
          /\ SecretSet(SlotIn(scope, At(k)[1]), At(k)[2]).type = "set"
      BY <2>1, <3>3, WriteTypes DEF SecretSet
    <3>5. /\ Audited(Actor(t), "set", <<p, x, At(k)[1]>>, "ok") \in Events
          /\ Audited(Actor(t), "set", <<p, x, At(k)[1]>>, "ok").type = "audited"
      BY <3>3, MemoryTypes, EventTypes DEF Audited
    <3> QED BY <3>4, <3>5
  <2> HIDE DEF Record
  <2> DEFINE events == Records(scope)
  <2>3. 2 * Len(batch) \in Nat
    BY <1>1
  <2>4. /\ events \in Seq(Events) /\ Len(events) = 2 * Len(batch)
        /\ \A k \in 1 .. Len(events) : events[k].type \in {"set", "deleted", "audited"}
    BY <2>2, <2>3
  <2> HIDE DEF events
  <2>5. Proper("bulk", events, "ok")
    BY <2>4, ProperPlain DEF Answers
  <2>6. Handle("bulk", events, "ok")
    BY <1>3 DEF events
  <2> QED BY <2>5, <2>6, HandleOK
<1>4. Unknown(t) \in Answers /\ "denied" \in Answers
  BY DEF Unknown, Answers
<1> QED BY <1>2, <1>3, <1>4 DEF SetMany

-----------------------------------------------------------------------------
(* Steps that are no request *)

\* Memory is dropped.
LEMMA SealedOK ==
    ASSUME IInv, Sealed, broken' \in BOOLEAN, pc' \in {"down", "up"},
           UNCHANGED <<content, sure, older, now, limit, dead, may, shown>>
    PROVE  IInv'
<1>1. state' \in States
  BY DEF Sealed, States, NoState
<1>2. TypeOK'
  BY <1>1 DEF IInv, TypeOK, Sealed, Answers
<1>3. MemoryOK'
  BY DEF MemoryOK, Sealed
<1> QED BY <1>2, <1>3, SameFile DEF IInv

LEMMA UnsealOK == ASSUME IInv, Unseal, limit' = limit PROVE IInv'
<1>1. UNCHANGED <<content, sure, older, dead, may, shown>>
  BY DEF Unseal, file, ghosts
<1>2. state' = Replay(content) /\ state' \in States
  BY ReplayReflects DEF IInv, TypeOK, Unseal, Reflects
<1>3. TypeOK'
  BY <1>1, <1>2 DEF IInv, TypeOK, Unseal, Answers
<1>4. MemoryOK'
  BY <1>1, <1>2 DEF IInv, MemoryOK, Unseal
<1> QED BY <1>1, <1>3, <1>4, SameFile DEF IInv

LEMMA TickOK == ASSUME IInv, Tick, limit' = limit PROVE IInv'
<1>1. UNCHANGED <<content, sure, older, dead, may, shown, pc, broken, unsealed, state, poisoned, ret>>
  BY DEF Tick, file, ghosts
<1>2. TypeOK'
  BY <1>1 DEF IInv, TypeOK, Tick
<1>3. MemoryOK'
  BY <1>1 DEF IInv, MemoryOK
<1> QED BY <1>1, <1>2, <1>3, SameFile DEF IInv

\* A file that is all sure, and of which the ghosts are true.
LEMMA SureStands ==
    ASSUME content' \in Seq(Events), sure' = Len(content'), Stands(content', may')
    PROVE  StandsOK'
<1>1. \A l \in sure' .. Len(content') : SubSeq(content', 1, l) = content'
  OBVIOUS
<1> QED BY <1>1 DEF StandsOK, PartsStand

LEMMA WholeStands == ASSUME IInv PROVE Stands(content, may)
<1>1. content \in Seq(Events) /\ sure \in 0 .. Len(content) /\ Len(content) \in Nat
  BY DEF IInv, TypeOK
<1>2. Len(content) \in sure .. Len(content) /\ SubSeq(content, 1, Len(content)) = content
  BY <1>1
<1> QED BY <1>2 DEF IInv, StandsOK, PartsStand

LEMMA OpenVaultOK == ASSUME IInv, OpenVault, limit' = limit PROVE IInv'
<1>1. UNCHANGED <<broken, unsealed, state, poisoned, now, ret, dead, may, shown, content, older>>
  BY DEF OpenVault, L!Settle, file, ghosts
<1>2. pc = "down" /\ pc' = "up" /\ ~unsealed /\ content \in Seq(Events)
  BY DEF IInv, MemoryOK, OpenVault, TypeOK
<1>3. MemoryOK'
  BY <1>1, <1>2 DEF MemoryOK
<1>4. CASE sure' = sure
  <2>1. TypeOK'
    BY <1>1, <1>2, <1>4 DEF IInv, TypeOK
  <2> QED BY <1>1, <1>3, <1>4, <2>1, SameFile DEF IInv
<1>5. CASE sure' = Len(content)
  <2>1. /\ sure \in 0 .. Len(content) /\ Len(content) \in Nat /\ sure' \in 0 .. Len(content)
    BY <1>2, <1>5 DEF IInv, TypeOK
  <2>2. TypeOK'
    BY <1>1, <1>2, <2>1 DEF IInv, TypeOK
  <2>3. Keeps
    BY <1>1, <1>5, <2>1 DEF Keeps
  <2>4. FilesOK'
    BY <1>1, <2>1 DEF IInv, FilesOK, FileOK
  <2>5. Stands(content', may')
    BY <1>1, WholeStands
  <2>6. StandsOK'
    BY <1>1, <1>2, <1>5, <2>5, SureStands
  <2> QED BY <1>1, <1>3, <2>2, <2>3, <2>4, <2>6, GhostsKept DEF IInv
<1> QED BY <1>4, <1>5 DEF OpenVault, L!Settle, file

LEMMA StoredStands ==
    ASSUME NEW c \in Seq(Events)
    PROVE  Stands(c, Stored(c)) /\ Stored(c) \subseteq Slots \X (Values \cup {Absent})
<1>1. Replay(c).secrets \subseteq [slot : Slots, value : Values]
  BY ReplayReflects DEF Reflects, States
<1>2. \A w \in Stored(c) : \E s \in Replay(c).secrets : s.slot = w[1]
  BY DEF Stored
<1>3. Stands(c, Stored(c))
  BY <1>2 DEF Stands, Stored
<1> QED BY <1>1, <1>3 DEF Stored

\* The live file with its ghosts is one that may come back.
LEMMA CurrentOK == ASSUME IInv PROVE OlderOK(Current) /\ Current \in Files
<1>1. /\ Current.content = content /\ Current.sure = sure /\ Current.dead = dead
      /\ Current.may = may /\ Current.shown = shown
  BY DEF Current
<1>2. OlderOK(Current)
  BY <1>1, Zenon DEF IInv, FilesOK, OlderOK, StandsOK, DeadOK, ShownOK, ConfinedOK
<1>3. Current \in Files
  BY DEF IInv, TypeOK, Current, Files
<1> QED BY <1>2, <1>3

LEMMA PowerLossOK == ASSUME IInv, PowerLoss, limit' = limit PROVE IInv'
<1>1. /\ pc' = "down" /\ broken' = FALSE /\ unsealed' = FALSE /\ state' = NoState
      /\ poisoned' = FALSE /\ ret' = "ok" /\ now' = now /\ older' = {}
  BY DEF PowerLoss, Gone, Sealed
<1>2. PICK o \in older \cup {Current} :
        /\ \E n \in o.sure .. Len(o.content) : content' = SubSeq(o.content, 1, n) /\ sure' = n
        /\ dead' = o.dead /\ may' = o.may /\ shown' = o.shown
  BY DEF PowerLoss, L!Left
<1>3. PICK n \in o.sure .. Len(o.content) : content' = SubSeq(o.content, 1, n) /\ sure' = n
  BY <1>2
<1>4. OlderOK(o) /\ o \in Files
  <2>1. CASE o \in older
    BY <2>1 DEF IInv, FilesOK, TypeOK
  <2>2. CASE o = Current
    BY <2>2, CurrentOK
  <2> QED BY <1>2, <2>1, <2>2
<1>5. /\ WellFormed(o.content) /\ o.content \in Seq(Events) /\ n \in 0 .. Len(o.content) /\ n \in Nat
      /\ o.sure \in Nat /\ o.sure <= n
  BY <1>4 DEF OlderOK, FileOK, WellFormed
<1>6. WellFormed(content')
  BY <1>3, <1>5, WellFormedPrefix
<1>7. content' \in Seq(Events) /\ Len(content') = n /\ \A i \in 1 .. n : content'[i] = o.content[i]
  BY <1>3, <1>5, Prefix
<1>8. sure' = n /\ sure' = Len(content') /\ sure' \in 0 .. Len(content')
  BY <1>3, <1>5, <1>7
<1>9. FilesOK'
  BY <1>1, <1>6, <1>8 DEF FilesOK, FileOK
<1>10. MemoryOK'
  BY <1>1 DEF MemoryOK
<1>11. NoState \in States
  BY DEF NoState, States
<1>12. \A i \in 1 .. o.sure : content'[i] = o.content[i]
  BY <1>5, <1>7
<1>13. StandsOK'
  <2>1. Stands(SubSeq(o.content, 1, n), o.may)
    BY <1>4 DEF OlderOK, PartsStand
  <2> QED BY <1>2, <1>3, <1>7, <1>8, <2>1, SureStands
<1>14. DeadOK'
  <2>1. DeadIn(content', n, o.dead)
    BY <1>4, <1>5, <1>12, DeadKept DEF OlderOK
  <2> QED BY <1>2, <1>8, <2>1 DEF DeadOK
<1>15. ShownOK'
  <2>1. ShownIn(content', n, o.shown)
    BY <1>4, <1>5, <1>12, ShownKept DEF OlderOK
  <2> QED BY <1>2, <1>8, <2>1 DEF ShownOK
<1>16. ConfinedOK'
  <2>1. ConfinedIn(content', n, o.shown)
    BY <1>4, <1>5, <1>12, ConfinedKept DEF OlderOK
  <2> QED BY <1>2, <1>8, <2>1 DEF ConfinedOK
<1>17. TypeOK'
  <2>1. /\ dead' \subseteq Nat /\ may' \subseteq Slots \X (Values \cup {Absent})
        /\ shown' \in Seq(Events)
    BY <1>2, <1>4 DEF Files
  <2> QED BY <1>1, <1>7, <1>8, <1>11, <2>1 DEF IInv, TypeOK, Answers
<1> QED BY <1>9, <1>10, <1>13, <1>14, <1>15, <1>16, <1>17 DEF IInv

\* The file's whole history is carried over, so nothing the ghosts say is lost; memory
\* is the new file folded, whatever it was.
LEMMA RekeyOK == ASSUME IInv, NEW t \in state.tokens, Rekey(t), limit' = limit PROVE IInv'
<1>1. /\ Serving /\ UNCHANGED <<pc, unsealed, poisoned, now, dead, may, shown>>
  BY DEF Rekey, ghosts
<1>2. CASE ret' = "error" /\ UNCHANGED <<file, state, broken>>
  <2>1. UNCHANGED <<content, sure, older>>
    BY <1>2 DEF file
  <2>2. TypeOK'
    BY <1>1, <1>2, <2>1 DEF IInv, TypeOK, Answers
  <2>3. MemoryOK'
    BY <1>1, <1>2, <2>1 DEF IInv, MemoryOK
  <2> QED BY <1>1, <2>1, <2>2, <2>3, SameFile DEF IInv
<1>3. CASE /\ content' = Append(content, Audited(Actor(t), "rekey", <<>>, "ok"))
           /\ sure' = Len(content')
           /\ older' \in {{}, older \cup {Current}}
           /\ state' = Replay(content')
           /\ broken' = FALSE
           /\ ret' = "ok"
  <2> DEFINE e == Audited(Actor(t), "rekey", <<>>, "ok")
             events == <<e>>
  <2>1. e \in Events /\ e.type = "audited"
    <3>1. Actor(t) \in Nat
      BY MemoryTypes
    <3> QED BY <3>1, EventTypes DEF Audited
  <2>2. content' = Append(content, e)
    BY <1>3
  <2> HIDE DEF e
  <2>3. /\ content \in Seq(Events) /\ sure \in 0 .. Len(content) /\ Len(content) \in Nat
        /\ older \subseteq Files
    BY DEF IInv, TypeOK
  <2>4. /\ events \in Seq(Events) /\ Len(events) = 1 /\ events[1] = e
        /\ \A i \in 1 .. Len(events) : events[i].type \in {"set", "deleted", "audited"}
    BY <2>1
  <2>5. Joined(content, events, Len(events), content')
    BY <2>1, <2>2, <2>3, <2>4 DEF Joined, Grown
  <2> HIDE DEF events
  <2>6. sure' \in sure .. Len(content')
    BY <1>3, <2>3, <2>5 DEF Joined, Grown
  <2>7. Keeps /\ content' \in Seq(Events) /\ Len(content') \in Nat /\ sure' \in 0 .. Len(content')
    BY <2>5, <2>6, JoinedKeeps
  <2>8. WellFormed(content')
    <3>1. \A i \in 1 .. Len(events) : FitsAt(content \o events, Len(content) + i)
      BY <2>3, <2>4, PlainFits
    <3> QED BY <2>4, <2>5, <3>1, JoinedWellFormed
  <2>9. FilesOK' /\ older' \subseteq Files
    <3>1. FileOK(content', sure')
      BY <2>7, <2>8 DEF FileOK
    <3>2. \A q \in older' : q \in older \/ q = Current
      BY <1>3
    <3>3. OlderOK(Current) /\ Current \in Files
      BY CurrentOK
    <3>4. \A q \in older' : OlderOK(q)
      BY <3>2, <3>3 DEF IInv, FilesOK
    <3>5. older' \subseteq Files
      BY <2>3, <3>2, <3>3
    <3> QED BY <3>1, <3>4, <3>5 DEF FilesOK
  <2>10. StandsOK'
    <3> DEFINE all == {x \in may : \A w \in Writes(events) : w[1] # x[1]} \cup Writes(events)
    <3>1. Writes(events) = {}
      <4>1. \A i \in 1 .. Len(events) : ~IsWrite(events[i])
        BY <2>1, <2>4 DEF IsWrite
      <4> QED BY <2>4, <4>1, WritesAre
    <3>2. all = may /\ may' = may
      BY <1>1, <3>1
    <3>3. Stands(content, may)
      BY WholeStands
    <3>4. Stands(content', all)
      BY <2>5, <3>3, StandsCommitted
    <3> HIDE DEF all
    <3>5. Stands(content', may')
      BY <3>2, <3>4
    <3> QED BY <1>3, <2>7, <3>5, SureStands
  <2>11. state' \in States
    BY <1>3, <2>7, ReplayReflects DEF Reflects
  <2>12. TypeOK'
    BY <1>1, <1>3, <2>7, <2>9, <2>11 DEF IInv, TypeOK, Answers, Serving
  <2>13. MemoryOK'
    BY <1>1, <1>3 DEF IInv, MemoryOK, Serving
  <2> QED BY <1>1, <2>7, <2>9, <2>10, <2>12, <2>13, GhostsKept DEF IInv
<1> QED BY <1>2, <1>3 DEF Rekey

-----------------------------------------------------------------------------
(* The induction *)

LEMMA InitOK == Init => IInv
<1> SUFFICES ASSUME Init PROVE IInv
  OBVIOUS
<1>1. PICK h \in Histories : content = h.records /\ limit = Len(h.records) + h.room
  BY DEF Init
<1>2. WellFormed(content) /\ content \in Seq(Events) /\ Len(content) \in Nat /\ limit \in Nat
  BY <1>1, HistoriesAssumption DEF WellFormed
<1>3. sure = Len(content) /\ sure \in 0 .. Len(content) /\ older = {}
  BY <1>2 DEF Init
<1>4. Stands(content, may) /\ may \subseteq Slots \X (Values \cup {Absent})
  BY <1>2, StoredStands DEF Init
<1>5. NoState \in States /\ <<>> \in Seq(Events)
  BY DEF NoState, States
<1>6. 0 \in 0 .. MaxNow
  BY VaultAssumption
<1>7. TypeOK
  BY <1>2, <1>3, <1>4, <1>5, <1>6 DEF Init, TypeOK, Answers
<1>8. FilesOK
  BY <1>2, <1>3 DEF FilesOK, FileOK
<1>9. MemoryOK
  BY DEF Init, MemoryOK
<1>10. StandsOK
  <2>1. \A l \in sure .. Len(content) : SubSeq(content, 1, l) = content
    BY <1>2, <1>3
  <2> QED BY <1>4, <2>1 DEF StandsOK, PartsStand
<1>11. DeadOK /\ ConfinedOK
  BY DEF Init, DeadOK, DeadIn, ConfinedOK, ConfinedIn
<1>12. ShownOK
  <2>1. Len(shown) = 0 /\ 1 .. Len(shown) = {}
    BY DEF Init
  <2>2. [i \in {} |-> 1] \in [{} -> 1 .. sure]
    OBVIOUS
  <2>3. PICK f : f \in [1 .. Len(shown) -> 1 .. sure]
    BY <2>1, <2>2
  <2>4. Recorded(content, sure, shown, f)
    BY <2>1, <2>3 DEF Recorded
  <2> QED BY <2>3, <2>4 DEF ShownOK, ShownIn
<1> QED BY <1>7, <1>8, <1>9, <1>10, <1>11, <1>12 DEF IInv

LEMMA CallOK ==
    ASSUME IInv, NEW t \in state.tokens, Call(t), limit' = limit
    PROVE  IInv'
<1>1. ASSUME NEW email \in Emails, CreateUser(t, email) PROVE IInv'
  BY <1>1, CreateUserOK
<1>2. ASSUME NEW p \in ProjectSlugs, CreateProject(t, p) PROVE IInv'
  BY <1>2, CreateProjectOK
<1>3. ASSUME NEW id \in Tokens(state), RevokeToken(t, id) PROVE IInv'
  BY <1>3, RevokeOK
<1>4. CASE SealAs(t)
  <2>1. Sealed /\ UNCHANGED <<content, sure, older, pc, broken, now, dead, may, shown>>
    BY <1>4 DEF SealAs, file, ghosts
  <2>2. broken' \in BOOLEAN /\ pc' \in {"down", "up"}
    BY <2>1 DEF IInv, TypeOK
  <2> QED BY <2>1, <2>2, SealedOK
<1>5. CASE Rekey(t)
  BY <1>5, RekeyOK
<1>6. ASSUME NEW p \in ProjectSlugs, NEW x \in EnvironmentSlugs,
             \/ CreateEnvironment(t, p, x)
             \/ \E ttl \in Lifetimes : IssueMachineToken(t, p, x, ttl)
             \/ ListSecrets(t, p, x)
             \/ \E batch \in Batches : SetMany(t, p, x, batch)
      PROVE  IInv'
  BY <1>6, CreateEnvironmentOK, IssueOK, ListSecretsOK, SetManyOK
<1>7. ASSUME NEW p \in ProjectSlugs, NEW x \in EnvironmentSlugs, NEW k \in SecretKeys,
             \/ GetSecret(t, <<p, x, k>>)
             \/ DeleteSecret(t, <<p, x, k>>)
             \/ \E v \in Values : SetSecret(t, <<p, x, k>>, v)
      PROVE  IInv'
  <2>1. <<p, x, k>> \in ProjectSlugs \X EnvironmentSlugs \X SecretKeys
    OBVIOUS
  <2> QED BY <1>7, <2>1, GetSecretOK, DeleteSecretOK, SetSecretOK
<1> QED BY <1>1, <1>2, <1>3, <1>4, <1>5, <1>6, <1>7 DEF Call

LEMMA NextOK == IInv /\ [Next]_vars => IInv'
<1> SUFFICES ASSUME IInv, [Next]_vars PROVE IInv'
  OBVIOUS
<1>1. ASSUME limit' = limit, NEW t \in state.tokens, Call(t) PROVE IInv'
  BY <1>1, CallOK
<1>2. ASSUME limit' = limit, NEW email \in Emails, NEW ttl \in Lifetimes, Login(email, ttl) PROVE IInv'
  BY <1>2, LoginOK
<1>3. CASE limit' = limit /\ OpenVault
  BY <1>3, OpenVaultOK
<1>4. CASE limit' = limit /\ Unseal
  BY <1>4, UnsealOK
<1>5. CASE limit' = limit /\ Recover
  <2>1. Sealed /\ UNCHANGED <<content, sure, older, pc, broken, now, dead, may, shown>>
    BY <1>5 DEF Recover, file, ghosts
  <2>2. broken' \in BOOLEAN /\ pc' \in {"down", "up"}
    BY <2>1 DEF IInv, TypeOK
  <2> QED BY <1>5, <2>1, <2>2, SealedOK
<1>6. CASE limit' = limit /\ Kill
  <2>1. /\ Sealed /\ UNCHANGED <<content, sure, older, now, dead, may, shown>>
        /\ broken' \in BOOLEAN /\ pc' \in {"down", "up"}
    BY <1>6 DEF Kill, Gone, file, ghosts
  <2> QED BY <1>6, <2>1, SealedOK
<1>7. CASE limit' = limit /\ PowerLoss
  BY <1>7, PowerLossOK
<1>8. CASE limit' = limit /\ Tick
  BY <1>8, TickOK
<1>9. CASE UNCHANGED vars
  <2>1. UNCHANGED <<content, sure, older, dead, may, shown, pc, broken, unsealed, state, poisoned,
                    now, limit, ret>>
    BY <1>9 DEF vars
  <2>2. TypeOK'
    BY <2>1 DEF IInv, TypeOK
  <2>3. MemoryOK'
    BY <2>1 DEF IInv, MemoryOK
  <2> QED BY <2>1, <2>2, <2>3, SameFile DEF IInv
<1> QED BY <1>1, <1>2, <1>3, <1>4, <1>5, <1>6, <1>7, <1>8, <1>9 DEF Next

\* The invariant of the data plane, for any names, values, batches and histories:
\* every handler of vault.rs, however it ends, every seal, unseal, rekey, panic,
\* restart and loss of power keeps it.
THEOREM Invariance == Spec => []IInv
<1> QED BY InitOK, NextOK, PTL DEF Spec

-----------------------------------------------------------------------------
(* What follows *)

\* Every variable keeps its type, and a sealed vault holds nothing.
THEOREM TypeCorrect == Spec => []TypeOK
<1>1. IInv => TypeOK
  BY DEF IInv
<1> QED BY <1>1, Invariance, PTL

\* What requests are answered from is the file folded from nothing, up to one record
\* whose write was reported as failed.
THEOREM AlwaysMemoryIsReplay == Spec => []MemoryIsReplay
<1>1. IInv => MemoryIsReplay
  BY DEF IInv, MemoryOK, TypeOK, MemoryIsReplay, Serving
<1> QED BY <1>1, Invariance, PTL

\* The part of the file that memory is: it holds all that is sure.
LEMMA InMemory ==
    ASSUME IInv, Serving
    PROVE  \E n \in sure .. Len(content) : state = Replay(SubSeq(content, 1, n))
<1>1. content \in Seq(Events) /\ sure \in 0 .. Len(content) /\ Len(content) \in Nat
  BY DEF IInv, TypeOK
<1>2. CASE state = Replay(content)
  <2>1. SubSeq(content, 1, Len(content)) = content /\ Len(content) \in sure .. Len(content)
    BY <1>1
  <2> QED BY <1>2, <2>1
<1>3. CASE sure < Len(content) /\ state = Replay(SubSeq(content, 1, Len(content) - 1))
  <2>1. Len(content) - 1 \in sure .. Len(content)
    BY <1>1, <1>3
  <2> QED BY <1>3, <2>1
<1> QED BY <1>2, <1>3 DEF IInv, MemoryOK, Serving

\* A slot holds what the last acknowledged write left, or a failed one after it.
THEOREM AlwaysAcknowledgedStands == Spec => []AcknowledgedStands
<1>1. ASSUME IInv PROVE AcknowledgedStands
  <2> SUFFICES ASSUME Serving
               PROVE  /\ \A s \in state.secrets : <<s.slot, s.value>> \in may
                      /\ \A m \in may : SecretAt(m[1]) # {} \/ <<m[1], Absent>> \in may
    BY DEF AcknowledgedStands
  <2>1. PICK n \in sure .. Len(content) : state = Replay(SubSeq(content, 1, n))
    BY <1>1, InMemory
  <2>2. Stands(SubSeq(content, 1, n), may)
    BY <1>1 DEF IInv, StandsOK, PartsStand
  <2>3. /\ \A s \in state.secrets : <<s.slot, s.value>> \in may
        /\ \A w \in may : (\E s \in state.secrets : s.slot = w[1]) \/ <<w[1], Absent>> \in may
    BY <2>1, <2>2 DEF Stands
  <2> QED BY <2>3 DEF SecretAt
<1> QED BY <1>1, Invariance, PTL

\* A token whose end was acknowledged is usable never again.
THEOREM AlwaysDeadStayDead == Spec => []DeadStayDead
<1>1. ASSUME IInv PROVE DeadStayDead
  <2> SUFFICES ASSUME Serving, NEW t \in state.tokens, t.id \in dead PROVE ~Usable(t)
    BY DEF DeadStayDead
  <2>1. PICK n \in sure .. Len(content) : state = Replay(SubSeq(content, 1, n))
    BY <1>1, InMemory
  <2> DEFINE c == SubSeq(content, 1, n)
  <2>2. /\ content \in Seq(Events) /\ sure \in Nat /\ n \in Nat /\ n \in 0 .. Len(content) /\ sure <= n
    BY <1>1 DEF IInv, TypeOK
  <2>3. c \in Seq(Events) /\ Len(c) = n /\ \A i \in 1 .. n : c[i] = content[i]
    BY <2>2, Prefix
  <2>4. WellFormed(c)
    BY <1>1, <2>2, WellFormedPrefix DEF IInv, FilesOK, FileOK
  <2>5. state = Replay(c)
    BY <2>1
  <2> HIDE DEF c
  <2>6. /\ t.id \in 1 .. n /\ c[t.id].type = "token" /\ t = TokenOf(c[t.id], RevokedIn(c, t.id))
    BY <2>3, <2>4, <2>5, TokenIsRecord
  <2>7. PICK i \in 1 .. sure : EndedBy(content, sure, t.id, i)
    BY <1>1 DEF IInv, DeadOK, DeadIn
  <2>8. i \in 1 .. n /\ c[i] = content[i] /\ c[t.id] = content[t.id]
    BY <2>2, <2>3, <2>6
  <2>9. CASE content[i].type = "revoked" /\ content[i].id = t.id
    <3>1. FitsAt(c, i) /\ FitsAt(c, t.id)
      BY <2>3, <2>4, <2>6, <2>8 DEF WellFormed
    <3>2. t.id \in 1 .. i - 1 /\ c[t.id].id = t.id
      BY <2>6, <2>8, <2>9, <3>1 DEF FitsAt
    <3>3. i \in t.id + 1 .. Len(c)
      BY <2>3, <2>6, <2>8, <3>2
    <3>4. RevokedIn(c, t.id)
      BY <2>8, <2>9, <3>2, <3>3 DEF RevokedIn
    <3>5. t.revoked
      BY <2>6, <3>4 DEF TokenOf
    <3> QED BY <3>5 DEF Usable
  <2>10. CASE content[i].type = "user" /\ content[t.id].kind = "root"
    <3>1. UsersAre(state.users, c)
      BY <2>3, <2>5, ReplayReflects DEF Reflects
    <3>2. UserOf(c[i]) \in state.users
      BY <2>3, <2>8, <2>10, <3>1 DEF UsersAre
    <3>3. t.kind = "root"
      BY <2>6, <2>8, <2>10 DEF TokenOf
    <3> QED BY <3>2, <3>3 DEF Usable
  <2> QED BY <2>7, <2>9, <2>10 DEF EndedBy
<1> QED BY <1>1, Invariance, PTL

\* Nothing is handed out that the medium does not record, once for each time.
THEOREM AlwaysRevealedIsRecorded == Spec => []RevealedIsRecorded
<1>1. ASSUME IInv PROVE RevealedIsRecorded
  <2> DEFINE c == SubSeq(content, 1, sure)
             S(a) == {i \in 1 .. Len(shown) : shown[i] = a}
             T(a) == {i \in 1 .. Len(c) : c[i] = a}
  <2>1. /\ content \in Seq(Events) /\ sure \in 0 .. Len(content) /\ sure \in Nat
    BY <1>1 DEF IInv, TypeOK
  <2>2. Len(c) = sure /\ \A i \in 1 .. sure : c[i] = content[i]
    BY <2>1, Prefix
  <2> HIDE DEF c
  <2>3. PICK f \in [1 .. Len(shown) -> 1 .. sure] : Recorded(content, sure, shown, f)
    BY <1>1 DEF IInv, ShownOK, ShownIn
  <2>4. ASSUME NEW a PROVE Cardinality(S(a)) <= Cardinality(T(a))
    <3> DEFINE g == [i \in S(a) |-> f[i]]
    <3>1. IsFiniteSet(T(a))
      <4>1. IsFiniteSet(1 .. Len(c))
        <5>1. 1 \in Int /\ Len(c) \in Int
          BY <2>1, <2>2
        <5> QED BY <5>1, FS_Interval, Zenon
      <4>2. T(a) \in SUBSET (1 .. Len(c))
        OBVIOUS
      <4> QED BY <4>1, <4>2, FS_Subset
    <3>2. ASSUME NEW i \in S(a) PROVE f[i] \in T(a)
      <4>1. i \in 1 .. Len(shown) /\ shown[i] = a
        OBVIOUS
      <4>2. f[i] \in 1 .. sure
        BY <2>3, <4>1, Zenon
      <4>3. content[f[i]] = a
        BY <2>3, <4>1 DEF Recorded
      <4> QED BY <2>2, <4>2, <4>3
    <3>3. \A i, j \in S(a) : f[i] = f[j] => i = j
      BY <2>3 DEF Recorded
    <3> HIDE DEF S, T
    <3>4. g \in [S(a) -> T(a)] /\ \A i, j \in S(a) : g[i] = g[j] => i = j
      BY <3>2, <3>3
    <3>5. g \in Injection(S(a), T(a))
      BY <3>4, Fun_IsInj
    <3> QED BY <3>1, <3>5, FS_Injection
  <2> QED BY <2>4 DEF RevealedIsRecorded, c
<1> QED BY <1>1, Invariance, PTL

\* A machine token is shown nothing outside its environment.
THEOREM AlwaysConfinedReads == Spec => []ConfinedReads
<1>1. ASSUME IInv PROVE ConfinedReads
  <2> DEFINE st == Replay(content)
  <2>1. WellFormed(content) /\ content \in Seq(Events) /\ sure \in 0 .. Len(content)
        /\ shown \in Seq(Events)
    BY <1>1 DEF IInv, TypeOK, FilesOK, FileOK
  <2>2. ProjectsAre(st.projects, content) /\ EnvironmentsAre(st.environments, content)
    BY <2>1, ReplayReflects DEF Reflects
  <2>3. ASSUME NEW i \in 1 .. Len(shown), NEW t \in st.tokens,
               shown[i].actor = t.id, t.kind = "machine"
        PROVE  /\ \E p \in st.projects : p.id = t.scope[1] /\ p.slug = shown[i].target[1]
               /\ \E x \in st.environments : x.id = t.scope[2] /\ x.slug = shown[i].target[2]
    <3> DEFINE e == content[t.id]
               p == content[t.scope[1]]
               x == content[t.scope[2]]
               a == shown[i]
    <3>1. e.type = "token" /\ t = TokenOf(e, RevokedIn(content, t.id))
      BY <2>1, TokenIsRecord
    <3>2. e.kind = "machine" /\ e.scope = t.scope
      BY <2>3, <3>1 DEF TokenOf
    <3>3. Confined(a, content, sure)
      BY <1>1 DEF IInv, ConfinedOK, ConfinedIn
    <3>4. /\ t.scope[1] \in 1 .. sure /\ p.type = "project" /\ p.slug = a.target[1]
          /\ t.scope[2] \in 1 .. sure /\ x.type = "environment" /\ x.slug = a.target[2]
      BY <2>3, <3>1, <3>2, <3>3 DEF Confined
    <3>5. t.scope[1] \in 1 .. Len(content) /\ t.scope[2] \in 1 .. Len(content)
      BY <2>1, <3>4
    <3>6. p.id = t.scope[1] /\ x.id = t.scope[2]
      BY <2>1, <3>4, <3>5 DEF WellFormed, FitsAt
    <3>7. ProjectOf(p) \in st.projects /\ EnvironmentOf(x) \in st.environments
      BY <2>2, <3>4, <3>5 DEF ProjectsAre, EnvironmentsAre
    <3>8. /\ ProjectOf(p).id = p.id /\ ProjectOf(p).slug = p.slug
          /\ EnvironmentOf(x).id = x.id /\ EnvironmentOf(x).slug = x.slug
      BY DEF ProjectOf, EnvironmentOf
    <3> QED BY <3>4, <3>6, <3>7, <3>8
  <2>4. \A a \in Range(shown) : \E i \in 1 .. Len(shown) : a = shown[i]
    BY <2>1 DEF Range
  <2> QED BY <2>3, <2>4 DEF ConfinedReads
<1> QED BY <1>1, Invariance, PTL

\* No two things of a kind in the file answer to one name.
THEOREM AlwaysUniqueNames == Spec => []UniqueNames
<1>1. ASSUME IInv PROVE UniqueNames
  <2> DEFINE st == Replay(content)
             n == Len(content)
  <2>1. WellFormed(content) /\ content \in Seq(Events) /\ n \in Nat
    BY <1>1 DEF IInv, TypeOK, FilesOK, FileOK
  <2>2. Reflects(st, content)
    BY <2>1, ReplayReflects
  <2>3. ASSUME NEW i \in 1 .. n, NEW j \in 1 .. n, content[i].type = content[j].type, i < j
        PROVE  /\ content[i].type = "user" => content[i].email # content[j].email
               /\ content[i].type = "project" => content[i].slug # content[j].slug
               /\ content[i].type = "environment" =>
                     content[i].project # content[j].project \/ content[i].slug # content[j].slug
    <3>1. FitsAt(content, j) /\ i \in 1 .. j - 1
      BY <2>1, <2>3 DEF WellFormed
    <3> QED BY <2>3, <3>1 DEF FitsAt
  <2>4. \A i, j \in 1 .. n : i = j \/ i < j \/ j < i
    BY <2>1
  <2> HIDE DEF n
  <2>5. ASSUME NEW p \in st.projects, NEW q \in st.projects, p.slug = q.slug PROVE p = q
    <3>1. PICK i \in 1 .. n : content[i].type = "project" /\ p = ProjectOf(content[i])
      BY <2>2 DEF Reflects, ProjectsAre, n
    <3>2. PICK j \in 1 .. n : content[j].type = "project" /\ q = ProjectOf(content[j])
      BY <2>2 DEF Reflects, ProjectsAre, n
    <3>3. content[i].slug = content[j].slug
      BY <2>5, <3>1, <3>2 DEF ProjectOf
    <3>4. i = j
      BY <2>3, <2>4, <3>1, <3>2, <3>3
    <3> QED BY <3>1, <3>2, <3>4
  <2>6. ASSUME NEW x \in st.environments, NEW y \in st.environments,
               x.project = y.project, x.slug = y.slug
        PROVE  x = y
    <3>1. PICK i \in 1 .. n : content[i].type = "environment" /\ x = EnvironmentOf(content[i])
      BY <2>2 DEF Reflects, EnvironmentsAre, n
    <3>2. PICK j \in 1 .. n : content[j].type = "environment" /\ y = EnvironmentOf(content[j])
      BY <2>2 DEF Reflects, EnvironmentsAre, n
    <3>3. content[i].project = content[j].project /\ content[i].slug = content[j].slug
      BY <2>6, <3>1, <3>2 DEF EnvironmentOf
    <3>4. i = j
      BY <2>3, <2>4, <3>1, <3>2, <3>3
    <3> QED BY <3>1, <3>2, <3>4
  <2>7. ASSUME NEW u \in st.users, NEW v \in st.users, u.email = v.email PROVE u = v
    <3>1. PICK i \in 1 .. n : content[i].type = "user" /\ u = UserOf(content[i])
      BY <2>2 DEF Reflects, UsersAre, n
    <3>2. PICK j \in 1 .. n : content[j].type = "user" /\ v = UserOf(content[j])
      BY <2>2 DEF Reflects, UsersAre, n
    <3>3. content[i].email = content[j].email
      BY <2>7, <3>1, <3>2 DEF UserOf
    <3>4. i = j
      BY <2>3, <2>4, <3>1, <3>2, <3>3
    <3> QED BY <3>1, <3>2, <3>4
  <2>8. ASSUME NEW t \in st.tokens, NEW u \in st.tokens, t.id = u.id PROVE t = u
    <3>1. /\ t = TokenOf(content[t.id], RevokedIn(content, t.id))
          /\ u = TokenOf(content[u.id], RevokedIn(content, u.id))
      BY <2>1, TokenIsRecord
    <3> QED BY <2>8, <3>1, Zenon
  <2> QED BY <2>5, <2>6, <2>7, <2>8 DEF UniqueNames
<1> QED BY <1>1, Invariance, PTL
=============================================================================
