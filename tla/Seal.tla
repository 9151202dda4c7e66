-------------------------------- MODULE Seal --------------------------------
(***************************************************************************)
(* The key hierarchy of ls-server (vault.rs, barrier.rs): init, the unseal  *)
(* ceremony, seal and rekey, over the durable log.                          *)
(*                                                                         *)
(* Every init and every rekey draws a master key and a root key together;   *)
(* the pair is a generation, a positive number.  The barrier record holds   *)
(* the root key wrapped by the master key, so it names its generation and   *)
(* opens only with shares of that generation.  Sealed records name the      *)
(* generation they are sealed under, and a project record also the one its  *)
(* data key is wrapped by.  What the other records say is left to Vault.    *)
(***************************************************************************)
EXTENDS Integers, Sequences, FiniteSets

CONSTANTS
    Splits,      \* the <<threshold, shares>> an operator asks for
    MaxGen,      \* bound: generations of keys
    MaxRecords,  \* bound: records in the file
    Junk         \* well-formed shares that belong to no generation of this vault

ASSUME SealAssumption ==
    /\ Splits \subseteq {s \in (1 .. 255) \X (1 .. 255) : s[1] <= s[2]}
    /\ MaxGen \in Nat
    /\ MaxRecords \in Nat
    /\ Junk \subseteq [gen : {0}, index : 1 .. 255]

VARIABLES
    content, sure, older,  \* the store file: see DurableLog
    pc,        \* "down", "up", or "renamed": inside rekey, compact() has renamed
    broken,    \* Log.broken
    barrier,   \* Vault.barrier: generation and threshold, or None
    rootKey,   \* Vault.root_key: a generation, or 0 when sealed
    projects,  \* Vault.state, of it the generations wrapping the project data keys
    pending,   \* Vault.pending_shares
    gens,      \* generations drawn so far
    asked,     \* the split a rekey in progress was asked for
    settled,   \* ghost: the last generation whose rewrite was flushed with its directory
    handed,    \* ghost: <<generation, split>> of the share sets that reached the operator
    offered    \* ghost: shares offered since the vault last came up, was sealed or reset

file == <<content, sure, older>>
memory == <<barrier, rootKey, projects, pending>>
vars == <<content, sure, older, pc, broken, barrier, rootKey, projects, pending,
          gens, asked, settled, handed, offered>>

L == INSTANCE DurableLog

-----------------------------------------------------------------------------
None == [gen |-> 0, threshold |-> 0]
BarrierRecord(g, split) == [type |-> "barrier", gen |-> g, threshold |-> split[1]]
EventRecord(g) == [type |-> "event", gen |-> g, wrap |-> 0]
ProjectRecord(g, w) == [type |-> "project", gen |-> g, wrap |-> w]

\* One share: its generation and its index.
Shares == UNION {[gen : {h[1]}, index : 1 .. h[2][2]] : h \in handed}

\* The records of these types, in the order of the file: the n-th of them is the
\* one with n of them up to it.
Only(records, types) ==
    LET keep == {i \in 1 .. Len(records) : records[i].type \in types}
        nth(n) == CHOOSE i \in keep : Cardinality({j \in keep : j <= i}) = n
    IN [n \in 1 .. Cardinality(keep) |-> records[nth(n)]]

\* The project records, in order, as replay and rekey fold them.
Wraps(records) ==
    LET ps == Only(records, {"project"})
    IN [i \in 1 .. Len(ps) |-> ps[i].wrap]

\* read_records under a key: fails on the first record sealed under another.
ReadsUnder(records, g) ==
    \A i \in 1 .. Len(records) : records[i].type # "barrier" => records[i].gen = g

TypeOK ==
    /\ content \in Seq([type : {"barrier"}, gen : 1 .. MaxGen, threshold : Nat]
                       \cup [type : {"event", "project"}, gen : 1 .. MaxGen, wrap : 0 .. MaxGen])
    /\ sure \in 0 .. Len(content)
    /\ pc \in {"down", "up", "renamed"}
    /\ broken \in BOOLEAN
    /\ barrier \in [gen : 0 .. MaxGen, threshold : Nat]
    /\ rootKey \in 0 .. MaxGen
    /\ projects \in Seq(1 .. MaxGen)
    /\ gens \in 0 .. MaxGen
    /\ settled \in 0 .. MaxGen
    /\ asked \in Splits \cup {<<0, 0>>}
    /\ \A s \in pending : s.gen \in 0 .. MaxGen /\ s.index \in 1 .. 255
    /\ pending \subseteq offered

Init ==
    /\ L!Init
    /\ pc = "down" /\ broken = FALSE
    /\ barrier = None /\ rootKey = 0 /\ projects = <<>> /\ pending = {}
    /\ gens = 0 /\ asked = <<0, 0>> /\ settled = 0 /\ handed = {} /\ offered = {}

-----------------------------------------------------------------------------
(* Vault::open: the last plain record is the barrier, and records without one  *)
(* are refused; the vault comes up sealed.  A repaired file has been flushed.  *)
OpenVault ==
    /\ pc = "down"
    /\ LET plain == Only(content, {"barrier"}) IN
       /\ plain = <<>> => content = <<>>
       /\ barrier' = IF plain = <<>> THEN None
                     ELSE [gen |-> plain[Len(plain)].gen, threshold |-> plain[Len(plain)].threshold]
    /\ pc' = "up"
    /\ broken' = FALSE
    /\ rootKey' = 0 /\ projects' = <<>> /\ pending' = {}
    /\ offered' = {}
    /\ UNCHANGED file \/ L!Settle
    /\ UNCHANGED <<gens, asked, settled, handed>>

\* Log::append that fails: a broken log refuses, a write may leave its record.
FailAppend(r) ==
    /\ broken' = TRUE
    /\ \/ UNCHANGED file
       \/ ~broken /\ L!AppendUnsure(r)

\* The response carrying the shares is written with its result ignored.
HandOver(g, split) == handed' \in {handed, handed \cup {<<g, split>>}}

InitVault(split) ==
    /\ pc = "up"
    /\ barrier = None
    /\ gens < MaxGen
    /\ Len(content) + 2 <= MaxRecords
    /\ gens' = gens + 1
    /\ LET g == gens + 1
           keyed == /\ barrier' = [gen |-> g, threshold |-> split[1]]
                    /\ rootKey' = g
                    /\ UNCHANGED <<projects, pending>>
       IN \* the barrier does not get written
          \/ FailAppend(BarrierRecord(g, split)) /\ UNCHANGED <<memory, handed>>
          \* the barrier is written, the root token is not: InitIncomplete
          \/ /\ ~broken
             /\ broken' = TRUE
             /\ keyed
             /\ UNCHANGED <<older, handed>>
             /\ sure' = Len(content) + 1
             /\ content' \in {content \o <<BarrierRecord(g, split)>>,
                              content \o <<BarrierRecord(g, split), EventRecord(g)>>}
          \/ /\ ~broken
             /\ UNCHANGED <<broken, older>>
             /\ keyed
             /\ content' = content \o <<BarrierRecord(g, split), EventRecord(g)>>
             /\ sure' = Len(content')
             /\ HandOver(g, split)
    /\ UNCHANGED <<pc, asked, settled, offered>>

-----------------------------------------------------------------------------
(* The unseal ceremony *)

\* shamir::combine and the unwrapping of the root key: shares with different
\* indices, all of the generation the barrier holds, and enough of them.
Combines(shares) ==
    /\ \A s, t \in shares : s # t => s.index # t.index
    /\ \A s \in shares : s.gen = barrier.gen
    /\ Cardinality(shares) >= barrier.threshold

TryUnseal(shares) ==
    \/ /\ Combines(shares)
       /\ ReadsUnder(content, barrier.gen)
       /\ rootKey' = barrier.gen
       /\ projects' = Wraps(content)
       /\ pending' = {}
    \/ /\ ~(Combines(shares) /\ ReadsUnder(content, barrier.gen))
       /\ pending' = {}
       /\ UNCHANGED <<rootKey, projects>>

\* Mutant: a share replaces the ones before it.
SubmitAlone(s) ==
    /\ pc = "up"
    /\ barrier # None
    /\ rootKey = 0
    /\ offered' = offered \cup {s}
    /\ \/ /\ barrier.threshold > 1
          /\ pending' = {s}
          /\ UNCHANGED <<rootKey, projects>>
       \/ /\ barrier.threshold = 1
          /\ TryUnseal({s})
    /\ UNCHANGED <<file, pc, broken, barrier, gens, asked, settled, handed>>

SubmitShare(s) ==
    /\ pc = "up"
    /\ barrier # None
    /\ rootKey = 0
    /\ offered' = offered \cup {s}
    /\ LET now == pending \cup {s} IN
       \/ /\ Cardinality(now) < barrier.threshold
          /\ pending' = now
          /\ UNCHANGED <<rootKey, projects>>
       \/ /\ Cardinality(now) >= barrier.threshold
          /\ TryUnseal(now)
    /\ UNCHANGED <<file, pc, broken, barrier, gens, asked, settled, handed>>

\* Mutant: the reset forgets to throw the shares away.
ResetNothing ==
    /\ pc = "up"
    /\ pending # {}
    /\ offered' = {}
    /\ UNCHANGED <<file, pc, broken, memory, gens, asked, settled, handed>>

ResetUnseal ==
    /\ pc = "up"
    /\ pending # {}
    /\ pending' = {}
    /\ offered' = {}
    /\ UNCHANGED <<file, pc, broken, barrier, rootKey, projects, gens, asked, settled, handed>>

\* seal_as, and the seal that follows a poisoned lock.
SealVault ==
    /\ pc = "up"
    /\ rootKey # 0
    /\ rootKey' = 0
    /\ projects' = <<>>
    /\ pending' = {}
    /\ offered' = {}
    /\ UNCHANGED <<file, pc, broken, barrier, gens, asked, settled, handed>>

-----------------------------------------------------------------------------
\* create_project stands for every operation that commits an event.
CreateProject ==
    /\ pc = "up"
    /\ rootKey # 0
    /\ Len(content) < MaxRecords
    /\ LET r == ProjectRecord(rootKey, rootKey) IN
       \/ /\ ~broken
          /\ L!Append1(r)
          /\ projects' = Append(projects, rootKey)
          /\ UNCHANGED broken
       \/ FailAppend(r) /\ UNCHANGED projects
    /\ UNCHANGED <<pc, barrier, rootKey, pending, gens, asked, settled, handed, offered>>

\* Mutant: the project keys stay wrapped by the old root key.
CarriedAsIs(records, g) ==
    LET events == Only(records, {"event", "project"})
    IN [i \in 1 .. Len(events) |->
           IF events[i].type = "project" THEN ProjectRecord(g, events[i].wrap)
           ELSE EventRecord(g)]

\* rekey's loop over the history: the project keys are unwrapped and wrapped anew.
Carried(records, g) ==
    LET events == Only(records, {"event", "project"})
    IN [i \in 1 .. Len(events) |->
           IF events[i].type = "project" THEN ProjectRecord(g, g) ELSE EventRecord(g)]

Rewrite(g, split) ==
    <<BarrierRecord(g, split)>> \o Append(Carried(content, g), EventRecord(g))

\* rekey, up to and including the rename inside compact(): the whole history is
\* read back under the old root key and carried over.  Anything that fails
\* before the rename changes nothing.
Rekey(split) ==
    /\ pc = "up"
    /\ rootKey # 0
    /\ gens < MaxGen
    /\ Len(content) < MaxRecords
    /\ ReadsUnder(content, rootKey)
    /\ \A i \in 1 .. Len(content) : content[i].type = "project" => content[i].wrap = rootKey
    /\ gens' = gens + 1
    /\ \/ /\ L!Replace(Rewrite(gens + 1, split))
          /\ broken' = FALSE
          /\ asked' = split
          /\ pc' = "renamed"
       \/ UNCHANGED <<file, broken, asked, pc>>
    /\ UNCHANGED <<memory, settled, handed, offered>>

Remember(g, split) ==
    /\ rootKey' = g
    /\ barrier' = [gen |-> g, threshold |-> split[1]]
    /\ projects' = Wraps(content)
    /\ pending' = {}

\* Mutant: the barrier in memory stays the old one.
RekeyForgetsBarrier ==
    /\ pc = "renamed"
    /\ L!Forget /\ settled' = gens
    /\ rootKey' = gens
    /\ projects' = Wraps(content)
    /\ pending' = {}
    /\ pc' = "up"
    /\ asked' = <<0, 0>>
    /\ HandOver(gens, asked)
    /\ UNCHANGED <<barrier, broken, gens, offered>>

\* Mutant: the new file is flushed again, and the directory is not.
RekeyFlushesFile ==
    /\ pc = "renamed"
    /\ UNCHANGED file /\ settled' = gens
    /\ Remember(gens, asked)
    /\ pc' = "up"
    /\ asked' = <<0, 0>>
    /\ HandOver(gens, asked)
    /\ UNCHANGED <<broken, gens, offered>>

\* The rest of rekey: the directory flush, which may fail with a warning, and
\* the new memory.
RekeyFinish ==
    /\ pc = "renamed"
    /\ \/ L!Forget /\ settled' = gens
       \/ UNCHANGED <<file, settled>>
    /\ Remember(gens, asked)
    /\ pc' = "up"
    /\ asked' = <<0, 0>>
    /\ HandOver(gens, asked)
    /\ UNCHANGED <<broken, gens, offered>>

-----------------------------------------------------------------------------
(* The environment *)
Gone ==
    /\ pc' = "down"
    /\ broken' = FALSE
    /\ barrier' = None /\ rootKey' = 0 /\ projects' = <<>> /\ pending' = {}
    /\ asked' = <<0, 0>>
    /\ offered' = {}
    /\ UNCHANGED <<gens, settled, handed>>

Kill == pc # "down" /\ Gone /\ UNCHANGED file

PowerLoss == Gone /\ L!Lose

Next ==
    \/ OpenVault
    \/ \E split \in Splits : InitVault(split) \/ Rekey(split)
    \/ \E s \in Shares \cup Junk : SubmitShare(s)
    \/ ResetUnseal \/ SealVault \/ CreateProject \/ RekeyFinish
    \/ Kill \/ PowerLoss

Spec == Init /\ [][Next]_vars

\* Custodians who hold a share of the current set keep offering it, and the
\* server answers.
Offer(g, i) ==
    /\ g = barrier.gen
    /\ [gen |-> g, index |-> i] \in Shares
    /\ SubmitShare([gen |-> g, index |-> i])

Fairness ==
    \A g \in 1 .. MaxGen, i \in UNION {1 .. s[2] : s \in Splits} : WF_vars(Offer(g, i))

FairSpec == Spec /\ Fairness

-----------------------------------------------------------------------------
(* Properties *)

\* The store file, and any file a power loss may bring back, is one hierarchy:
\* one barrier, first, and every other record sealed under and every project key
\* wrapped by the root key in it.  Failed or interrupted inits and rekeys never
\* lay a second hierarchy over it or leave part of it under the old key.
OneHierarchy ==
    \A c \in {content} \cup {o.content : o \in older} :
        /\ c # <<>> => c[1].type = "barrier"
        /\ \A i \in 2 .. Len(c) :
              /\ c[i].type # "barrier"
              /\ c[i].gen = c[1].gen
              /\ c[i].type = "project" => c[i].wrap = c[1].gen

\* An unsealed vault holds the key its file is sealed under, the barrier it would
\* be unsealed with next time, and project keys that key unwraps; a sealed one
\* holds nothing.
KeyMatchesFile ==
    pc = "up" =>
        IF rootKey = 0 THEN projects = <<>>
        ELSE /\ content # <<>> /\ content[1].gen = rootKey
             /\ barrier = [gen |-> rootKey, threshold |-> content[1].threshold]
             /\ \A i \in 1 .. Len(projects) : projects[i] = rootKey

\* Sealing, a reset and a restart really start the ceremony over: the vault opens
\* only after as many different shares of its own generation as its barrier asks
\* for have been offered since.
QuorumOnly ==
    [][rootKey = 0 /\ rootKey' # 0 /\ gens' = gens
          => Cardinality({s \in offered' : s.gen = rootKey'}) >= content[1].threshold]_vars

\* Once a rekey's directory flush has succeeded, no crash, restart, failed append
\* or later interrupted rekey brings an earlier generation's file back: the old
\* shares stay useless against the store.
RetiredStaysRetired ==
    settled # 0 => content # <<>> /\ content[1].gen >= settled

\* security.md: "there is no step between "the new file is live" and "the new
\* shares have been handed back" that can go wrong".  So someone who was handed
\* shares once always holds, or is handed, shares that open the vault.
HoldersKeepAccess ==
    pc = "up" /\ handed # {} => \E h \in handed : h[1] = barrier.gen

\* A reset, or a share of a retired set or of another vault, which costs the
\* attempt the shares it had.
Disturbed ==
    \/ ResetUnseal
    \/ \E s \in Shares \cup Junk : s.gen # barrier.gen /\ SubmitShare(s)

\* Custodians who keep offering their shares open a sealed vault, however the
\* attempts before went, unless it goes down or the attempt is disturbed forever.
UnsealHappens ==
    <>[][~Disturbed]_vars =>
        []((pc = "up" /\ rootKey = 0 /\ \E h \in handed : h[1] = barrier.gen)
             => <>(rootKey # 0 \/ pc # "up"))
=============================================================================
