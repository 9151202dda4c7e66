-------------------------------- MODULE Log --------------------------------
(***************************************************************************)
(* The append-only store file of ls-store (log.rs): what an open `Log`      *)
(* keeps in memory, what the file holds, and what of it survives the death  *)
(* of the process or a loss of power.                                       *)
(*                                                                         *)
(* A file is the sequence of the things written to it: the 8-byte header,   *)
(* whole record frames, and, last if at all, a frame (or header) of which   *)
(* only a prefix arrived.  A file that does not exist and an empty one are  *)
(* the same thing to `Log::open`, and are the same value here.  `synced`    *)
(* counts the items known to be on the medium; later ones are in the page   *)
(* cache and survive the process but not necessarily the power.             *)
(*                                                                         *)
(* Bytes, nonces and ciphertext are abstracted: a sealed frame is its       *)
(* payload with the key and the position it was sealed for, which is all    *)
(* that opening it tests (log.rs, `open` and `record_context`).             *)
(***************************************************************************)
EXTENDS Integers, Sequences, SequencesExt

CONSTANTS
    Keys,          \* root keys a caller may seal under
    Payloads,      \* what a caller may append
    MaxItems,      \* bound: items in one file, the header included
    MaxRewrites,   \* bound: compactions that reach their rename
    EntryFlushed   \* TRUE iff flushing a new file also flushes its directory entry

ASSUME LogAssumption ==
    /\ Keys # {}
    /\ MaxItems \in Nat
    /\ MaxRewrites \in Nat
    /\ EntryFlushed \in BOOLEAN

VARIABLES
    main,      \* the file at the log's path
    temp,      \* the file at path.compacting
    prior,     \* what a power loss may bring back at the path: older files, each
               \* with what had been promised of it
    pc,        \* "down", "up", or inside compact(): "building", "renamed"
    count,     \* Log.count
    broken,    \* Log.broken
    repaired,  \* Log.repaired
    fresh,     \* locals of compact(): the records still to write, the key, fresh.count
    ret,       \* what the last call returned
    rewrites,  \* renames so far (only for the bound)
    promised   \* ghost: the items a caller was told are stored, none while a caller
               \* waits for the compaction that replaced them

disk == <<main, temp, prior>>
handle == <<count, broken, repaired>>
vars == <<main, temp, prior, pc, count, broken, repaired, fresh, ret,
          rewrites, promised>>

-----------------------------------------------------------------------------
Header == [kind |-> "header"]
Torn == [kind |-> "torn"]
Plain(v) == [kind |-> "plain", val |-> v]
Sealed(k, n, v) == [kind |-> "sealed", key |-> k, pos |-> n, val |-> v]

Frames == [kind : {"plain"}, val : Payloads]
            \cup [kind : {"sealed"}, key : Keys, pos : Nat, val : Payloads]
Items == {Header, Torn} \cup Frames
Files == [items : Seq(Items), synced : Nat]
Candidates == [file : Files, promised : Seq(Items)]
Empty == [items |-> <<>>, synced |-> 0]

\* Mutant: the record is written and never flushed.
UnsyncedWrite(f, item) == [f EXCEPT !.items = Append(f.items, item)]

\* write_all then sync_data, both succeeding.
Flushed(f, item) ==
    [items |-> Append(f.items, item), synced |-> Len(f.items) + 1]

\* The same, failing: nothing, part or all of the item reached the file, and
\* none of it is known to be on the medium.
FailedWrites(f, item) ==
    {f} \cup {[f EXCEPT !.items = Append(f.items, x)] : x \in {Torn, item}}

\* What a power loss may leave of a file: every synced item, and of the rest a
\* prefix whose last item may be cut short.
Survivors(f) ==
    {[items |-> SubSeq(f.items, 1, n), synced |-> n] :
        n \in {m \in 0 .. Len(f.items) : m >= f.synced}}
    \cup {[items |-> Append(SubSeq(f.items, 1, n), Torn), synced |-> n + 1] :
        n \in {m \in 0 .. Len(f.items) - 1 : m >= f.synced}}

\* scan(): everything before the partial frame, if there is one.
IsTorn(f) == f.items # <<>> /\ f.items[Len(f.items)] = Torn
\* Mutant: the last whole frame goes with the partial one.
GoodMinusOne(f) ==
    IF f.items # <<>> /\ f.items[Len(f.items)] = Torn /\ Len(f.items) > 2
    THEN SubSeq(f.items, 1, Len(f.items) - 2) ELSE f.items

Good(f) == IF IsTorn(f) THEN SubSeq(f.items, 1, Len(f.items) - 1) ELSE f.items
Truncated(f) == [items |-> Good(f), synced |-> Len(Good(f))]

\* The caller seals under the key its file was written with: the vault checks a
\* root key against the barrier before it uses it.
CallerKey(k) ==
    \A i \in 1 .. Len(main.items) : main.items[i].kind = "sealed" => main.items[i].key = k

\* The locals of compact() outside a call; `goal` is a ghost, the whole file
\* the caller asked for.
Jobs == [key : Keys, plain : Seq(Payloads), sealed : Seq(Payloads),
         count : Nat, goal : Seq(Items)]
NoJob == [key |-> CHOOSE k \in Keys : TRUE, plain |-> <<>>, sealed |-> <<>>,
          count |-> 0, goal |-> <<>>]

TypeOK ==
    /\ main \in Files
    /\ temp \in Files
    /\ prior \in SUBSET Candidates
    /\ pc \in {"down", "up", "building", "renamed"}
    /\ count \in Nat
    /\ broken \in BOOLEAN
    /\ repaired \in BOOLEAN
    /\ fresh \in Jobs
    /\ ret \in {"none", "ok", "io", "broken", "toolarge", "notalog"}
    /\ rewrites \in Nat
    /\ promised \in Seq(Items)

Init ==
    /\ main = Empty /\ temp = Empty /\ prior = {}
    /\ pc = "down"
    /\ count = 0 /\ broken = FALSE /\ repaired = FALSE
    /\ fresh = NoJob
    /\ ret = "none" /\ rewrites = 0
    /\ promised = <<>>

-----------------------------------------------------------------------------
(* Log::open *)

\* Mutant: the count starts one too low.
OpenedOffByOne(f) ==
    /\ pc' = "up"
    /\ main' = f
    /\ count' = Len(f.items) - 2
    /\ broken' = FALSE
    /\ ret' = "ok"
    /\ UNCHANGED <<temp, fresh, rewrites, promised>>

Opened(f) ==
    /\ pc' = "up"
    /\ main' = f
    /\ count' = Len(f.items) - 1
    /\ broken' = FALSE
    /\ ret' = "ok"
    /\ UNCHANGED <<temp, fresh, rewrites, promised>>

OpenFailed(files, why) ==
    /\ main' \in files
    /\ ret' = why
    /\ UNCHANGED <<temp, pc, handle, fresh, rewrites, promised>>

\* A created file has a directory entry of its own to lose.
EntryCreated ==
    prior' = IF EntryFlushed THEN prior
             ELSE prior \cup {[file |-> Empty, promised |-> <<>>]}

OpenNew ==
    /\ pc = "down"
    /\ main.items = <<>>
    /\ EntryCreated
    /\ \/ Opened(Flushed(main, Header)) /\ repaired' = FALSE
       \/ OpenFailed(FailedWrites(main, Header), "io")

\* A file whose partial tail was cut off is flushed; an intact one is not.
OpenExisting ==
    /\ pc = "down"
    /\ main.items # <<>>
    /\ main.items[1] = Header
    /\ UNCHANGED prior
    /\ \/ /\ Opened(IF IsTorn(main) THEN Truncated(main) ELSE main)
          /\ repaired' = IsTorn(main)
       \/ OpenFailed({main, [Truncated(main) EXCEPT
              !.synced = IF main.synced < @ THEN main.synced ELSE @]}, "io")

OpenRefused ==
    /\ pc = "down"
    /\ main.items # <<>>
    /\ main.items[1] # Header
    /\ UNCHANGED prior
    /\ OpenFailed({main}, "notalog")

-----------------------------------------------------------------------------
(* append_plain, append and write_record *)

\* Refused before anything is written: the log is broken, or the record is over
\* MAX_RECORD_LEN (or over what the cipher takes), which leaves it usable.
AppendRefused ==
    /\ pc = "up"
    /\ \/ broken /\ ret' = "broken"
       \/ ret' = "toolarge"
    /\ UNCHANGED <<disk, pc, handle, fresh, rewrites, promised>>

AppendOk(item) ==
    /\ pc = "up"
    /\ ~broken
    /\ Len(main.items) < MaxItems
    /\ main' = Flushed(main, item)
    /\ count' = count + 1
    /\ promised' = main'.items
    /\ ret' = "ok"
    /\ UNCHANGED <<temp, prior, pc, broken, repaired, fresh, rewrites>>

\* Mutant: a failed append does not mark the log.
AppendFailedUnmarked(item) ==
    /\ pc = "up"
    /\ ~broken
    /\ Len(main.items) < MaxItems
    /\ main' \in FailedWrites(main, item)
    /\ ret' = "io"
    /\ UNCHANGED <<temp, prior, pc, count, broken, repaired, fresh, rewrites, promised>>

AppendFailed(item) ==
    /\ pc = "up"
    /\ ~broken
    /\ Len(main.items) < MaxItems
    /\ main' \in FailedWrites(main, item)
    /\ broken' = TRUE
    /\ ret' = "io"
    /\ UNCHANGED <<temp, prior, pc, count, repaired, fresh, rewrites, promised>>

AppendItem(item) == AppendOk(item) \/ AppendFailed(item)

AppendPlain == \E v \in Payloads : AppendItem(Plain(v))

AppendSealed ==
    \E v \in Payloads, k \in Keys : CallerKey(k) /\ AppendItem(Sealed(k, count, v))

-----------------------------------------------------------------------------
(* compact *)

Lists == UNION {[1 .. n -> Payloads] : n \in 0 .. MaxItems - 1}

\* The file that rewriting with these records under this key must end in.
Rewritten(k, p, s) ==
    [i \in 1 .. 1 + Len(p) + Len(s) |->
        IF i = 1 THEN Header
        ELSE IF i - 1 <= Len(p) THEN Plain(p[i - 1])
        ELSE Sealed(k, i - 2, s[i - 1 - Len(p)])]

\* Mutant: the rewrite is built at the log's own path.
CompactInPlace ==
    /\ pc = "up"
    /\ rewrites < MaxRewrites
    /\ main' = Flushed(Empty, Header)
    /\ temp' = main'
    /\ fresh' \in [key : Keys, plain : Lists, sealed : {<<>>}, count : {0}, goal : {<<>>}]
    /\ pc' = "building"
    /\ UNCHANGED <<prior, handle, ret, rewrites, promised>>

\* Whatever an earlier attempt left behind is removed, and a log opened afresh.
\* A broken log may be compacted: the guard against appending is not consulted.
CompactStart ==
    /\ pc = "up"
    /\ rewrites < MaxRewrites
    /\ \/ \E k \in Keys, p \in Lists, s \in Lists :
             /\ Len(p) + Len(s) < MaxItems
             /\ temp' = Flushed(Empty, Header)
             /\ fresh' = [key |-> k, plain |-> p, sealed |-> s, count |-> 0,
                          goal |-> Rewritten(k, p, s)]
             /\ pc' = "building"
             /\ UNCHANGED ret
       \/ /\ temp' \in {temp} \cup FailedWrites(Empty, Header)
          /\ ret' = "io"
          /\ UNCHANGED <<fresh, pc>>
    /\ UNCHANGED <<main, prior, handle, rewrites, promised>>

\* Any failure before the rename drops `fresh` and leaves the log as it was.
CompactAbandoned(files) ==
    /\ temp' \in files
    /\ pc' = "up"
    /\ fresh' = NoJob
    /\ ret' = "io"
    /\ UNCHANGED <<main, prior, handle, rewrites, promised>>

CompactItem(item, rest) ==
    \/ /\ temp' = Flushed(temp, item)
       /\ fresh' = rest
       /\ UNCHANGED <<main, prior, pc, handle, ret, rewrites, promised>>
    \/ CompactAbandoned(FailedWrites(temp, item))

CompactRecord ==
    /\ pc = "building"
    /\ \/ /\ fresh.plain # <<>>
          /\ CompactItem(Plain(Head(fresh.plain)),
                [fresh EXCEPT !.plain = Tail(@), !.count = @ + 1])
       \/ /\ fresh.plain = <<>>
          /\ fresh.sealed # <<>>
          /\ CompactItem(Sealed(fresh.key, fresh.count, Head(fresh.sealed)),
                [fresh EXCEPT !.sealed = Tail(@), !.count = @ + 1])

RenameTo(newCount) ==
    /\ main' = temp
    /\ prior' = prior \cup {[file |-> main, promised |-> promised]}
    /\ temp' = Empty
    /\ count' = newCount
    /\ broken' = FALSE
    /\ repaired' = FALSE
    /\ promised' = <<>>
    /\ rewrites' = rewrites + 1
    /\ pc' = "renamed"
    /\ fresh' = NoJob
    /\ UNCHANGED ret

\* Mutant: the log keeps its old count after the handle changes.
RenameKeepingCount ==
    /\ pc = "building"
    /\ fresh.plain = <<>>
    /\ fresh.sealed = <<>>
    /\ RenameTo(count)

\* Mutant: the rename does not wait for the sealed records.
RenameEarly ==
    /\ pc = "building"
    /\ fresh.plain = <<>>
    /\ RenameTo(fresh.count)

CompactRename ==
    /\ pc = "building"
    /\ fresh.plain = <<>>
    /\ fresh.sealed = <<>>
    /\ \/ RenameTo(fresh.count)
       \/ CompactAbandoned({temp})

\* The directory flush, whose failure is only reported: compact() returns, and
\* the caller is told that the rewrite is stored.
CompactFlush ==
    /\ pc = "renamed"
    /\ prior' \in {{}, prior}
    /\ promised' = main.items
    /\ pc' = "up"
    /\ ret' = "ok"
    /\ UNCHANGED <<main, temp, handle, fresh, rewrites>>

-----------------------------------------------------------------------------
(* The environment.  Killing the process in the middle of a write is a failed *)
(* write and then a kill.                                                     *)

Forgotten ==
    /\ count' = 0 /\ broken' = FALSE /\ repaired' = FALSE
    /\ fresh' = NoJob
    /\ ret' = "none"

Kill ==
    /\ pc # "down"
    /\ pc' = "down"
    /\ Forgotten
    /\ UNCHANGED <<disk, rewrites, promised>>

PowerLoss ==
    /\ \E c \in prior \cup {[file |-> main, promised |-> promised]} :
          /\ main' \in Survivors(c.file)
          /\ promised' = c.promised
    /\ temp' \in Survivors(temp) \cup {Empty}
    /\ prior' = {}
    /\ pc' = "down"
    /\ Forgotten
    /\ UNCHANGED rewrites

Next ==
    \/ OpenNew \/ OpenExisting \/ OpenRefused
    \/ AppendRefused \/ AppendPlain \/ AppendSealed
    \/ CompactStart \/ CompactRecord \/ CompactRename \/ CompactFlush
    \/ Kill \/ PowerLoss

Spec == Init /\ [][Next]_vars

-----------------------------------------------------------------------------
(* Properties *)

\* read_records: the frame at index i is record i - 2, and a sealed one opens
\* only under its own key at its own position.
ReadsBack(f, k) ==
    \A i \in 1 .. Len(f.items) :
        LET it == f.items[i] IN
        \/ i = 1 /\ it = Header
        \/ i = Len(f.items) /\ it = Torn
        \/ i > 1 /\ it.kind = "plain"
        \/ i > 1 /\ it.kind = "sealed" /\ it.key = k /\ it.pos = i - 2

\* Whatever failed writes, kills, power losses and interrupted compactions came
\* before, the file at the path, and every file a power loss could put there,
\* reads back in full under one key: no frame follows a partial one, and no
\* sequence number was used twice or skipped (write_record's `broken`).  A header cut
\* short counts as readable, though check_header refuses the file: nothing was stored in
\* it yet.  So does an empty file, which is what is left of a new store whose directory
\* entry was never flushed: that loss is not what this property is about.
Replayable ==
    \A f \in {main} \cup {p.file : p \in prior} : \E k \in Keys : ReadsBack(f, k)

\* What a caller was told is stored is in the file, in order, from the start:
\* no failed append, reopening or half-done compaction drops or reorders it.
PromisedKept == IsPrefix(promised, main.items)

\* While appends are accepted, the count that the next record is sealed against
\* is the number of records in the file, and the file ends on a whole frame.
CountIsPosition ==
    pc = "up" /\ ~broken => ~IsTorn(main) /\ Len(main.items) = count + 1

\* Once no older file can come back, losing the power (or the process) at any
\* moment, in the middle of an append or a compaction, loses nothing promised:
\* every acknowledged append was flushed with everything before it.
AckedSurvive ==
    [][pc' = "down" /\ prior = {} => IsPrefix(promised, main'.items)]_vars

\* A compaction leaves the live file alone until its rename, and then the whole
\* rewrite the caller asked for is live and flushed, whatever was lying at the
\* temporary path and whatever state the log itself was in.
CompactionAtomic ==
    [][pc = "building" =>
          \/ main' = main
          \/ pc' = "down"
          \/ main' = [items |-> fresh.goal, synced |-> Len(fresh.goal)]]_vars
=============================================================================
