# localsecrets: specifications, model checks and proofs

localsecrets keeps secrets for one machine or a small team. `localsecretsd`
serves a small HTTP API; everything it knows is one append-only file, sealed
under a root key that is itself wrapped by a master key split into Shamir shares.
This directory models the parts of it whose mistakes are hard to test for:
what survives a crash, which keys open what, what memory says compared with the
file, who is let in, how the server's threads get along, what a slow or broken
connection can do, what commands do to each other's files, and whether everything
that is written down can be read back.

## 1. Inventory

| Component | State it keeps | Operations | Talks to |
|---|---|---|---|
| Store file (`ls-store/log.rs`) | the file and its temporary sibling; `count`, `broken`, `repaired` | `open` (with repair), `append_plain`, `append`, `read_*`, `compact` | the file system |
| Events and state (`ls-store/event.rs`, `state.rs`) | users, tokens, projects, environments, secrets | `apply`, lookups, encoding | vault |
| Key hierarchy (`ls-server/vault.rs`, `barrier.rs`) | `barrier`, `root_key`, `pending_shares` | `init`, `submit_share`, `reset_unseal`, `seal`, `rekey` | store file, Shamir |
| Data plane (`ls-server/vault.rs`) | `state` | accounts, logins, tokens, projects, environments, secrets, audit | store file |
| API (`ls-server/api.rs`) | three locks: vault, login limiter, ceremony limiter | one handler per route, `authed`, recovery of a poisoned lock | vault, limiters |
| Limiter (`ls-server/rate_limit.rs`) | a table of windows | `allow`, `succeeded` | the clock |
| Server threads (`ls-http/server.rs`) | bounded queue, worker pool, `running` | accept, serve, `shutdown` | API |
| Request reading, refusal and drain, client (`ls-http` `request.rs`, `server.rs`, `client.rs`) | buffers, deadline and byte counts of one exchange | `read_head`, `read_body`, `drain`, `Client::send` | sockets |
| Command line (`ls-cli`) | a token file in the home directory, a pin file in the working directory | one request per command, `run`'s child | API |
| Shamir, associated data, encodings, time (`ls-core`) | none | pure | everybody |
| Stored records (`event.rs`, `barrier.rs`) and JSON (`ls-json`) | none | `to_bytes`, `from_bytes`, `parse`, `Display` | store file, API, CLI |
| Ciphers, passwords, random numbers (`ls-core`), logging (`ls-log`), daemon entry point (`main.rs`) | none | calls into libraries, output, start-up | everybody |

Requests are handled by a pool of threads, and all of them go through one lock
around the vault, so the data plane is sequential *except* for what cuts a
handler short: a write that fails, a record the store refuses, a panic, the end
of the process or of the power. That is where the hard behaviours are:

* **Crash and partial failure.** A failed append may leave none, part or all of
  its record; a compaction is several files and a rename; `init` and `rekey`
  change a file and several fields of memory.
* **Stale memory.** Memory is a fold of the file, and a panic or a failed write
  can put the two apart.
* **Protocol sequences.** Shares of different splits, resets, seals, restarts
  and re-splits in one ceremony; revocations and replays.
* **Threads.** A poisoned lock that others already wait for, two locks taken in
  two orders, a bounded queue, a shutdown that must wake a blocked acceptor.
* **Limits.** A limiter table that is full, windows that end, a clock set back.
* **Slow and vanishing peers.** A head cut anywhere into reads, bytes that trickle
  in, a peer that stops or does not read its answer, a refusal written while the body
  is still on its way.
* **Concurrent commands.** Runs of `lsec` share two files that are truncated before
  they are written, and write them at once; answers are lost after the server acted.
* **What is written must be read back.** One record, share, name or `.env` line that
  reads back as something else is only noticed much later; one that does not read
  back at all closes the store.

What makes each part correct is the list of properties in section 4; the hazards
behind them are in `PROJECT.json`, each at its line.

## 2. Modules

| Module | Models | Form |
|---|---|---|
| `Log` | the store file over a disk that loses what is not flushed | one action per operation and per point a crash can tell apart |
| `DurableLog` | what the store file promises, without files, frames or flushes | abstract specification |
| `LogRefinement` | `Log` implements `DurableLog` | `INSTANCE ... WITH` a refinement mapping |
| `Seal` | keys, barrier, ceremony, `rekey`, over `DurableLog` | generations of keys |
| `Vault` | data plane and API handlers, over `DurableLog` | one action per handler |
| `Server` | acceptor, queue, workers, locks, shutdown | one action per blocking point |
| `RateLimit` | the limiter | one action per call |
| `Exchange` | one connection: reading a request, answering, draining, the client | one action per read, write and timeout |
| `Cli` | concurrent runs of `lsec`, their files, their one call | one action per file access and per end of a call |
| `Shamir` | `gf`, `split`, `evaluate`, `combine` | functions |
| `Calendar` | timestamps and their written form | functions |
| `Encoding` | base64, hexadecimal, printed shares, names in paths | functions |
| `Dotenv` | `.env` export and import | functions |
| `Json` | JSON reader and writer | functions |
| `Records` | events and barrier as JSON values, the context a value is sealed in | functions |
| `Formats` | feeds the codecs every input up to a bound; the properties of `Calendar`, `Encoding`, `Dotenv` and `Records` | one action per piece of input |
| `Codecs` | the properties of `Shamir` and `Json` over the same inputs | properties only |
| `MC*` | the instances TLC checks | constants only |
| `LogProofs` | theorems about `Log`, and that it implements `DurableLog` | TLAPS |
| `SealProofs`, `VaultProofs`, `ServerProofs`, `RateLimitProofs`, `ExchangeProofs`, `CliProofs`, `FormatsProofs` | theorems about the module each is named after | TLAPS |

`Seal` and `Vault` use `DurableLog`'s actions as their store, so the property
`ImplementsDurableLog` of the run `log` is what entitles them to it. In the same
way `Seal` takes from `Shamir` that a quorum recovers the key, and `Vault` from
`Records` that replay sees the events that were written. `Shamir`, `Json` and what
uses them (`Codecs`) are recursive or need bit operations, so they are for TLC only
and no module with a theorem reaches them; `Formats` and what it uses are kept apart
from them so that they can be proved about.

### How the modules correspond to the code

**Log.** A file is a sequence of items: header, whole frames, and at most one
partial item at the end. `synced` counts the items that are on the medium.
`write_record` is `AppendOk`/`AppendFailed`; a failed write leaves the file as it
was, with a partial item, or with the whole item unflushed (`FailedWrites`), and
sets `broken`. `Log::open` is `OpenNew`, `OpenExisting` (repair included, in the
same step) and `OpenRefused`. `compact` is four actions because its intermediate
files matter: `CompactStart`, `CompactRecord` (once per record), `CompactRename`,
`CompactFlush`. The rename puts the old file into `prior`, the set of files a
power loss may bring back, and only a successful directory flush empties it. A
sealed frame is its payload with the key and position it was sealed for; this is
all that decides whether it opens. `promised` (what callers were told is stored; of a
rewrite, once `compact` returns) and `fresh.goal` are ghosts. Killing a process in the middle of a write is a
failed write followed by `Kill`.

`EntryFlushed` says whether flushing a newly created file also makes its
directory entry durable. POSIX does not promise it and common Linux file systems
do it. The runs take it to be so; the proofs cover both.

**Seal.** Each `init` and `rekey` draws a master and a root key together, so a
pair is a *generation*. A record names the generation it is sealed under, a
project record also the one that wraps its data key. `Combines` is
`shamir::combine` followed by the authenticated unwrapping: distinct indices, all
of the barrier's generation, at least the threshold. `rekey` is two actions, up
to the rename and after it, because the process can die in between. `handed`
records which share sets reached the operator: the response is written and its
result ignored, so a set may be lost.

**Vault.** Every handler is one step, since it runs under the vault's lock.
`Handle(op, events, res)` is the common shape: the handler either commits all of
its events and answers, or stops at one of them (`Stops`): refused by the store,
failed with the record readable or not, or a panic after the write and before
`apply`. Events before that one stay. `Apply` is `State::apply`, `Replay` the
fold at unseal. Vectors searched for a first match are sets, justified by
`UniqueNames`. Identifiers are positions in the file instead of random numbers.
`Histories` is the set of files a behaviour may begin with, each with the number of
records it may add to it; `limit` is the bound that follows. Three ghosts say what
callers know: `dead` (tokens that were ended), `may` (what a slot may hold) and `shown`
(the values handed out). A file in `older` keeps the ghosts of the moment it was
replaced; a power loss that brings it back brings those back, and one that leaves the
current file leaves its ghosts. So what the properties claim has one window: what is
acknowledged between a `rekey` whose directory flush failed and the power loss that
undoes the rename goes with the file it was written to (section 6).

**Server.** A worker's place (`at`) is the blocking call it is in. `recv` is
called with the receiver's lock held, as in the code; `login` takes the limiter's
lock, drops it, takes the vault's, and takes the limiter's again inside it. A
panic is caught by `run_handler`; the vault's lock is then poisoned, and `lock()`
seals on the next acquisition. The daemon itself never calls `shutdown` (it leaks
the handle and runs until it is killed), so that half of the module is about the
library.

**RateLimit.** One limiter, addresses already normalised. The clock is the wall
clock and may be set back once (`SetBack`), which makes a window's age negative as
in the code. `granted` is a ghost of when each address was let through, in time
that does not go back.

**Exchange.** A byte is an atom: CR, LF, or a whole line told apart as far as
`parse_request_line` and `parse_header` tell lines apart. `Ask` is the deadline
check at the top of a loop together with the read it leads to; the read returns any
part of what has arrived (`ReadHead`, `ReadBody`), ends, or times out
(`ReadHeadFails`, `ReadBodyFails`). `Parsed` is everything `Request::read` does
between head and body, in its order, so that of two faults the code's is reported.
The answer goes out in writes that each take some of it, as far as the network has room
(`WriteAsk`, `WriteSome`), and each has the timeout to itself; one that fails ends the
answer, and the error is ignored (`WriteFails`). `Answered` is what follows: after a
refusal the writing end is shut and the rest drained (`DrainAsk`, `DrainRead`,
`DrainEnds`), otherwise the connection is closed; closing with bytes unread resets it,
which may take the answer with it. `written` and `seen` count what the network took of
the answer and what the peer read of it, `room` is what fits in between. Time passes only
while the server is blocked in a read or a write.

**Cli.** A command is its way through `dispatch`: whether it needs the pair, the
project or a token, and what it does with its answer. `store_token` and `write_pin`
are two steps, truncate and write, because another run may come between and either
may be killed there. Each writer writes from its own start, so two that overlap leave
the text of the last with the end of a longer one behind it, and `read_pin` takes the
last environment it finds: `PinWrite` leaves the environment of either (`mixed`). Tokens
all have one length, so of two that overlap one is left. The pin file is read once for
each half, as in `Common::project` and `Common::environment`. Names of tokens are the runs that fetched them. The server is
reduced to the tokens it accepts and to having acted or not.

**Shamir** has the width of the field as a parameter: GF(4) and GF(8) are tried
whole, GF(256) at its ends. **Calendar** keeps the code's division, which rounds
towards zero, and splits seconds into days and seconds of the day. **Encoding** keeps
values of characters rather than their code points, with one value for every kind of
character a decoder refuses. The checksum of a share is taken to be what it is computed from. **Json** takes `null`, `true`, `false` and the four
digits of a `\u` escape as one character each. **Records** has two tables with one row
per event type: how each field is written, and the reader the code uses for it.
**Formats** takes one codec and appends pieces of input (`Lengthen`), walks the
calendar a day at a time (`NextDay`), spoils a field of a record (`Spoil`) or hands in
a share (`HandIn`). Its constant `Continues` says which texts are worth continuing; in
the instance it is `Undecided` of **Codecs**, which gives up a JSON text that the reader
has refused before its end. The invariants compare with a reference that is defined
another way.

## 3. Runs

| Run | Instance | Result |
|---|---|---|
| `log` | 2 keys, 1 payload, files of 3 items, 1 compaction | passes, 9.1 x 10^4 states |
| `seal` | splits 2 of 2 and 1 of 1, 3 generations, 4 records, a foreign share, fairness | passes |
| `seal_handed` | split 2 of 3, 2 generations | violated |
| `vault` | a settled vault, values small and too large, 4 records more | passes, 1.3 x 10^6 states |
| `vault_scoped` | from a fresh init with room for 4 records, and from a shared vault with a machine token with room for 2; 2 accounts, 2 environments, lifetimes 0 and 1, a clock of 1 | passes, 7.3 x 10^5 states |
| `vault_bulk` | a batch of two keys, one value too large | violated |
| `server` | 2 workers, 3 connections, a queue of 1, fairness | passes |
| `rate_limit` | 3 addresses, a table of 2, budget 2, window 2, clock to 4, set back once | passes, 9.7 x 10^5 states |
| `exchange` | 20 streams, heads of 14 bytes and 3 headers, bodies of 4, deadlines and write timeout of 2, answers of 2 and 3 bytes, room for 1 or 2 of them | passes, 1.3 x 10^6 states |
| `exchange_slow` | the same, room for 2 | violated: see section 6 |
| `cli` | 3 runs, `run`, `use`, `login`, `logout`, `user create`, 2 pairs to pin, flags for either half | passes, 8.4 x 10^5 states |
| `codecs` | see below | passes, 4.1 x 10^5 states |

### Why the bounds are enough for the cases that matter

* `MaxItems` 3 is a header and two records: an acknowledged record and a failed one,
  or one on either side of a rewrite. With two keys a rewrite under the wrong one
  shows. One rename puts one older file at stake; the proofs have no bound.
* Three generations let a rekey fail, be interrupted and be followed by another,
  with shares of three sets mixed into one ceremony; four records hold a barrier,
  the root token and two more.
* A history's `room` is the records added to a file that already holds one of
  everything, so that two operations of two records each, or four of one, can
  interleave with every failure. `Large` stands for values between what
  `check_secret` admits and what the store takes.
* Three connections over two workers and a queue of one fill the queue, leave one
  connection in the backlog and let a third party wait for either lock.
* Two live windows fill the table; a budget of two in windows of two ticks and a
  clock to four reaches both ends of a window and the one after it.
* In `exchange` every limit is hit, missed by one and exceeded by some stream, a read
  may return any number of bytes, and the terminator, four bytes, can be cut at each
  of its three places. `Sent` are the four shapes `Client::send` produces: no body, a
  body, a body over the limit, a header too many. An answer of three bytes and a room of
  one or two make every answer block, a refusal of two only in the smaller room, and a
  write may take one byte or two.
* In `cli` two runs interfere and a third observes; the five commands stand for the
  ones that resolve a pair, write the pin file, write, and remove the token file, and
  ask for a token. The others differ from `run` in what they print.
* In `codecs` inputs are long enough for a whole and a broken base64 group and for an
  escape in a path; two fields of a record may be damaged. The calendar covers one cycle
  of four hundred years, and both ends of what can be written. Texts are
  long enough for two escapes and two lines of a `.env` file, three levels of JSON
  nesting where two are allowed, and two fields of one object.

Runs of `lsec` and addresses of the limiter are interchangeable, so `cli` and
`rate_limit` declare symmetry; both check safety only. Deadlock is
checked but in `server`, which comes to rest when all connections are done and
`shutdown` has returned or could not make its connection; in `exchange` and `cli`,
which end; and in `codecs`, which stops at its longest input.

### Fairness

* `Server`: weak fairness of the acceptor, of each worker, and of the caller of
  `shutdown` once it has begun. Threads are scheduled by the operating system, and
  reads and drains are bounded by deadlines. Writes are bounded only by a timeout for
  each, which is as many timeouts as the answer has bytes in the worst case: far, but
  finite, which is all that fairness needs. `Exchange` is where these bounds are checked
  (`WorkerFreed`). Nothing is assumed about which waiter gets a lock, nor that clients connect
  or that anyone calls `shutdown`.
* `Seal` (for `UnsealHappens`; the other properties need none): weak fairness of
  submitting each share that was handed out for the current barrier. This is an
  assumption about custodians, who keep trying, not about the code; the property also
  supposes that disturbances (resets, foreign and retired shares) end.

`Exchange` has no liveness property: `WorkerFreed` bounds the time a connection may
take instead, which is stronger than that it ends and needs no fairness.

## 4. What is checked

| Property | Says |
|---|---|
| `Log!Replayable` | after any failures the file reads back in full under one key |
| `Log!PromisedKept` | acknowledged records start the live file, in order |
| `Log!CountIsPosition` | while appends are accepted, `count` is the next position and the tail is whole |
| `Log!AckedSurvive` | a kill or power loss takes back nothing acknowledged, once no older file can return |
| `Log!CompactionAtomic` | a compaction leaves the live file alone until the whole rewrite is live and flushed |
| `LogRefinement!ImplementsDurableLog` | every step of the file is a step of the durable log, or none |
| `Seal!OneHierarchy` | the file is one barrier and records under its root key, through failed inits and rekeys |
| `Seal!KeyMatchesFile` | an unsealed vault holds the keys and the barrier of its file |
| `Seal!RetiredStaysRetired` | after a flushed rekey, no earlier generation's file comes back |
| `Seal!QuorumOnly` | every unseal has a threshold of own shares offered since the last seal, reset or start |
| `Seal!UnsealHappens` | custodians who keep offering get through |
| `Vault!MemoryIsReplay` | requests are answered from the fold of the file, but for one record reported as failed; a sealed vault holds nothing |
| `Vault!AcknowledgedStands` | a slot holds the last acknowledged value or a later unacknowledged one, but for the window of section 2 |
| `Vault!RevealedIsRecorded` | no value is handed out without a durable audit record of it, but for the same window |
| `Vault!DeadStayDead` | revoked tokens and the spent root token never work again, but for the same window |
| `Vault!UniqueNames` | no two objects of one name, however creations fail |
| `Vault!ConfinedReads` | a machine token is shown values of its own environment only |
| `Server!NeverServedStale` | no request is served from memory that a panic left behind |
| `Server!QueuedIsAnswered` | a queued connection is answered or closed |
| `Server!ShutdownReturns` | shutdown returns once its wake-up connection was made |
| `RateLimit!TypeOK` | the types, and that the table stays within its limit |
| `RateLimit!GuessesBounded` | at most two budgets in any window's length, the clock set back or not |
| `RateLimit!RefusalDoesNotProlong` | refusals move nothing |
| `Exchange!ReadsWhatWasSent` | however the bytes were cut, the request served is the one sent, and a refusal is for what was sent |
| `Exchange!OneReading` | what is served has at most one length and one host and no other framing, unless a bare LF is in its head |
| `Exchange!WorkerFreed` | no peer keeps a worker beyond two deadlines, a write timeout for each byte of the answer, and the drain |
| `Exchange!AnswerIsRead` | `ls-http`'s client gets the answer, a refusal too, within named exceptions: its own timeout, an answer beyond its limits, more left to send than is drained, and (`Cramped`) a refusal that the network has no room for while the client is still writing |
| `Cli!ExitTellsEffect` | success means done exactly once, and by `run`'s program too; failure means at most once |
| `Cli!TargetIsPinned` | the pair named to the server is the flags', or one that was pinned as a pair, unless re-pinned between the two reads or pinned by two runs at once; each half was pinned or given in any case |
| `Cli!TokensAreWhole` | every token sent was issued by the server |
| `Cli!LogoutLasts` | a token that was logged out is gone from the file, and dead once the server answered |
| `Codecs!ThresholdDecides` | a quorum recovers the secret; one share fewer is consistent with every secret |
| `Formats!TimesAreExact` | the conversion agrees with a calendar counted day by day; any clock yields a timestamp that reads back |
| `Formats!SpelledOnce` | bytes have one base64 and, up to case, one hexadecimal form; a share with one wrong place is refused, or still itself |
| `Formats!NamesNeedNoEscape` | names the server admits travel in a path unchanged, in a segment of their own |
| `Formats!ExportImports` | exported pairs are read back from the `.env` text as they were |
| `Formats!RecordsReadBack` | a record reads back as the event it was written for; a damaged one is refused or differs in that an optional field is absent; an event is never read as a barrier nor a barrier as an event |
| `Formats!OpensInItsSlotOnly` | a value sealed for one slot opens in no other |
| `Codecs!ReadsTheGrammar` | the JSON reader accepts what the grammar generates, no deeper than allowed and with no name twice, and what it reads it writes back; the body of an import gives the server the values that were read |
| `Log!TypeOK` | the types of the store file's state |

`Seal`, `Vault`, `Server`, `Exchange` and `Cli` define a `TypeOK` as well. No run
lists it: it is proved (`TypeCorrect` in each proof module), and the runs spend their
time on the properties above.

Each has a mutant in `PROJECT.json`: a definition changed as a plausible mistake
in the code would change it, which violates the property. The mutants stand in the
modules beside the definitions they replace and nothing else uses them.

## 5. What is proved

Eight modules hold theorems. Each states a module's properties for **every** value of
its constants: any keys, names, splits, streams, limits and deadlines, files and heads
of any length, any number of workers, connections, addresses and runs. The only
assumptions are the named `ASSUME`s beside the constants, which TLC evaluates in the
runs. Every invariant and safety action property that a run checks is proved, except
the two of `Codecs`; the theorem for a property `P` is called `AlwaysP`.

The proofs about state machines have the same shape. `IInv` is the inductive invariant, a conjunction of
named parts, each with the comment that says what it is for; one lemma per action
shows that it is kept; `Invariance` is `Spec => []IInv`; the theorems follow from it.
The properties are seldom inductive by themselves. What had to be added, and why:

**`LogProofs`** (`TypeOK`, `Replayable`, `PromisedKept`, `CountIsPosition`,
`AckedSurvive`; both values of `EntryFlushed`).

* `Replayable` fails after an append at a wrong position, so `HandleOK` adds that
  an open, unbroken handle's count is the file's length and its tail whole; and a
  file made live by the rename must have been good while it was built, which is
  `BuildingOK`.
* `PromisedKept` survives a power loss only because promised items are *flushed*:
  `Covers` says they lie within `synced` and none is a partial frame, which the
  next open would cut off.
* Both must hold of every file in `prior` with the promises made of it, since a
  power loss may make any of them the live one.
* `RenamedOK` carries `broken = FALSE` from the rename to the end of `compact`.

And of the compaction (`CompactionAtomic`, `RefinesDurableLog`): `GoalOK` says that
what a compaction has written and what it still has to write make up its goal, each
record sealed for the place it will have; so the rename installs the whole rewrite.
The refinement goes step by step: an action of `Log` either leaves the mapped
variables alone or is one disjunct of `DurableLog!Next`. The interesting ones are the
failed writes, which map to a record the durable log may or may not keep, and the open
after a crash, whose repair no reader can see. This is what `Seal` and `Vault`
rest on when they use `DurableLog` as their store.

**`SealProofs`** (`OneHierarchy`, `KeyMatchesFile`, `RetiredStaysRetired`,
`QuorumOnly`). `FilesOK` says of the live file and of every file a power loss may bring
back that it is one hierarchy and that its barrier survives once a later rekey is
settled; `BarrierOK` that a vault without a barrier that still accepts writes has an
empty file, for otherwise `init` could append a second one; `RenamedOK` carries the new
barrier from the rename to the new memory. The records `replay` picks out of a file are
described by their rank, so that the proof can speak of the n-th of them.

**`VaultProofs`** (`MemoryIsReplay`, `AcknowledgedStands`, `DeadStayDead`,
`RevealedIsRecorded`, `ConfinedReads`, `UniqueNames`). Replay is a fold over a file of
any length. The induction theorems of the library cannot be instantiated here, so the
lemma `UpTo` derives induction over the places of a file from the well-foundedness of
the naturals, as a statement about a set, and the fold is a recursive function. From it
come `FoldedConcat` (committing records one after the other is replaying them all) and
`ReplayReflects` (an object is in memory exactly when a record put it there and none
later took it away). `FilesOK` says that records refer to earlier ones and that names are
unique in the file; `StandsOK` extends `AcknowledgedStands` to every part of the file that
may be left after a crash; `DeadOK` finds the sure record that ended each dead token;
`ShownOK` is an injection from the values shown into the sure audit records, which is
how counting them is avoided; `ConfinedOK` reads a token's scope off sure records.
`OlderOK` says all of this of every file a power loss may bring back, with the ghosts of
the moment it was replaced, so that a power loss is one case for every file.
`HistoriesAssumption` says what a file that this program wrote looks like.

**`ServerProofs`** (`NeverServedStale`, and three results no run states).
`LocksOK` ties each lock to the one worker at a place under it, `MemoryOK` says that
memory that lags is behind a poisoned lock nobody holds. `JobsOK`, `QueueOK` and
`HeldOK` give every accepted connection one place; `StoppedOK` and `ReturnedOK` say what
is left when threads end. Besides, `AlwaysLocksInOrder`: who holds the limiter's lock
does not wait for the vault's, so no circle can form; `AlwaysSettledOnce`: a connection
that was answered or dropped is never taken up again; `AlwaysReturnsDrained`: when
`shutdown` has returned nothing is queued, waiting or being served.

**`RateLimitProofs`** (`TypeOK`, `GuessesBounded`, `RefusalDoesNotProlong`).
`GuessesBounded` compares any two grants; the invariant has to know when the current
window was *really* opened, whatever the clock said. `LastWindow` names that time and
how many of the last grants are of that window; those before are of the window before,
and anything older lies a window's length back.

**`ExchangeProofs`** (`ReadsWhatWasSent`, `OneReading`, `WorkerFreed`,
`AnswerIsRead`). While the head is read, `HeadOK` says that it is what was consumed and
holds no terminator; with that, going back over three bytes finds the first terminator
of the stream wherever the reads were cut (`SearchFinds`). `ReadOK` says that the head
then ends at that terminator, was accepted, and that the body is what follows. `TimeOK`
bounds the clock by phase, which is `WorkerFreed`: while the answer goes out, by a write
timeout for every byte written, since every write but the last took one at least.
`PhaseOK` says what is left to write in each phase. `ClientOK` says that while
`ls-http`'s client waits, no time passes, that its answer is written whole, and that a
connection closed on it has nothing unread or was cut by more than `drain` clears, unless
a refusal found no room; it needs `ClientAssumption`,
that `Client::send` writes one whole request. `OneReading` is an induction over the
bytes of the head (`CleanHead`): the header loop knows every length and host it has
passed, and without a bare LF the only empty line is the last.

**`CliProofs`** (`ExitTellsEffect`, `TargetIsPinned`, `TokensAreWhole`,
`LogoutLasts`). `EffectOK` follows a run from its call to its exit; `TokensOK` says that
a token in the file is of a login that is over, so nobody stores it again after a
logout; `HalfwayOK` and `ResolvedOK` carry the two halves of a pin from one read to the
next as long as no other run re-pins. `PinFileOK` says what overlapping writers leave: a
pair that was pinned, or, once `mixed`, halves that each were; `HalvesOK` keeps this of
what a run has read.

**`FormatsProofs`** (`TimesAreExact`, `SpelledOnce`, `NamesNeedNoEscape`,
`ExportImports`, `RecordsReadBack`, `OpensInItsSlotOnly`, and three results no run
states). Here the
machine is trivial, it only feeds input, and what had to be proved is what the functions
compute for input of every length. Induction is over sets of naturals (`UpTo`), as in
`VaultProofs`; of a recursive function it is shown that some function satisfies its
equation, and then what every such function is at each place.

* *Calendar.* Every day number has one place in a cycle of 400 years that begins in
  March: a century, a span of four years, a year, a day (`EraParts`). For each the
  code's divisions give back these parts (`YearOfEra`), and the reference calendar
  counts the same days, so `civil_from_days` is the date whose `DayNumber` that is.
  `EveryClockReadsBack` states it for every day and second, the digits of the written
  form included; the walk of the run follows.
* *Sequences laid end to end.* `FlattenLays` says where each piece of a flattened
  sequence lies. With it base64 and hexadecimal are read group by group: a group of
  three bytes and one of four characters are the same number (`Word8`, `Word6`), and
  the short last groups are cases of their own, where the unused bits are what makes
  the spelling unique. A printed share is made of both, and any one-place change is
  either in the checksum's case or breaks the checksum.
* *Contexts.* A field is preceded by its length, so two contexts that agree as bytes
  agree field by field from the first on (`ConcatApart`, `AadApart`).
* *Names.* Without `%`, `?` and `/` a name passes decoding and splitting as it is.
* *`.env` files.* Both readers, of lines (`lines`) and of escapes (`unescape`), go one
  character at a time; after each whole line, and after each whole escape, they hold the
  lines or characters written so far and nothing else (`LinesReadBack`,
  `UnescapesPieces`). A line that was written holds no line end, begins and ends with
  something visible, and its first `=` follows the key (`LineReadBack`).
  `EveryExportImports` is for any number of pairs and values of any length.
* *Records.* The two tables agree row by row (`Tables`); a field that is as it was
  written is read as itself (`ReadsIntact`), any other is refused or, where optional and
  gone, none (`ReadsSpoilt`). `EveryRecordReadsBack` holds for records with any texts,
  any bytes, and the times of any clock; the run's samples are instances.

The proofs corrected the models. In `Cli` and `Exchange` arms of a `CASE` overlapped,
which TLC resolves by order and the language does not; they are conditionals now.
`OneReading` was false for heads with a bare LF (section 6); a stream that
shows it was added to the run. `Folded` and the records of a bulk write in `Vault` are
functions, and assumptions that the instances satisfied silently are stated. The tables
of `Records`, the splitting of paths in `Encoding` and the readers of `Dotenv` are
functions for the same reason.

Only model-checked:

* `UnsealHappens`, `QueuedIsAnswered`, `ShutdownReturns`: liveness under fairness is
  out of the proof system's reach.
* `ThresholdDecides` and `ReadsTheGrammar`: Shamir's field is built of bit operations, and
  the reader of JSON is recursive.
* That `Log` and the other modules compose: `Seal` and `Vault` each have a store of
  their own that takes `DurableLog`'s steps.

## 6. Where the code and its documents disagree

Three runs state a sentence of the documents as a property and TLC finds it
violated; `PROJECT.json` quotes the sentences.

* `seal_handed`: the new shares can be lost after the new file is live.
* `exchange_slow`: `WRITE_TIMEOUT` is said to be how long a response may take, and it is
  how long one write may; a peer that goes on reading a little keeps the worker for
  several of them.
* `vault_bulk`: a value between the two size limits (what `check_secret` admits
  and what a sealed record holds) stops a batch halfway, and the store stays open
  to writes.

Smaller observations, visible in the models or met while reading, without a run of
their own:

* Store: a header cut short by a crash cannot be opened again (`OpenRefused`); where a
  file system extends a file with zeros before its data, `scan` refuses the whole file
  (`log.rs` 337); the
  directory entry of a new store is never flushed (`EntryCreated`); a record whose
  flush failed can be replayed into memory and be lost to a power loss afterwards, so
  memory can run ahead of what survives (the second disjunct of `MemoryIsReplay`).
* Rekey: when the directory flush after the rename fails, which is only logged
  (`log.rs` 233), the server goes on, and everything it acknowledges from then on, a
  revocation too, is undone by a power loss that brings the old file back, which only
  the retired shares open (the window of `DeadStayDead` and `AcknowledgedStands`). A process killed between the
  two leaves the rename unflushed as well, and `Log::open` never flushes a directory; but
  the shares of that rekey are lost with the process, so nothing can be acknowledged
  afterwards.
* Audit: deleting a secret that is not there (`vault.rs` 1016) and a refused batch
  (`api.rs` 517) leave no record, where `docs/usage.md` 144 speaks of every outcome.
* Records: a token record without `expires_at` reads as one that never expires
  (`event.rs` 478); this build always writes the field (`RecordsReadBack`).
* Accounts: the root token may revoke itself before it made the first account, after
  which nobody can make one (`vault.rs` 658).
* API: a `ttl_seconds` that is not an integer is taken as absent, so the token never
  expires (`api.rs` 371).
* Limiter: a full table refuses newcomers (`Allow`) where its comment speaks of
  forgetting the oldest.
* HTTP: `strip_cr` "require[s] CRLF line endings" (`request.rs` 225), but an empty line
  may end in a bare LF. The header loop stops there, and what follows it, up to the
  terminator, is part of the head and never looked at: a second length, or a framing
  header, among it. `OneReading` leaves such heads out; without that exception the last
  but one of `Others` in `MCExchange` violates it.
* HTTP: the deadline is looked at between reads, so a request may be taken up to two
  deadlines after it began (`WorkerFreed`); there is no deadline for the whole answer; a
  refusal written to a client that is itself still writing waits for it when the network
  has no room (`Cramped`); a read that times out in the body answers
  400, in the head 408; what is left of a refused body beyond `MAX_DRAIN` may cost the
  client its refusal (the last exception of `AnswerIsRead`); the client refuses answers
  beyond 1 MiB, which lists and the audit trail may outgrow.
* CLI: a `--threshold` or `--shares` that is not a number is taken as 1; `-p`, `-e` and
  `--token` after `lsec run --` are taken by `lsec` itself; the pin is read twice, and two
  overlapping `lsec use` may leave the project of one with the environment of the other
  (the exceptions of `TargetIsPinned`; the second needs texts of different lengths); `logout` says "logged out" when the server could not
  be told (`LogoutLasts` claims the death of the token only when it answered); names
  are put into paths unescaped, which is sound for the names the server admits
  (`NamesNeedNoEscape`).

## 7. Not modelled

* **Cryptography** is ideal: what is sealed under a key opens only under it, and
  tokens, identifiers and checksums are never guessed or repeated. AES-GCM, Argon2 and
  SHA-256 are library code; `password.rs`, `token.rs` and `random.rs` call them.
* **Logging** and what commands print: no other part reads it.
* **The daemon's `main.rs`**: options, open, bind, spawn; its result is the other
  modules' initial state.
* **API details**: host and origin checks, the fields of request bodies, status codes.
  They keep no state. Read-only operations (health, slugs, the audit trail) change
  nothing.
* **Validation** of e-mail addresses and of lengths: predicates of one string.
* A file edited by somebody else; file systems that leave zeros where data should be;
  a flush that fails once and then claims success; a write of a few bytes to the token
  or pin file that a full disk stops halfway.
* Numbers in JSON are kept as text: their conversion to `i64` or `f64` is not followed.

## 8. Plan

The system is modelled as far as section 7 says, and the safety properties of the
state machines are proved. What is left, in this order:

1. More results on the existing invariants, in the manner of `AlwaysSettledOnce`:
   `Exchange` answers a connection once and reads nothing twice; `Vault`'s file only
   grows while a vault is up; a `Seal` generation is never drawn twice.
