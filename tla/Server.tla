------------------------------- MODULE Server -------------------------------
(***************************************************************************)
(* The threads of localsecretsd: ls-http's acceptor, its bounded queue and  *)
(* its pool of workers (server.rs), the locks a request takes inside the    *)
(* API (api.rs: guard, lock, login), and shutdown().                        *)
(*                                                                         *)
(* What a request means is Vault's subject.  Of the vault only what the     *)
(* lock protects is kept: whether it is unsealed, and whether memory lags   *)
(* behind the log because a handler panicked between writing and applying.  *)
(* Reads, writes and drains end within their timeouts, so each is a step.   *)
(***************************************************************************)
EXTENDS Integers, Sequences, FiniteSets

CONSTANTS
    Workers,     \* worker threads
    Clients,     \* connections, each made at most once (bound)
    QueueDepth   \* QUEUE_DEPTH

Nobody == "nobody"

ASSUME ServerAssumption ==
    /\ Workers # {} /\ IsFiniteSet(Workers) /\ Nobody \notin Workers
    /\ IsFiniteSet(Clients) /\ Nobody \notin Clients
    /\ QueueDepth \in Nat \ {0}

VARIABLES
    conn,      \* where each connection is
    queue,     \* the channel between acceptor and workers
    running,   \* ServerHandle.running
    acceptor,  \* "accepting" or "stopped", its sender dropped
    wake,      \* shutdown's own connection is waiting to be accepted
    closer,    \* the caller of shutdown()
    at,        \* where each worker is
    job,       \* the connection each worker serves
    receiver,  \* who holds the lock around the channel's receiving end
    vault,     \* who holds the lock around the vault
    limiter,   \* who holds the lock around the login limiter
    poisoned,  \* the vault's lock is poisoned
    unsealed,  \* the vault is unsealed
    stale      \* its memory lags behind its log

channel == <<conn, queue, acceptor, wake, running, closer>>
pool == <<at, job, receiver>>
locks == <<vault, limiter, poisoned, unsealed, stale>>
vars == <<conn, queue, running, acceptor, wake, closer, at, job, receiver,
          vault, limiter, poisoned, unsealed, stale>>

TypeOK ==
    /\ conn \in [Clients -> {"away", "backlog", "queued", "held", "answered", "dropped"}]
    /\ queue \in Seq(Clients) /\ Len(queue) <= QueueDepth
    /\ {running, wake, poisoned, unsealed, stale} \subseteq BOOLEAN
    /\ acceptor \in {"accepting", "stopped"}
    /\ closer \in {"none", "flagged", "joining", "unwoken", "returned"}
    /\ at \in [Workers -> {"idle", "receiving", "reading", "handling", "limiting", "waiting",
                           "working", "clearing", "writing", "done"}]
    /\ job \in [Workers -> Clients \cup {Nobody}]
    /\ {receiver, vault, limiter} \subseteq Workers \cup {Nobody}
    /\ stale => poisoned

Init ==
    /\ conn = [c \in Clients |-> "away"]
    /\ queue = <<>> /\ running = TRUE /\ acceptor = "accepting"
    /\ wake = FALSE /\ closer = "none"
    /\ at = [w \in Workers |-> "idle"] /\ job = [w \in Workers |-> Nobody]
    /\ receiver = Nobody /\ vault = Nobody /\ limiter = Nobody
    /\ poisoned = FALSE /\ unsealed \in BOOLEAN /\ stale = FALSE

-----------------------------------------------------------------------------
(* The acceptor *)

Connect(c) ==
    /\ conn[c] = "away"
    /\ conn' = [conn EXCEPT ![c] = IF acceptor = "stopped" THEN "dropped" ELSE "backlog"]
    /\ UNCHANGED <<queue, running, acceptor, wake, closer, pool, locks>>

\* try_send: a full queue refuses, and the connection is closed.
Accept(c) ==
    /\ acceptor = "accepting"
    /\ running
    /\ conn[c] = "backlog"
    /\ \/ Len(queue) < QueueDepth /\ queue' = Append(queue, c)
          /\ conn' = [conn EXCEPT ![c] = "queued"]
       \/ Len(queue) >= QueueDepth /\ UNCHANGED queue
          /\ conn' = [conn EXCEPT ![c] = "dropped"]
    /\ UNCHANGED <<running, acceptor, wake, closer, pool, locks>>

\* shutdown's connection accepted before the flag was seen would only be queued
\* and found empty; the flag is set before it is made, so it never is.
\* Whatever wakes the loop after the flag ends it: the listener closes, dropping
\* whoever waits, and so does the sending end of the channel.
AcceptorStops ==
    /\ acceptor = "accepting"
    /\ ~running
    /\ wake \/ \E c \in Clients : conn[c] = "backlog"
    /\ acceptor' = "stopped"
    /\ wake' = FALSE
    /\ conn' = [c \in Clients |-> IF conn[c] = "backlog" THEN "dropped" ELSE conn[c]]
    /\ UNCHANGED <<queue, running, closer, pool, locks>>

-----------------------------------------------------------------------------
(* shutdown() *)

ShutdownFlag ==
    /\ closer = "none"
    /\ closer' = "flagged"
    /\ running' = FALSE
    /\ UNCHANGED <<conn, queue, acceptor, wake, pool, locks>>

\* Mutant: nobody wakes the accept loop.
ShutdownQuietly ==
    /\ closer = "flagged"
    /\ closer' = "joining"
    /\ UNCHANGED <<conn, queue, running, acceptor, wake, pool, locks>>

\* The connection that wakes the accept loop; one that cannot be made is ignored.
ShutdownWake ==
    /\ closer = "flagged"
    /\ \/ wake' = (acceptor = "accepting") /\ closer' = "joining"
       \/ UNCHANGED wake /\ closer' = "unwoken"
    /\ UNCHANGED <<conn, queue, running, acceptor, pool, locks>>

ShutdownJoin ==
    /\ closer \in {"joining", "unwoken"}
    /\ acceptor = "stopped"
    /\ \A w \in Workers : at[w] = "done"
    /\ closer' = "returned"
    /\ UNCHANGED <<conn, queue, running, acceptor, wake, pool, locks>>

-----------------------------------------------------------------------------
(* The workers *)

Goes(w, place) == at' = [at EXCEPT ![w] = place]

TakeReceiver(w) ==
    /\ at[w] = "idle"
    /\ receiver = Nobody
    /\ receiver' = w
    /\ Goes(w, "receiving")
    /\ UNCHANGED <<channel, job, locks>>

\* recv() blocks holding the lock; it fails only when the sender is gone and the
\* queue is empty.
Receive(w) ==
    /\ at[w] = "receiving"
    /\ receiver' = Nobody
    /\ \/ /\ queue # <<>>
          /\ queue' = Tail(queue)
          /\ conn' = [conn EXCEPT ![Head(queue)] = "held"]
          /\ job' = [job EXCEPT ![w] = Head(queue)]
          /\ Goes(w, "reading")
       \/ /\ queue = <<>>
          /\ acceptor = "stopped"
          /\ Goes(w, "done")
          /\ UNCHANGED <<queue, conn, job>>
    /\ UNCHANGED <<running, acceptor, wake, closer, locks>>

Leaves(w, how) ==
    /\ conn' = [conn EXCEPT ![job[w]] = how]
    /\ job' = [job EXCEPT ![w] = Nobody]
    /\ Goes(w, "idle")
    /\ UNCHANGED <<queue, running, acceptor, wake, closer, receiver, locks>>

\* Request::read: a request; a refusal to be written and drained; or nothing.
ReadRequest(w) ==
    /\ at[w] = "reading"
    /\ \/ /\ \E place \in {"handling", "writing"} : Goes(w, place)
          /\ UNCHANGED <<channel, job, receiver, locks>>
       \/ Leaves(w, "dropped")

\* Routing: most requests want the vault, a login passes the limiter first, and
\* one that is refused outright wants neither.
Route(w) ==
    /\ at[w] = "handling"
    /\ \/ Goes(w, "waiting") /\ UNCHANGED limiter
       \/ Goes(w, "writing") /\ UNCHANGED limiter
       \/ limiter = Nobody /\ limiter' = w /\ Goes(w, "limiting")
    /\ UNCHANGED <<channel, job, receiver, vault, poisoned, unsealed, stale>>

\* Mutant: the limiter's guard lives on while the login waits for the vault.
LimitHolding(w) ==
    /\ at[w] = "limiting"
    /\ Goes(w, "waiting")
    /\ UNCHANGED <<channel, job, receiver, locks>>

\* login: allow(), whose guard is gone before the vault is asked for.
Limit(w) ==
    /\ at[w] = "limiting"
    /\ limiter' = Nobody
    /\ \E place \in {"waiting", "writing"} : Goes(w, place)
    /\ UNCHANGED <<channel, job, receiver, vault, poisoned, unsealed, stale>>

\* Mutant: the poison is cleared and nothing else is done.
LockVaultAnyway(w) ==
    /\ at[w] = "waiting"
    /\ vault = Nobody
    /\ vault' = w
    /\ Goes(w, "working")
    /\ poisoned' = FALSE
    /\ UNCHANGED <<channel, job, receiver, limiter, unsealed, stale>>

\* lock(): the acquisition itself says whether the last holder panicked, and then
\* the vault is sealed, which drops its memory.
LockVault(w) ==
    /\ at[w] = "waiting"
    /\ vault = Nobody
    /\ vault' = w
    /\ Goes(w, "working")
    /\ poisoned' = FALSE
    /\ unsealed' = (unsealed /\ ~poisoned)
    /\ stale' = (stale /\ ~poisoned)
    /\ UNCHANGED <<channel, job, receiver, limiter>>

\* The handler's work under the lock: it may seal or unseal (replaying the log),
\* a login that succeeds goes back to the limiter, still holding the vault, and
\* a panic is caught, leaving the lock poisoned and perhaps memory behind.
Work(w) ==
    /\ at[w] = "working"
    /\ \/ /\ Goes(w, "writing")
          /\ vault' = Nobody
          /\ unsealed' \in BOOLEAN
          /\ stale' = (stale /\ unsealed')
          /\ UNCHANGED poisoned
       \/ /\ unsealed
          /\ Goes(w, "clearing")
          /\ UNCHANGED <<vault, unsealed, stale, poisoned>>
       \/ /\ Goes(w, "writing")
          /\ vault' = Nobody
          /\ poisoned' = TRUE
          /\ stale' \in {stale, unsealed}
          /\ UNCHANGED unsealed
    /\ UNCHANGED <<channel, job, receiver, limiter>>

\* login: succeeded(), then both guards go.
Clear(w) ==
    /\ at[w] = "clearing"
    /\ limiter = Nobody
    /\ vault' = Nobody
    /\ Goes(w, "writing")
    /\ UNCHANGED <<channel, job, receiver, limiter, poisoned, unsealed, stale>>

\* The response is written, its result ignored, and a refused request drained.
WriteResponse(w) == at[w] = "writing" /\ Leaves(w, "answered")

WorkerStep(w) ==
    \/ TakeReceiver(w) \/ Receive(w) \/ ReadRequest(w) \/ Route(w) \/ Limit(w)
    \/ LockVault(w) \/ Work(w) \/ Clear(w) \/ WriteResponse(w)

AcceptorStep == (\E c \in Clients : Accept(c)) \/ AcceptorStops

Next ==
    \/ \E c \in Clients : Connect(c)
    \/ AcceptorStep
    \/ ShutdownFlag \/ ShutdownWake \/ ShutdownJoin
    \/ \E w \in Workers : WorkerStep(w)

Spec == Init /\ [][Next]_vars

\* Threads run, and every blocking call but accept, recv and lock has a timeout.
Fairness ==
    /\ WF_vars(AcceptorStep)
    /\ WF_vars(ShutdownWake) /\ WF_vars(ShutdownJoin)
    /\ \A w \in Workers : WF_vars(WorkerStep(w))

FairSpec == Spec /\ Fairness

-----------------------------------------------------------------------------
(* Properties *)

\* No request is served from memory that a panic left behind the log, whichever
\* worker was waiting for the lock, and since when (api.rs, lock()).
NeverServedStale ==
    \A w \in Workers : at[w] \in {"working", "clearing"} => vault = w /\ ~(unsealed /\ stale)

\* A connection that got into the queue is answered or, having sent nothing,
\* closed, though workers panic, wait for each other's locks and the server is
\* shut down meanwhile: no lock is waited for in a circle, no panic costs a
\* worker, and the queue is emptied before the workers go.
QueuedIsAnswered ==
    \A c \in Clients : conn[c] = "queued" ~> conn[c] \in {"answered", "dropped"}

\* shutdown() returns once its connection has been made: the accept loop is woken,
\* whatever else arrives in between, and every worker comes to its end.
ShutdownReturns == closer = "joining" ~> closer = "returned"
=============================================================================
