---------------------------- MODULE ServerProofs ----------------------------
(* Proofs about the server's threads, for every pool of workers, every set of *)
(* connections and every depth of the queue.                                  *)
EXTENDS Server, SequenceTheorems, TLAPS

-----------------------------------------------------------------------------
(* The inductive invariant *)

Busy == {"reading", "handling", "limiting", "waiting", "working", "clearing", "writing"}

\* Each lock is held by the worker that is at a place under it, and by no other.
LocksOK ==
    \A w \in Workers :
        /\ at[w] = "receiving" <=> receiver = w
        /\ at[w] = "limiting" <=> limiter = w
        /\ at[w] \in {"working", "clearing"} <=> vault = w

\* Memory that lags is behind a poisoned lock that nobody holds: the next to take
\* it drops that memory first.
MemoryOK == stale => poisoned /\ vault = Nobody

\* A worker serves a connection exactly while it is at work on it, and that
\* connection is its own.
JobsOK ==
    /\ \A w \in Workers : job[w] \in Clients <=> at[w] \in Busy
    /\ \A w \in Workers : job[w] \in Clients => conn[job[w]] = "held"
    /\ \A v, w \in Workers : job[v] = job[w] /\ job[v] \in Clients => v = w

\* The queue holds the connections that are queued, each in one place.
QueueOK ==
    /\ \A i \in 1 .. Len(queue) : conn[queue[i]] = "queued"
    /\ \A i, j \in 1 .. Len(queue) : queue[i] = queue[j] => i = j
    /\ \A c \in Clients : conn[c] = "queued" => \E i \in 1 .. Len(queue) : queue[i] = c

\* A connection that is held is held by a worker.
HeldOK == \A c \in Clients : conn[c] = "held" => \E w \in Workers : job[w] = c

\* After the acceptor has gone nothing waits for it, and the workers that are
\* done found the queue empty.
StoppedOK ==
    /\ acceptor = "stopped" => \A c \in Clients : conn[c] # "backlog"
    /\ \A w \in Workers : at[w] = "done" => acceptor = "stopped" /\ queue = <<>>

\* shutdown() has returned only when every thread has.
ReturnedOK ==
    closer = "returned" => acceptor = "stopped" /\ \A w \in Workers : at[w] = "done"

IInv ==
    /\ TypeOK /\ LocksOK /\ MemoryOK
    /\ JobsOK /\ QueueOK /\ HeldOK
    /\ StoppedOK /\ ReturnedOK

-----------------------------------------------------------------------------
(* The acceptor and shutdown() *)

LEMMA InitOK == Init => IInv
<1> SUFFICES ASSUME Init PROVE IInv
  OBVIOUS
<1> USE ServerAssumption DEF Init
<1>1. TypeOK
  <2>1. queue \in Seq(Clients) /\ Len(queue) <= QueueDepth
    BY SMT
  <2>2. {running, wake, poisoned, unsealed, stale} \subseteq BOOLEAN
    BY Zenon
  <2> QED BY <2>1, <2>2 DEF TypeOK
<1>2. LocksOK /\ MemoryOK
  BY DEF LocksOK, MemoryOK
<1>3. JobsOK /\ QueueOK /\ HeldOK
  BY DEF JobsOK, QueueOK, HeldOK, Busy
<1>4. StoppedOK /\ ReturnedOK
  BY DEF StoppedOK, ReturnedOK
<1> QED BY <1>1, <1>2, <1>3, <1>4 DEF IInv

\* The acceptor's and the closer's steps leave the locks alone.
LEMMA LocksUntouched ==
    ASSUME IInv, UNCHANGED <<pool, locks>>
    PROVE  (LocksOK /\ MemoryOK)'
BY DEF IInv, LocksOK, MemoryOK, pool, locks

LEMMA ConnectOK == ASSUME NEW c \in Clients, IInv, Connect(c) PROVE IInv'
<1> USE DEF IInv, Connect, pool, locks
<1>1. TypeOK'
  BY DEF TypeOK
<1>2. (LocksOK /\ MemoryOK)'
  BY LocksUntouched
<1>3. JobsOK'
  BY DEF TypeOK, JobsOK
<1>4. QueueOK'
  BY DEF TypeOK, QueueOK
<1>5. HeldOK'
  BY DEF TypeOK, HeldOK
<1>6. (StoppedOK /\ ReturnedOK)'
  BY DEF TypeOK, StoppedOK, ReturnedOK
<1> QED BY <1>1, <1>2, <1>3, <1>4, <1>5, <1>6

LEMMA AcceptOK == ASSUME NEW c \in Clients, IInv, Accept(c) PROVE IInv'
<1> USE DEF IInv, Accept, pool, locks
<1>1. (LocksOK /\ MemoryOK)'
  BY LocksUntouched
<1>2. (JobsOK /\ HeldOK)'
  BY DEF TypeOK, JobsOK, HeldOK
<1>3. (StoppedOK /\ ReturnedOK)'
  BY DEF TypeOK, StoppedOK, ReturnedOK
<1>4. CASE queue' = Append(queue, c) /\ Len(queue) < QueueDepth
           /\ conn' = [conn EXCEPT ![c] = "queued"]
  <2>1. queue \in Seq(Clients)
    BY DEF TypeOK
  <2>2. /\ queue' \in Seq(Clients)
        /\ Len(queue') = Len(queue) + 1
        /\ \A i \in 1 .. Len(queue) : queue'[i] = queue[i]
        /\ queue'[Len(queue) + 1] = c
    BY <1>4, <2>1, AppendProperties
  <2>3. TypeOK'
    BY <1>4, <2>2, LenProperties, ServerAssumption DEF TypeOK
  <2>4. QueueOK'
    <3>1. Len(queue) \in Nat /\ conn'[c] = "queued"
      BY <1>4, <2>1, LenProperties DEF TypeOK
    <3>2. \A i \in 1 .. Len(queue) : queue[i] \in Clients /\ queue[i] # c
      BY <2>1 DEF QueueOK
    <3>3. \A i \in 1 .. Len(queue') : i \in 1 .. Len(queue) \/ i = Len(queue) + 1
      BY <2>2, <3>1
    <3>4. \A i \in 1 .. Len(queue') : conn'[queue'[i]] = "queued"
      BY <1>4, <2>2, <3>1, <3>2, <3>3 DEF TypeOK, QueueOK
    <3>5. \A i, j \in 1 .. Len(queue') : queue'[i] = queue'[j] => i = j
      BY <2>2, <3>1, <3>2, <3>3 DEF QueueOK
    <3>6. ASSUME NEW d \in Clients, conn'[d] = "queued"
          PROVE  \E i \in 1 .. Len(queue') : queue'[i] = d
      <4>1. CASE d = c
        BY <2>2, <3>1, <4>1
      <4>2. CASE d # c
        <5>1. PICK i \in 1 .. Len(queue) : queue[i] = d
          BY <1>4, <3>6, <4>2 DEF TypeOK, QueueOK
        <5> QED BY <2>2, <3>1, <5>1
      <4> QED BY <4>1, <4>2
    <3> QED BY <3>4, <3>5, <3>6 DEF QueueOK
  <2> QED BY <1>1, <1>2, <1>3, <2>3, <2>4
<1>5. CASE UNCHANGED queue /\ conn' = [conn EXCEPT ![c] = "dropped"]
  <2>1. TypeOK'
    BY <1>5 DEF TypeOK
  <2>2. QueueOK'
    BY <1>5 DEF TypeOK, QueueOK
  <2> QED BY <1>1, <1>2, <1>3, <2>1, <2>2
<1> QED BY <1>4, <1>5

LEMMA AcceptorStopsOK == IInv /\ AcceptorStops => IInv'
<1> SUFFICES ASSUME IInv, AcceptorStops PROVE IInv'
  OBVIOUS
<1> USE DEF IInv, AcceptorStops, pool, locks
<1>1. TypeOK'
  BY DEF TypeOK
<1>2. (LocksOK /\ MemoryOK)'
  BY LocksUntouched
<1>3. (JobsOK /\ HeldOK)'
  BY DEF TypeOK, JobsOK, HeldOK
<1>4. QueueOK'
  BY DEF TypeOK, QueueOK
<1>5. (StoppedOK /\ ReturnedOK)'
  BY DEF TypeOK, StoppedOK, ReturnedOK
<1> QED BY <1>1, <1>2, <1>3, <1>4, <1>5

LEMMA ShutdownOK == IInv /\ (ShutdownFlag \/ ShutdownWake \/ ShutdownJoin) => IInv'
<1> SUFFICES ASSUME IInv, ShutdownFlag \/ ShutdownWake \/ ShutdownJoin PROVE IInv'
  OBVIOUS
<1> USE DEF IInv, ShutdownFlag, ShutdownWake, ShutdownJoin, pool, locks
<1>1. TypeOK'
  <2>1. {running, wake, poisoned, unsealed, stale}' \subseteq BOOLEAN
    BY Zenon DEF TypeOK
  <2> QED BY <2>1 DEF TypeOK
<1>2. (LocksOK /\ MemoryOK)'
  BY LocksUntouched
<1>3. (JobsOK /\ QueueOK /\ HeldOK)'
  BY DEF JobsOK, QueueOK, HeldOK
<1>4. (StoppedOK /\ ReturnedOK)'
  BY DEF StoppedOK, ReturnedOK
<1> QED BY <1>1, <1>2, <1>3, <1>4

-----------------------------------------------------------------------------
(* The workers *)

\* A worker that goes from one place of its work to another keeps its job, and
\* nothing of the channel changes.
LEMMA MovesOK ==
    ASSUME IInv, NEW w \in Workers, NEW place \in Busy,
           at[w] \in Busy, Goes(w, place), UNCHANGED <<channel, job>>
    PROVE  (JobsOK /\ QueueOK /\ HeldOK /\ StoppedOK /\ ReturnedOK)'
<1> USE DEF IInv, Goes, channel
<1>1. JobsOK'
  BY DEF TypeOK, JobsOK, Busy
<1>2. (QueueOK /\ HeldOK)'
  BY DEF QueueOK, HeldOK
<1>3. (StoppedOK /\ ReturnedOK)'
  BY DEF TypeOK, StoppedOK, ReturnedOK, Busy
<1> QED BY <1>1, <1>2, <1>3

\* A worker that leaves its connection answered or dropped holds no lock.
LEMMA LeavesOK ==
    ASSUME IInv, NEW w \in Workers, NEW how \in {"answered", "dropped"},
           at[w] \in {"reading", "writing"}, Leaves(w, how)
    PROVE  IInv'
<1> USE ServerAssumption DEF IInv, Leaves, Goes, locks
<1>0. job[w] \in Clients /\ conn[job[w]] = "held"
  BY DEF JobsOK, Busy
<1>1. TypeOK'
  BY <1>0 DEF TypeOK
<1>2. (LocksOK /\ MemoryOK)'
  BY DEF TypeOK, LocksOK, MemoryOK
<1>3. JobsOK'
  BY <1>0 DEF TypeOK, JobsOK, Busy
<1>4. QueueOK'
  BY <1>0 DEF TypeOK, QueueOK
<1>5. HeldOK'
  BY <1>0 DEF TypeOK, HeldOK
<1>6. (StoppedOK /\ ReturnedOK)'
  BY <1>0 DEF TypeOK, StoppedOK, ReturnedOK
<1> QED BY <1>1, <1>2, <1>3, <1>4, <1>5, <1>6

LEMMA TakeReceiverOK == ASSUME NEW w \in Workers, IInv, TakeReceiver(w) PROVE IInv'
<1> USE ServerAssumption DEF IInv, TakeReceiver, Goes, channel, locks
<1>1. TypeOK'
  BY DEF TypeOK
<1>2. (LocksOK /\ MemoryOK)'
  BY DEF TypeOK, LocksOK, MemoryOK
<1>3. (JobsOK /\ QueueOK /\ HeldOK)'
  BY DEF TypeOK, JobsOK, QueueOK, HeldOK, Busy
<1>4. (StoppedOK /\ ReturnedOK)'
  BY DEF TypeOK, StoppedOK, ReturnedOK
<1> QED BY <1>1, <1>2, <1>3, <1>4

LEMMA ReceiveOK == ASSUME NEW w \in Workers, IInv, Receive(w) PROVE IInv'
<1> USE ServerAssumption DEF IInv, Receive, Goes, locks
<1>1. (LocksOK /\ MemoryOK)'
  BY DEF TypeOK, LocksOK, MemoryOK
<1>2. CASE queue # <<>> /\ Goes(w, "reading")
  <2> DEFINE h == Head(queue)
  <2>1. queue \in Seq(Clients)
    BY DEF TypeOK
  <2>2. /\ h \in Clients /\ h = queue[1]
        /\ queue' \in Seq(Clients)
        /\ Len(queue') = Len(queue) - 1
        /\ \A i \in 1 .. Len(queue') : queue'[i] = queue[i + 1]
        /\ Len(queue) \in Nat \ {0}
    <3>1. queue' = Tail(queue) /\ queue # <<>>
      BY <1>2
    <3> QED BY <2>1, <3>1, HeadTailProperties, LenProperties, EmptySeq
  <2>3. conn[h] = "queued"
    BY <2>2 DEF QueueOK
  <2>4. /\ conn' = [conn EXCEPT ![h] = "held"]
        /\ job' = [job EXCEPT ![w] = h]
        /\ at' = [at EXCEPT ![w] = "reading"]
        /\ UNCHANGED <<acceptor, closer>>
    BY <1>2
  <2> HIDE DEF h
  <2>5. TypeOK'
    BY <2>2, <2>4 DEF TypeOK
  <2>6. JobsOK'
    <3>1. \A v \in Workers : job[v] # h
      BY <2>2, <2>3 DEF JobsOK
    <3> QED BY <2>2, <2>4, <3>1 DEF TypeOK, JobsOK, Busy
  <2>7. QueueOK'
    <3>1. \A i \in 1 .. Len(queue') : queue'[i] = queue[i + 1] /\ i + 1 \in 1 .. Len(queue)
      BY <2>2
    <3>2. \A i \in 1 .. Len(queue') : conn'[queue'[i]] = "queued"
      <4> TAKE i \in 1 .. Len(queue')
      <4>1. queue[i + 1] # queue[1] /\ queue[i + 1] \in Clients
        BY <2>1, <2>2, <3>1 DEF QueueOK
      <4> QED BY <2>2, <2>4, <3>1, <4>1 DEF TypeOK, QueueOK
    <3>3. \A i, j \in 1 .. Len(queue') : queue'[i] = queue'[j] => i = j
      BY <2>2, <3>1 DEF QueueOK
    <3>4. ASSUME NEW c \in Clients, conn'[c] = "queued"
          PROVE  \E i \in 1 .. Len(queue') : queue'[i] = c
      <4>1. conn[c] = "queued" /\ c # h
        BY <2>2, <2>4, <3>4 DEF TypeOK
      <4>2. PICK i \in 1 .. Len(queue) : queue[i] = c
        BY <4>1 DEF QueueOK
      <4>3. i # 1 /\ i - 1 \in 1 .. Len(queue')
        BY <2>2, <4>1, <4>2
      <4>4. queue'[i - 1] = c
        BY <2>2, <4>2, <4>3
      <4> QED BY <4>3, <4>4
    <3> QED BY <3>2, <3>3, <3>4 DEF QueueOK
  <2>8. HeldOK'
    BY <2>2, <2>3, <2>4 DEF TypeOK, HeldOK, JobsOK, Busy
  <2>9. (StoppedOK /\ ReturnedOK)'
    BY <1>2, <2>2, <2>3, <2>4 DEF TypeOK, StoppedOK, ReturnedOK
  <2> QED BY <1>1, <2>5, <2>6, <2>7, <2>8, <2>9
<1>3. CASE queue = <<>> /\ Goes(w, "done")
  <2>1. TypeOK'
    BY <1>3 DEF TypeOK
  <2>2. (JobsOK /\ QueueOK /\ HeldOK)'
    BY <1>3 DEF TypeOK, JobsOK, QueueOK, HeldOK, Busy
  <2>3. (StoppedOK /\ ReturnedOK)'
    BY <1>3 DEF TypeOK, StoppedOK, ReturnedOK
  <2> QED BY <1>1, <2>1, <2>2, <2>3
<1> QED BY <1>2, <1>3

LEMMA ReadRequestOK == ASSUME NEW w \in Workers, IInv, ReadRequest(w) PROVE IInv'
<1>1. CASE Leaves(w, "dropped")
  BY <1>1, LeavesOK DEF ReadRequest
<1>2. ASSUME NEW place \in {"handling", "writing"}, Goes(w, place),
             UNCHANGED <<channel, job, receiver, locks>>
      PROVE  IInv'
  <2> USE <1>2 DEF IInv, ReadRequest, Goes
  <2>1. (JobsOK /\ QueueOK /\ HeldOK /\ StoppedOK /\ ReturnedOK)'
    BY MovesOK DEF Busy
  <2>2. TypeOK'
    BY DEF TypeOK, channel, locks
  <2>3. (LocksOK /\ MemoryOK)'
    BY DEF TypeOK, LocksOK, MemoryOK, locks
  <2> QED BY <2>1, <2>2, <2>3
<1> QED BY <1>1, <1>2 DEF ReadRequest

LEMMA RouteOK == ASSUME NEW w \in Workers, IInv, Route(w) PROVE IInv'
<1> USE ServerAssumption DEF IInv, Route
<1>1. (JobsOK /\ QueueOK /\ HeldOK /\ StoppedOK /\ ReturnedOK)'
  BY MovesOK DEF Busy
<1>2. TypeOK'
  BY DEF TypeOK, MemoryOK, LocksOK, Goes, channel
<1>3. LocksOK'
  BY DEF TypeOK, LocksOK, Goes
<1>4. MemoryOK'
  BY DEF TypeOK, LocksOK, MemoryOK
<1> QED BY <1>1, <1>2, <1>3, <1>4

LEMMA LimitOK == ASSUME NEW w \in Workers, IInv, Limit(w) PROVE IInv'
<1> USE ServerAssumption DEF IInv, Limit
<1>1. (JobsOK /\ QueueOK /\ HeldOK /\ StoppedOK /\ ReturnedOK)'
  BY MovesOK DEF Busy
<1>2. TypeOK'
  BY DEF TypeOK, MemoryOK, LocksOK, Goes, channel
<1>3. LocksOK'
  BY DEF TypeOK, LocksOK, Goes
<1>4. MemoryOK'
  BY DEF TypeOK, LocksOK, MemoryOK
<1> QED BY <1>1, <1>2, <1>3, <1>4

LEMMA LockVaultOK == ASSUME NEW w \in Workers, IInv, LockVault(w) PROVE IInv'
<1> USE ServerAssumption DEF IInv, LockVault
<1>1. (JobsOK /\ QueueOK /\ HeldOK /\ StoppedOK /\ ReturnedOK)'
  BY MovesOK DEF Busy
<1>2. TypeOK'
  BY DEF TypeOK, MemoryOK, LocksOK, Goes, channel
<1>3. LocksOK'
  BY DEF TypeOK, LocksOK, Goes
<1>4. MemoryOK'
  BY DEF TypeOK, LocksOK, MemoryOK
<1> QED BY <1>1, <1>2, <1>3, <1>4

LEMMA WorkOK == ASSUME NEW w \in Workers, IInv, Work(w) PROVE IInv'
<1> USE ServerAssumption DEF IInv, Work
<1>1. (JobsOK /\ QueueOK /\ HeldOK /\ StoppedOK /\ ReturnedOK)'
  BY MovesOK DEF Busy
<1>2. TypeOK'
  <2>1. {running, wake, poisoned, unsealed, stale}' \subseteq BOOLEAN /\ (stale => poisoned)'
    <3>1. (stale => poisoned)'
      BY DEF TypeOK
    <3>2. {running, wake, poisoned, unsealed, stale} \subseteq BOOLEAN
      BY DEF TypeOK
    <3>3. running' \in BOOLEAN /\ wake' \in BOOLEAN
      BY <3>2, Zenon DEF channel
    <3>4. poisoned' \in BOOLEAN
      BY <3>2, Zenon
    <3>5. unsealed' \in BOOLEAN
      BY <3>2, Zenon
    <3>6. stale' \in BOOLEAN
      BY <3>2, Zenon
    <3> QED BY <3>1, <3>3, <3>4, <3>5, <3>6, Zenon
  <2> QED BY <2>1 DEF TypeOK, Goes, channel
<1>3. LocksOK'
  BY DEF TypeOK, LocksOK, Goes
<1>4. MemoryOK'
  BY DEF TypeOK, LocksOK, MemoryOK
<1> QED BY <1>1, <1>2, <1>3, <1>4

LEMMA ClearOK == ASSUME NEW w \in Workers, IInv, Clear(w) PROVE IInv'
<1> USE ServerAssumption DEF IInv, Clear
<1>1. (JobsOK /\ QueueOK /\ HeldOK /\ StoppedOK /\ ReturnedOK)'
  BY MovesOK DEF Busy
<1>2. TypeOK'
  BY DEF TypeOK, MemoryOK, LocksOK, Goes, channel
<1>3. LocksOK'
  BY DEF TypeOK, LocksOK, Goes
<1>4. MemoryOK'
  BY DEF TypeOK, LocksOK, MemoryOK
<1> QED BY <1>1, <1>2, <1>3, <1>4

LEMMA WriteResponseOK == ASSUME NEW w \in Workers, IInv, WriteResponse(w) PROVE IInv'
BY LeavesOK DEF WriteResponse

LEMMA StutterOK == IInv /\ UNCHANGED vars => IInv'
<1> SUFFICES ASSUME IInv, UNCHANGED vars PROVE IInv'
  OBVIOUS
<1> USE DEF IInv, vars
<1>1. (TypeOK /\ LocksOK /\ MemoryOK)'
  BY DEF TypeOK, LocksOK, MemoryOK
<1>2. (JobsOK /\ QueueOK /\ HeldOK)'
  BY DEF JobsOK, QueueOK, HeldOK
<1>3. (StoppedOK /\ ReturnedOK)'
  BY DEF StoppedOK, ReturnedOK
<1> QED BY <1>1, <1>2, <1>3

LEMMA StepOK == IInv /\ [Next]_vars => IInv'
BY ConnectOK, AcceptOK, AcceptorStopsOK, ShutdownOK, TakeReceiverOK, ReceiveOK,
   ReadRequestOK, RouteOK, LimitOK, LockVaultOK, WorkOK, ClearOK, WriteResponseOK,
   StutterOK
   DEF Next, AcceptorStep, WorkerStep

-----------------------------------------------------------------------------
(* The theorems *)

\* The invariant holds of every behaviour of the threads.
THEOREM Invariance == Spec => []IInv
BY InitOK, StepOK, PTL DEF Spec

\* Every variable keeps its type: the queue never grows past QUEUE_DEPTH, and a
\* worker leaves only a connection it has.
THEOREM TypeCorrect == Spec => []TypeOK
<1>1. IInv => TypeOK
  BY DEF IInv
<1> QED BY <1>1, Invariance, PTL

\* No worker handles a request on memory that a panic left behind the log: lock()
\* in api.rs sees the poison before anyone works, for any number of workers.
THEOREM AlwaysNeverServedStale == Spec => []NeverServedStale
<1>1. IInv => NeverServedStale
  BY ServerAssumption DEF IInv, LocksOK, MemoryOK, NeverServedStale
<1> QED BY <1>1, Invariance, PTL

\* What the locks are for: two workers are never under the same one, and whoever
\* waits for a lock while it holds another waits for the limiter's, whose holder
\* waits for nothing (api.rs, login: allow()'s guard is gone before the vault is
\* asked for, and succeeded() is called under the vault's).
LocksInOrder ==
    /\ \A v, w \in Workers :
          \/ at[v] \in {"receiving", "limiting"} /\ at[w] = at[v]
          \/ at[v] \in {"working", "clearing"} /\ at[w] \in {"working", "clearing"}
          => v = w
    /\ limiter # Nobody => at[limiter] = "limiting" /\ vault # limiter
    /\ vault # Nobody => at[vault] = "working" \/ at[vault] = "clearing"

\* No worker ever waits in a circle: the locks of api.rs and server.rs are taken in order.
THEOREM AlwaysLocksInOrder == Spec => []LocksInOrder
<1>1. IInv => LocksInOrder
  BY ServerAssumption DEF IInv, TypeOK, LocksOK, LocksInOrder
<1> QED BY <1>1, Invariance, PTL

\* A connection is answered or dropped once: what has been settled is never picked
\* up again, by the worker that had it or by another.
SettledOnce ==
    [][\A c \in Clients : conn[c] \in {"answered", "dropped"} => conn'[c] = conn[c]]_vars

\* serve_connection settles each connection once, in every behaviour.
THEOREM AlwaysSettledOnce == Spec => SettledOnce
<1>1. ASSUME IInv, [Next]_vars, NEW c \in Clients, conn[c] \in {"answered", "dropped"}
      PROVE  conn'[c] = conn[c]
  <2> USE DEF IInv
  <2>1. CASE UNCHANGED vars
    BY <2>1 DEF vars
  <2>2. ASSUME NEW d \in Clients, Connect(d) \/ Accept(d) PROVE conn'[c] = conn[c]
    BY <1>1, <2>2 DEF TypeOK, Connect, Accept
  <2>3. CASE AcceptorStops
    BY <1>1, <2>3 DEF TypeOK, AcceptorStops
  <2>4. CASE ShutdownFlag \/ ShutdownWake \/ ShutdownJoin
    BY <2>4 DEF ShutdownFlag, ShutdownWake, ShutdownJoin
  <2>5. ASSUME NEW w \in Workers, Receive(w) PROVE conn'[c] = conn[c]
    <3>1. CASE queue = <<>>
      BY <2>5, <3>1 DEF Receive
    <3>2. CASE queue # <<>>
      <4>1. 1 \in 1 .. Len(queue) /\ Head(queue) = queue[1]
        BY <1>1, <3>2 DEF TypeOK
      <4>2. conn[Head(queue)] = "queued"
        BY <1>1, <4>1 DEF QueueOK
      <4> QED BY <1>1, <2>5, <3>2, <4>2 DEF TypeOK, Receive
    <3> QED BY <3>1, <3>2
  <2>6. ASSUME NEW w \in Workers, NEW how, Leaves(w, how),
               at[w] \in {"reading", "writing"}
        PROVE  conn'[c] = conn[c]
    <3>1. job[w] \in Clients /\ conn[job[w]] = "held"
      BY <1>1, <2>6 DEF JobsOK, Busy
    <3> QED BY <1>1, <2>6, <3>1 DEF TypeOK, Leaves
  <2>7. ASSUME NEW w \in Workers, ReadRequest(w) \/ WriteResponse(w)
        PROVE  conn'[c] = conn[c]
    BY <2>6, <2>7 DEF ReadRequest, WriteResponse, channel
  <2>8. ASSUME NEW w \in Workers,
               \/ TakeReceiver(w) \/ Route(w) \/ Limit(w)
               \/ LockVault(w) \/ Work(w) \/ Clear(w)
        PROVE  conn'[c] = conn[c]
    BY <2>8 DEF TakeReceiver, Route, Limit, LockVault, Work, Clear, channel
  <2> QED BY <1>1, <2>1, <2>2, <2>3, <2>4, <2>5, <2>7, <2>8
          DEF Next, AcceptorStep, WorkerStep
<1>2. IInv /\ [Next]_vars
      => [\A c \in Clients : conn[c] \in {"answered", "dropped"} => conn'[c] = conn[c]]_vars
  BY <1>1
<1> QED BY <1>2, Invariance, PTL DEF Spec, SettledOnce

\* shutdown() returns to a server that owes nobody: every thread has ended, the
\* queue is empty, and no connection is waiting, queued or being served.
ReturnsDrained ==
    closer = "returned" =>
        /\ queue = <<>>
        /\ \A c \in Clients : conn[c] \notin {"backlog", "queued", "held"}

\* shutdown() never returns while a connection is owed something.
THEOREM AlwaysReturnsDrained == Spec => []ReturnsDrained
<1>1. IInv => ReturnsDrained
  <2> SUFFICES ASSUME IInv, closer = "returned"
               PROVE  queue = <<>> /\ \A c \in Clients : conn[c] \notin {"backlog", "queued", "held"}
    BY DEF ReturnsDrained
  <2> USE DEF IInv
  <2>1. acceptor = "stopped" /\ \A w \in Workers : at[w] = "done"
    BY DEF ReturnedOK
  <2>2. queue = <<>> /\ \A c \in Clients : conn[c] # "backlog"
    BY <2>1, ServerAssumption DEF StoppedOK
  <2>3. \A c \in Clients : conn[c] # "queued"
    BY <2>2 DEF QueueOK
  <2>4. \A c \in Clients : conn[c] # "held"
    BY <2>1 DEF HeldOK, JobsOK, Busy
  <2> QED BY <2>2, <2>3, <2>4
<1> QED BY <1>1, Invariance, PTL
=============================================================================
