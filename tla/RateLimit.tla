----------------------------- MODULE RateLimit -----------------------------
(***************************************************************************)
(* The fixed-window limiter of ls-server (rate_limit.rs) in front of logins *)
(* and, with a budget of its own, of the unauthenticated ceremonies.  Each  *)
(* call runs under the limiter's lock.  A key is an address after           *)
(* normalise().  The wall clock may be set back, once; it is not set forward. *)
(***************************************************************************)
EXTENDS Integers, Sequences, FiniteSets, Functions

CONSTANTS
    Addresses,    \* what attempts are counted by
    Budget,       \* attempts allowed in a window (MAX_ATTEMPTS)
    Window,       \* its length (WINDOW_SECONDS)
    MaxTracked,   \* windows kept at once (MAX_TRACKED)
    MaxTime,      \* bound: the time that passes
    MaxAttempts   \* bound: attempts in one window

ASSUME RateLimitAssumption ==
    /\ Budget \in Nat /\ Window \in Nat \ {0} /\ MaxTracked \in Nat \ {0}
    /\ MaxTime \in Nat /\ MaxAttempts \in Nat

VARIABLES
    windows,   \* RateLimiter.windows
    now,       \* the wall clock, which is all the limiter sees
    elapsed,   \* ghost: the time that has really passed
    asked,     \* the last call: whose, and what was answered
    granted    \* ghost: when each address was allowed, since it last succeeded

vars == <<windows, now, elapsed, asked, granted>>

NoCall == [key |-> "none", allowed |-> FALSE]

\* Varying the address does not grow the table past its limit.
TypeOK ==
    /\ DOMAIN windows \subseteq Addresses /\ Cardinality(DOMAIN windows) <= MaxTracked
    /\ \A k \in DOMAIN windows :
          windows[k].started \in 0 .. elapsed /\ windows[k].attempts \in 1 .. MaxAttempts
    /\ elapsed \in 0 .. MaxTime /\ now \in 0 .. elapsed
    /\ asked.key \in Addresses \cup {"none"} /\ asked.allowed \in BOOLEAN
    /\ granted \in [Addresses -> Seq(0 .. MaxTime)]

Nothing == [k \in {} |-> 0]

Init ==
    /\ windows = Nothing
    /\ now = 0 /\ elapsed = 0
    /\ asked = NoCall
    /\ granted = [k \in Addresses |-> <<>>]

-----------------------------------------------------------------------------
\* Mutant: a window that begins in the future is over.
LiveSince(w) == now - w.started \in 0 .. Window - 1

Live(w) == now - w.started < Window

\* A full table drops the windows that are over.
Kept(ws) ==
    IF Cardinality(DOMAIN ws) >= MaxTracked
    THEN Restrict(ws, {k \in DOMAIN ws : Live(ws[k])}) ELSE ws

\* Mutant: every attempt starts the window again.
CountedSliding(ws, k) ==
    IF k \in DOMAIN ws /\ Live(ws[k])
    THEN [started |-> now, attempts |-> ws[k].attempts + 1]
    ELSE [started |-> now, attempts |-> 1]

\* The window of an address with this attempt in it.
Counted(ws, k) ==
    IF k \in DOMAIN ws /\ Live(ws[k])
    THEN [ws[k] EXCEPT !.attempts = @ + 1]
    ELSE [started |-> now, attempts |-> 1]

With(ws, k, w) == [j \in DOMAIN ws \cup {k} |-> IF j = k THEN w ELSE ws[j]]

Answered(k, ws, ok) ==
    /\ windows' = ws
    /\ asked' = [key |-> k, allowed |-> ok]
    /\ granted' = IF ok THEN [granted EXCEPT ![k] = Append(@, elapsed)] ELSE granted
    /\ UNCHANGED <<now, elapsed>>

\* Mutant: an address that is not tracked is never refused.
AllowGrowing(k) ==
    LET kept == Kept(windows)
        w == Counted(kept, k)
    IN w.attempts <= MaxAttempts /\ Answered(k, With(kept, k, w), w.attempts <= Budget)

Allow(k) ==
    LET kept == Kept(windows)
        w == Counted(kept, k)
        full == Cardinality(DOMAIN kept) >= MaxTracked /\ k \notin DOMAIN kept
    IN \/ full /\ Answered(k, kept, FALSE)
       \/ /\ ~full
          /\ w.attempts <= MaxAttempts
          /\ Answered(k, With(kept, k, w), w.attempts <= Budget)

\* A login that was let through turned out right.
Succeeded(k) ==
    /\ granted[k] # <<>>
    /\ windows' = Restrict(windows, DOMAIN windows \ {k})
    /\ granted' = [granted EXCEPT ![k] = <<>>]
    /\ asked' = NoCall
    /\ UNCHANGED <<now, elapsed>>

\* The table is in memory only.
Restart ==
    /\ windows' = Nothing
    /\ granted' = [k \in Addresses |-> <<>>]
    /\ asked' = NoCall
    /\ UNCHANGED <<now, elapsed>>

Tick ==
    /\ elapsed < MaxTime
    /\ elapsed' = elapsed + 1
    /\ now' = now + 1
    /\ UNCHANGED <<windows, asked, granted>>

\* The wall clock is set back (bound: once).
SetBack ==
    /\ now = elapsed
    /\ now' \in 0 .. now - 1
    /\ UNCHANGED <<windows, elapsed, asked, granted>>

Next ==
    \/ \E k \in Addresses : Allow(k) \/ Succeeded(k)
    \/ Restart \/ Tick \/ SetBack

Spec == Init /\ [][Next]_vars

-----------------------------------------------------------------------------
(* Properties *)

\* Whatever other addresses do, wherever the windows fall, and though the clock is
\* set back, an address that does not succeed is let through at most twice its
\* budget in any stretch of time as long as a window: neither filling the table
\* nor a window that seems to begin in the future buys fresh attempts.
GuessesBounded ==
    \A k \in Addresses, from \in 0 .. MaxTime :
        Cardinality({i \in 1 .. Len(granted[k]) :
                        granted[k][i] \in from .. from + Window - 1}) <= 2 * Budget

\* Being refused does not prolong the wait: attempts in a window never move its
\* start, so an address is let in again when the window it first opened is over.
RefusalDoesNotProlong ==
    [][\A k \in DOMAIN windows \cap DOMAIN windows' :
          Live(windows[k]) => windows'[k].started = windows[k].started]_vars
=============================================================================
