----------------------------- MODULE DurableLog -----------------------------
(***************************************************************************)
(* What ls-store promises of the store file, with files, frames, flushes    *)
(* and compactions left out: a sequence of records of which a first part    *)
(* is sure to survive anything.  An append makes everything sure or, if it  *)
(* fails, may or may not have added its record; a rewrite replaces the      *)
(* whole sequence at once; a loss takes back at most what is not sure, or   *)
(* brings back what the last rewrites replaced if they were not yet settled.*)
(* The vault is specified over this.                                        *)
(***************************************************************************)
EXTENDS Integers, Sequences

VARIABLES
    content,   \* the records a reader finds, in order
    sure,      \* how many of them survive a loss of power
    older      \* contents a loss of power may bring back, each with its sure part

vars == <<content, sure, older>>

Init == content = <<>> /\ sure = 0 /\ older = {}

\* An append that succeeds settles everything before it as well.
Append1(r) ==
    /\ content' = Append(content, r)
    /\ sure' = Len(content')
    /\ UNCHANGED older

\* An append that fails and yet left its record readable.
AppendUnsure(r) ==
    /\ content' = Append(content, r)
    /\ UNCHANGED <<sure, older>>

\* Opening a file that needed repair flushes it.
Settle ==
    /\ sure' = Len(content)
    /\ UNCHANGED <<content, older>>

\* The rename.
Replace(new) ==
    /\ content' = new
    /\ sure' = Len(new)
    /\ older' = older \cup {[content |-> content, sure |-> sure]}

\* The directory flush.
Forget ==
    /\ older' = {}
    /\ UNCHANGED <<content, sure>>

\* The file c is the one at the path, with all of it that was sure.
Left(c) ==
    \E n \in c.sure .. Len(c.content) :
       /\ content' = SubSeq(c.content, 1, n)
       /\ sure' = n

Lose ==
    /\ \E c \in older \cup {[content |-> content, sure |-> sure]} : Left(c)
    /\ older' = {}

\* The record an append added, and the sequence a rewrite installed, are read
\* off the new content, so that the records need no bound here.
Next ==
    \/ content' # <<>> /\ Append1(content'[Len(content')])
    \/ content' # <<>> /\ AppendUnsure(content'[Len(content')])
    \/ Settle
    \/ Replace(content')
    \/ Forget
    \/ Lose

Spec == Init /\ [][Next]_vars
=============================================================================
