--------------------------- MODULE LogRefinement ---------------------------
(* The store file implements the durable log.  A reader's record is the       *)
(* frame's payload with the key it opens under; the header and a partial tail *)
(* are not content.                                                           *)
EXTENDS Log

Frame(it) == [kind |-> it.kind, val |-> it.val]
Content(f) == LET good == Good(f) IN [i \in 1 .. Len(good) - 1 |-> Frame(good[i + 1])]
Sure(f) ==
    LET good == Len(Good(f))
        n == IF f.synced < good THEN f.synced - 1 ELSE good - 1
    IN IF n < 0 THEN 0 ELSE n

D == INSTANCE DurableLog WITH
        content <- Content(main),
        sure <- Sure(main),
        older <- {[content |-> Content(p.file), sure |-> Sure(p.file)] : p \in prior}

\* Every step of the store file, failing writes, repairs, interrupted
\* compactions, kills and power losses included, is one of the few things that
\* may happen to a durable log, or changes nothing a reader could see.
ImplementsDurableLog == D!Spec
=============================================================================
