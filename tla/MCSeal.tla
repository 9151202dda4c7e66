------------------------------- MODULE MCSeal -------------------------------
(* Small instances of the key hierarchy for TLC. *)
EXTENDS Seal

TwoSplits == {<<2, 2>>, <<1, 1>>}
OneSplit == {<<2, 3>>}
OneJunk == {[gen |-> 0, index |-> 1]}
NoJunk == {}
=============================================================================
