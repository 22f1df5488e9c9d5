------------------------------ MODULE ByteFifo ------------------------------
(***************************************************************************)
(* What a CircularBuffer promises: a bounded first-in first-out queue of   *)
(* bytes.  Blocks of bytes are appended at the end and taken from the      *)
(* front; a reset empties it.                                              *)
(***************************************************************************)
EXTENDS Integers, Sequences

CONSTANT Cap        \* the most bytes it holds

VARIABLE q

Init == q = <<>>

Put ==
    /\ Len(q') \in (Len(q) + 1)..Cap
    /\ SubSeq(q', 1, Len(q)) = q

Take == \E n \in 1..Len(q) : q' = SubSeq(q, n + 1, Len(q))

Reset == q' = <<>>

Next == Put \/ Take \/ Reset

Spec == Init /\ [][Next]_q
=============================================================================
