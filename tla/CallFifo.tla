------------------------------ MODULE CallFifo ------------------------------
(***************************************************************************)
(* What AsyncCallQueue promises (spec.md 4.A): a FIFO of pending calls;  *)
(* schedule appends, firing takes the oldest.                              *)
(***************************************************************************)
EXTENDS Sequences

CONSTANT CallIds

VARIABLE pending

Init == pending = <<>>

Schedule(c) == pending' = Append(pending, c)

FireOldest == pending # <<>> /\ pending' = Tail(pending)

Next == (\E c \in CallIds : Schedule(c)) \/ FireOldest

Spec == Init /\ [][Next]_pending
=============================================================================
