----------------------------- MODULE BlockFifo -----------------------------
(***************************************************************************)
(* What the planner queue promises the threads that share it: a bounded    *)
(* first-in first-out queue of blocks.  A block is appended whole, at the  *)
(* back, and only while there is room; the front block is removed alone or *)
(* together with everything behind it; nothing else ever changes the       *)
(* contents.                                                               *)
(***************************************************************************)
EXTENDS Naturals, Sequences

CONSTANTS Blocks,       \* the blocks a planner can compute
          Capacity      \* how many of them the queue can hold

VARIABLE fifo           \* the committed blocks, oldest first

TypeOK == fifo \in Seq(Blocks)

Init == fifo = <<>>

Commit(b) == /\ Len(fifo) < Capacity
             /\ fifo' = Append(fifo, b)

Release == /\ fifo # <<>>
           /\ fifo' = Tail(fifo)

Discard == /\ fifo # <<>>
           /\ fifo' = <<>>

Next == \/ \E b \in Blocks : Commit(b)
        \/ Release
        \/ Discard

Spec == Init /\ [][Next]_fifo
=============================================================================
