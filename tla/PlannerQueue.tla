---------------------------- MODULE PlannerQueue ----------------------------
(***************************************************************************)
(* robot/PlannerQueue.h: the ring of preallocated blocks between the       *)
(* planner, which runs in the command thread, and the step ticker, which   *)
(* runs in the TIMER0 interrupt.  There is no lock.  The planner alone     *)
(* writes m_wIndex and the slot it designates, the interrupt alone writes  *)
(* m_rIndex.  The interrupt can preempt the planner between any two of its *)
(* accesses; the planner never preempts the interrupt, so an interrupt is  *)
(* one step here and a planner operation is several.                       *)
(***************************************************************************)
EXTENDS Naturals, Sequences

CONSTANTS Size,         \* planner_queue_size, the length of m_buffer
          Blocks,       \* the contents a planned block can have
          Cleared,      \* the contents Block::clear leaves
          nullptr       \* the null pointer

ASSUME SizeAssumption == Size \in Nat /\ Size >= 2
ASSUME ClearedAssumption == Cleared \notin Blocks
ASSUME NullAssumption == nullptr \notin Nat

VARIABLES m_buffer,     \* slot -> contents
          m_rIndex,     \* the tail, the oldest committed block
          m_wIndex,     \* the head, the slot being planned
          pc,           \* where the command thread is in append_block
          current_block,\* the slot the interrupt is ticking, or nullptr
          taken         \* history: what that slot held when it was taken

vars == <<m_buffer, m_rIndex, m_wIndex, pc, current_block, taken>>

Slots == 0 .. Size - 1

-----------------------------------------------------------------------------
(* The operations on the indices.                                          *)

next(n) == (n + 1) % Size

empty == m_rIndex = m_wIndex

full == next(m_wIndex) = m_rIndex

(* How many blocks lie between the tail r and the head w ...               *)
Distance(r, w) == IF w >= r THEN w - r ELSE w + Size - r

(* ... and the slot i places behind the tail.                              *)
Behind(r, i) == IF r + i < Size THEN r + i ELSE r + i - Size

(* The committed blocks of a ring, oldest first: what the ring stands for. *)
Queued(buf, r, w) == [i \in 1 .. Distance(r, w) |-> buf[Behind(r, i - 1)]]

-----------------------------------------------------------------------------
Init == /\ m_buffer = [n \in Slots |-> Cleared]
        /\ m_rIndex = 0
        /\ m_wIndex = 0
        /\ pc = "idle"
        /\ current_block = nullptr
        /\ taken = Cleared

(* Planner::append_block takes the head block and clears it ...            *)
GetHead == /\ pc = "idle"
           /\ m_buffer' = [m_buffer EXCEPT ![m_wIndex] = Cleared]
           /\ pc' = "fill"
           /\ UNCHANGED <<m_rIndex, m_wIndex, current_block, taken>>

(* mutant: the early return of a move without steps is forgotten *)
DropHead_Queues == /\ pc = "fill"
                   /\ m_buffer' = [m_buffer EXCEPT ![m_wIndex] = Cleared]
                   /\ pc' = "queue"
                   /\ UNCHANGED <<m_rIndex, m_wIndex, current_block, taken>>

(* ... finds that the move has no steps and gives it back cleared ...       *)
DropHead == /\ pc = "fill"
            /\ m_buffer' = [m_buffer EXCEPT ![m_wIndex] = Cleared]
            /\ pc' = "idle"
            /\ UNCHANGED <<m_rIndex, m_wIndex, current_block, taken>>

(* ... or plans it in place.                                               *)
Fill(b) == /\ pc = "fill"
           /\ m_buffer' = [m_buffer EXCEPT ![m_wIndex] = b]
           /\ pc' = "queue"
           /\ UNCHANGED <<m_rIndex, m_wIndex, current_block, taken>>

(* mutant: queue_head does not ask whether there is room *)
TestFull_Skipped == /\ pc = "queue"
                    /\ pc' = "advance"
                    /\ UNCHANGED <<m_buffer, m_rIndex, m_wIndex, current_block, taken>>

(* queue_head, as far as its test of full(): the interrupt may release     *)
(* blocks between the test and the store to m_wIndex.                      *)
TestFull == /\ pc = "queue"
            /\ pc' = IF full THEN "stalled" ELSE "advance"
            /\ UNCHANGED <<m_buffer, m_rIndex, m_wIndex, current_block, taken>>

(* queue_head's store: the block becomes visible to the interrupt.         *)
queue_head == /\ pc = "advance"
              /\ m_wIndex' = next(m_wIndex)
              /\ pc' = "idle"
              /\ UNCHANGED <<m_buffer, m_rIndex, current_block, taken>>

(* The queue was full: append_block sleeps and asks again ...              *)
Retry == /\ pc = "stalled"
         /\ pc' = "queue"
         /\ UNCHANGED <<m_buffer, m_rIndex, m_wIndex, current_block, taken>>

(* ... unless the machine was halted meanwhile: the head is cleared and    *)
(* not queued.                                                             *)
Abort == /\ pc = "stalled"
         /\ m_buffer' = [m_buffer EXCEPT ![m_wIndex] = Cleared]
         /\ pc' = "idle"
         /\ UNCHANGED <<m_rIndex, m_wIndex, current_block, taken>>

-----------------------------------------------------------------------------
(* The step ticker interrupt.                                              *)

(* Conveyor::get_next_block hands the tail to the step ticker, which keeps *)
(* a pointer to it.                                                        *)
get_tail == /\ current_block = nullptr
            /\ ~empty
            /\ current_block' = m_rIndex
            /\ taken' = m_buffer[m_rIndex]
            /\ UNCHANGED <<m_buffer, m_rIndex, m_wIndex, pc>>

(* Conveyor::block_finished, when every motor has made its steps.          *)
release_tail == /\ current_block # nullptr
                /\ m_rIndex' = IF empty THEN m_rIndex ELSE next(m_rIndex)
                /\ current_block' = nullptr
                /\ UNCHANGED <<m_buffer, m_wIndex, pc, taken>>

(* step_tick in a halt forgets the block without releasing it.             *)
Forget == /\ current_block # nullptr
          /\ current_block' = nullptr
          /\ UNCHANGED <<m_buffer, m_rIndex, m_wIndex, pc, taken>>

(* Conveyor::get_next_block with flush set releases every block, one after *)
(* the other, until the queue is empty; it runs only between blocks.       *)
Flush == /\ current_block = nullptr
         /\ ~empty
         /\ m_rIndex' = m_wIndex
         /\ UNCHANGED <<m_buffer, m_wIndex, pc, current_block, taken>>

Next == \/ GetHead \/ DropHead \/ \E b \in Blocks : Fill(b)
        \/ TestFull \/ queue_head \/ Retry \/ Abort
        \/ get_tail \/ release_tail \/ Forget \/ Flush

Spec == Init /\ [][Next]_vars

-----------------------------------------------------------------------------
TypeOK == /\ m_buffer \in [Slots -> Blocks \cup {Cleared}]
          /\ m_rIndex \in Slots
          /\ m_wIndex \in Slots
          /\ pc \in {"idle", "fill", "queue", "advance", "stalled"}
          /\ current_block \in Slots \cup {nullptr}
          /\ taken \in Blocks \cup {Cleared}

(* The block the interrupt is ticking is still the tail of the queue, and  *)
(* the planner has not touched its contents since the interrupt took it:   *)
(* the one slot kept free separates the slot being planned from it.        *)
TailUntouched ==
    current_block # nullptr => /\ ~empty
                               /\ current_block = m_rIndex
                               /\ m_buffer[current_block] = taken

(* The strengthening that makes the two above inductive: the planner       *)
(* commits only what it has planned, what it committed stays planned, and  *)
(* the room it saw is still there when it commits.                         *)
HeadPlanned == pc \in {"queue", "stalled", "advance"} => m_buffer[m_wIndex] \in Blocks

QueuePlanned == \A i \in 0 .. Distance(m_rIndex, m_wIndex) - 1 :
                    m_buffer[Behind(m_rIndex, i)] \in Blocks

RoomSeen == pc = "advance" => ~full

Inv == TypeOK /\ TailUntouched /\ HeadPlanned /\ QueuePlanned /\ RoomSeen

(* The ring implements the bounded queue of BlockFifo, with one slot less  *)
(* than it has: every committed block reaches the interrupt with the       *)
(* contents it was committed with, once, in order, and no half-planned or  *)
(* cleared block is ever visible.                                          *)
Fifo == INSTANCE BlockFifo WITH fifo <- Queued(m_buffer, m_rIndex, m_wIndex),
                              Capacity <- Size - 1
IsFifo == Fifo!Spec
=============================================================================
