----------------------------- MODULE Lookahead -----------------------------
(***************************************************************************)
(* robot/Planner.cpp: the speeds of the blocks in the planner queue.       *)
(* append_block plans a block in the head slot and recalculate walks the   *)
(* queue towards its tail and back to fit the speeds together, while the   *)
(* step ticker interrupt takes blocks from the tail.                       *)
(*                                                                         *)
(* Speeds are squared, so that the planner's arithmetic is exact on        *)
(* integers: max_allowable_speed(-a, v, d) is sqrt(v*v + 2*a*d), and reach *)
(* below is 2*a*d.                                                         *)
(***************************************************************************)
EXTENDS Integers

CONSTANTS Size,         \* planner_queue_size
          Moves,        \* [nominal, reach]: speed asked for, 2 * a * d
          Junctions,    \* the speeds the junction deviation may allow
          minimum_planner_speed

ASSUME SizeAssumption == Size \in Nat /\ Size >= 2
ASSUME SpeedAssumption ==
    /\ minimum_planner_speed \in Nat
    /\ Junctions \subseteq Nat
    /\ \A m \in Moves : /\ m.nominal \in Nat /\ m.reach \in Nat \ {0}
                        /\ m.nominal >= minimum_planner_speed

VARIABLES blocks,       \* slot -> block
          m_rIndex, m_wIndex,
          pc,           \* where the command thread is in append_block
          iter,         \* PlannerQueue::iter, where recalculate's current is
          speed,        \* recalculate: entry_speed, then exit_speed
          trapezoid,    \* the arguments of calculate_trapezoid
          ticking,      \* the interrupt is ticking the tail
          fetched       \* history: the speeds of that block when it was taken

queueVars == <<blocks, m_rIndex, m_wIndex>>
walkVars == <<iter, speed, trapezoid>>
tickVars == <<ticking, fetched>>
vars == <<queueVars, pc, walkVars, tickVars>>

Slots == 0 .. Size - 1

min(a, b) == IF a < b THEN a ELSE b

(* PlannerQueue.                                                           *)
next(n) == (n + 1) % Size
prev(n) == IF n = 0 THEN Size - 1 ELSE n - 1
empty == m_rIndex = m_wIndex
full == next(m_wIndex) = m_rIndex
Count == (m_wIndex + Size - m_rIndex) % Size

-----------------------------------------------------------------------------
(* Block::clear.                                                           *)
Cleared == [nominal |-> 0, reach |-> 0, max_entry |-> 0, entry |-> 0, exit |-> 0,
            initial |-> 0, nominal_length |-> FALSE, recalculate |-> FALSE,
            is_ticking |-> FALSE, locked |-> FALSE]

max_allowable_speed(b, v) == v + b.reach

(* What append_block puts in the head block.                               *)
NewBlock(move, vmax_junction) ==
    LET v_allowable == minimum_planner_speed + move.reach
    IN  [Cleared EXCEPT !.nominal = move.nominal,
                        !.reach = move.reach,
                        !.max_entry = vmax_junction,
                        !.entry = min(vmax_junction, v_allowable),
                        !.nominal_length = move.nominal <= v_allowable,
                        !.recalculate = TRUE]

(* The speed at the junction with the last block, if there is one: at most *)
(* either nominal speed, and less in a corner or for an auxiliary axis.    *)
JunctionSpeeds(move) ==
    {minimum_planner_speed} \cup
    IF empty THEN {}
    ELSE {min(v, min(blocks[prev(m_wIndex)].nominal, move.nominal)) :
             v \in {j \in Junctions : j >= minimum_planner_speed}}

(* mutant: the entry speed a block was appended with is never raised *)
reverse_pass_NotRaised(b, exit_speed) == b

reverse_pass(b, exit_speed) ==
    IF b.entry = b.max_entry THEN b
    ELSE IF ~b.nominal_length /\ b.max_entry > exit_speed
         THEN [b EXCEPT !.entry = min(max_allowable_speed(b, exit_speed), b.max_entry)]
         ELSE [b EXCEPT !.entry = b.max_entry]

(* mutant: the exit speed of an executing block is computed, not cached *)
max_exit_speed_NotCached(b) ==
    IF b.nominal_length THEN b.nominal
    ELSE min(max_allowable_speed(b, b.entry), b.nominal)

max_exit_speed(b) ==
    IF b.is_ticking THEN b.exit
    ELSE IF b.nominal_length THEN b.nominal
    ELSE min(max_allowable_speed(b, b.entry), b.nominal)

(* mutant: a block that is acceleration limited keeps its entry speed *)
forward_pass_NotLimited(b, prev_max_exit_speed) ==
    IF prev_max_exit_speed <= b.entry THEN [b EXCEPT !.recalculate = FALSE] ELSE b

forward_pass(b, prev_max_exit_speed) ==
    LET v == min(prev_max_exit_speed, min(b.nominal, b.max_entry))
    IN  IF v <= b.entry THEN [b EXCEPT !.entry = v, !.recalculate = FALSE] ELSE b

-----------------------------------------------------------------------------
NoTrapezoid == [slot |-> 0, entry |-> 0, exit |-> 0, then |-> "idle"]

Init == /\ blocks = [n \in Slots |-> Cleared]
        /\ m_rIndex = 0
        /\ m_wIndex = 0
        /\ pc = "idle"
        /\ iter = 0
        /\ speed = 0
        /\ trapezoid = NoTrapezoid
        /\ ticking = FALSE
        /\ fetched = <<0, 0>>

(* append_block up to recalculate, which starts at the head.               *)
append_block(move) ==
    /\ pc = "idle"
    /\ \E v \in JunctionSpeeds(move) :
          blocks' = [blocks EXCEPT ![m_wIndex] = NewBlock(move, v)]
    /\ iter' = m_wIndex
    /\ speed' = minimum_planner_speed
    /\ pc' = "start"
    /\ UNCHANGED <<m_rIndex, m_wIndex, trapezoid, tickVars>>

(* recalculate, "if (!queue->empty())": else only the new block is planned. *)
recalculate ==
    /\ pc = "start"
    /\ pc' = IF empty THEN "final" ELSE "reverse"
    /\ UNCHANGED <<queueVars, walkVars, tickVars>>

(* Step 1: towards the tail, as long as blocks may enter faster.           *)
ReverseWalk ==
    /\ pc = "reverse"
    /\ iter # m_rIndex /\ blocks[iter].recalculate
    /\ blocks' = [blocks EXCEPT ![iter] = reverse_pass(@, speed)]
    /\ speed' = blocks'[iter].entry
    /\ iter' = prev(iter)
    /\ UNCHANGED <<m_rIndex, m_wIndex, pc, trapezoid, tickVars>>

ReverseEnd ==
    /\ pc = "reverse"
    /\ iter = m_rIndex \/ ~blocks[iter].recalculate
    /\ speed' = max_exit_speed(blocks[iter])
    /\ pc' = "forward"
    /\ UNCHANGED <<queueVars, iter, trapezoid, tickVars>>

(* Step 2: back to the head; each block but the last gets its trapezoid as *)
(* soon as the entry speed of the next one is known.                       *)
ForwardWalk ==
    /\ pc = "forward"
    /\ iter # m_wIndex
    /\ LET c == next(iter)
           b == forward_pass(blocks[c], speed)
       IN  /\ iter' = c
           /\ blocks' = [blocks EXCEPT ![c] = b]
           /\ speed' = max_exit_speed(b)
           /\ trapezoid' = [slot |-> iter, entry |-> blocks[iter].entry,
                            exit |-> b.entry, then |-> "forward"]
    /\ pc' = "trapezoid"
    /\ UNCHANGED <<m_rIndex, m_wIndex, tickVars>>

ForwardEnd ==
    /\ pc = "forward"
    /\ iter = m_wIndex
    /\ pc' = "final"
    /\ UNCHANGED <<queueVars, walkVars, tickVars>>

(* Step 3: the new block ends at the minimum speed.                        *)
FinalTrapezoid ==
    /\ pc = "final"
    /\ trapezoid' = [slot |-> iter, entry |-> blocks[iter].entry,
                     exit |-> minimum_planner_speed, then |-> "commit"]
    /\ pc' = "trapezoid"
    /\ UNCHANGED <<queueVars, iter, speed, tickVars>>

(* calculate_trapezoid: nothing is done to a block that is executing; else *)
(* it is computed, the block is locked, and the result stored in it.       *)
TrapezoidSkipped ==
    /\ pc = "trapezoid"
    /\ blocks[trapezoid.slot].is_ticking
    /\ pc' = trapezoid.then
    /\ UNCHANGED <<queueVars, walkVars, tickVars>>

TrapezoidComputed ==
    /\ pc = "trapezoid"
    /\ ~blocks[trapezoid.slot].is_ticking
    /\ pc' = "lock"
    /\ UNCHANGED <<queueVars, walkVars, tickVars>>

TrapezoidLocked ==
    /\ pc = "lock"
    /\ blocks' = [blocks EXCEPT ![trapezoid.slot].locked = TRUE]
    /\ pc' = "store"
    /\ UNCHANGED <<m_rIndex, m_wIndex, walkVars, tickVars>>

(* mutant: the block stays locked *)
TrapezoidStored_Locked ==
    /\ pc = "store"
    /\ blocks' = [blocks EXCEPT ![trapezoid.slot].initial = trapezoid.entry,
                                ![trapezoid.slot].exit = trapezoid.exit]
    /\ pc' = trapezoid.then
    /\ UNCHANGED <<m_rIndex, m_wIndex, walkVars, tickVars>>

TrapezoidStored ==
    /\ pc = "store"
    /\ blocks' = [blocks EXCEPT ![trapezoid.slot].initial = trapezoid.entry,
                                ![trapezoid.slot].exit = trapezoid.exit,
                                ![trapezoid.slot].locked = FALSE]
    /\ pc' = trapezoid.then
    /\ UNCHANGED <<m_rIndex, m_wIndex, walkVars, tickVars>>

(* queue_head, once there is room.                                         *)
queue_head ==
    /\ pc = "commit"
    /\ ~full
    /\ m_wIndex' = next(m_wIndex)
    /\ pc' = "idle"
    /\ iter' = 0 /\ speed' = 0
    /\ trapezoid' = NoTrapezoid
    /\ UNCHANGED <<blocks, m_rIndex, tickVars>>

(* The stalled command thread finds a halt: it clears the block.  Nothing  *)
(* else is planned before the halt is lifted, and by then the interrupt    *)
(* has emptied the queue.                                                  *)
DropHead ==
    /\ pc = "commit"
    /\ full
    /\ blocks' = [blocks EXCEPT ![m_wIndex] = Cleared]
    /\ m_rIndex' = m_wIndex
    /\ ticking' = FALSE
    /\ fetched' = <<0, 0>>
    /\ pc' = "idle"
    /\ iter' = 0 /\ speed' = 0
    /\ trapezoid' = NoTrapezoid
    /\ UNCHANGED m_wIndex

-----------------------------------------------------------------------------
(* The interrupt: Conveyor::get_next_block and block_finished.             *)

(* mutant: the block is not marked as executing *)
get_next_block_NotMarked ==
    /\ ~ticking
    /\ ~empty
    /\ ~blocks[m_rIndex].locked
    /\ blocks' = [blocks EXCEPT ![m_rIndex].recalculate = FALSE]
    /\ ticking' = TRUE
    /\ fetched' = <<blocks[m_rIndex].initial, blocks[m_rIndex].exit>>
    /\ UNCHANGED <<m_rIndex, m_wIndex, pc, walkVars>>

get_next_block ==
    /\ ~ticking
    /\ ~empty
    /\ ~blocks[m_rIndex].locked
    /\ blocks' = [blocks EXCEPT ![m_rIndex].is_ticking = TRUE,
                                ![m_rIndex].recalculate = FALSE]
    /\ ticking' = TRUE
    /\ fetched' = <<blocks[m_rIndex].initial, blocks[m_rIndex].exit>>
    /\ UNCHANGED <<m_rIndex, m_wIndex, pc, walkVars>>

block_finished ==
    /\ ticking
    /\ m_rIndex' = next(m_rIndex)
    /\ ticking' = FALSE
    /\ fetched' = <<0, 0>>
    /\ UNCHANGED <<blocks, m_wIndex, pc, walkVars>>

(* A halt, or the abort of a print: what is being ticked is forgotten and  *)
(* the queue emptied.                                                      *)
flush ==
    /\ ~empty
    /\ m_rIndex' = m_wIndex
    /\ ticking' = FALSE
    /\ fetched' = <<0, 0>>
    /\ UNCHANGED <<blocks, m_wIndex, pc, walkVars>>

-----------------------------------------------------------------------------
Planner == \/ \E move \in Moves : append_block(move)
           \/ recalculate \/ ReverseWalk \/ ReverseEnd \/ ForwardWalk \/ ForwardEnd
           \/ FinalTrapezoid \/ TrapezoidSkipped \/ TrapezoidComputed
           \/ TrapezoidLocked \/ TrapezoidStored \/ queue_head

Interrupt == get_next_block \/ block_finished \/ flush

Next == Planner \/ DropHead \/ Interrupt

Spec == Init /\ [][Next]_vars

(* The same, when the interrupt finds the planner between two blocks only: *)
(* idle, or stalled by a full queue.                                       *)
Quiet == pc = "idle" \/ (pc = "commit" /\ full)
QuietSpec == Init /\ [][Planner \/ DropHead \/ (Quiet /\ Interrupt)]_vars

(* The command thread runs, the interrupt ticks, and every block ends.     *)
FairSpec == Spec /\ WF_vars(Planner /\ pc # "idle") /\ WF_vars(get_next_block)
                 /\ WF_vars(block_finished)

-----------------------------------------------------------------------------
Block == [nominal : Nat, reach : Nat, max_entry : Nat, entry : Nat, exit : Nat, initial : Nat,
          nominal_length : BOOLEAN, recalculate : BOOLEAN, is_ticking : BOOLEAN, locked : BOOLEAN]

TypeOK ==
    /\ blocks \in [Slots -> Block]
    /\ m_rIndex \in Slots /\ m_wIndex \in Slots /\ iter \in Slots
    /\ trapezoid \in [slot : Slots, entry : Nat, exit : Nat, then : {"idle", "forward", "commit"}]
    /\ pc \in {"idle", "start", "reverse", "forward", "final", "trapezoid", "lock", "store", "commit"}
    /\ speed \in Nat
    /\ ticking \in BOOLEAN

(* The committed block i places behind the tail.                           *)
Queued(i) == blocks[(m_rIndex + i) % Size]

Planned == pc = "idle"

(* Every queued block can be driven: with its acceleration it gets from    *)
(* its initial to its exit speed in its length, and neither is faster than *)
(* asked for or than the corner allows.                                    *)
Feasible(b) == /\ b.exit <= b.initial + b.reach
               /\ b.initial <= b.exit + b.reach
               /\ b.initial <= min(b.nominal, b.max_entry)
               /\ b.exit <= b.nominal

AllFeasible == Planned => \A i \in 0 .. Count - 1 : Feasible(Queued(i))

(* A block starts at the speed the one before it ends with, and the last   *)
(* one ends at the minimum speed.                                          *)
Continuous ==
    Planned => \A i \in 0 .. Count - 1 :
        Queued(i).exit = IF i = Count - 1 THEN minimum_planner_speed
                         ELSE Queued(i + 1).initial

(* Planner.cpp, calculate_trapezoid: "if block is currently executing,     *)
(* don't touch anything!"                                                  *)
TickingUntouched ==
    ticking => fetched = <<blocks[m_rIndex].initial, blocks[m_rIndex].exit>>

(* What the walks with their short cuts compute is what a plan of the      *)
(* whole queue would be, from the exit speed of the executing block on.    *)
(* best[i] is the fastest entry of block i that leaves room to stop, plan  *)
(* the fastest that can also be reached.                                   *)
PlanIsOptimal ==
    LET n == Count
        best[i \in 0 .. n] ==
            IF i = n THEN minimum_planner_speed
            ELSE min(Queued(i).max_entry, best[i + 1] + Queued(i).reach)
        plan[i \in 0 .. n] ==
            IF i = 0 THEN Queued(0).initial
            ELSE IF i = 1 /\ ticking THEN min(best[1], Queued(0).exit)
            ELSE min(best[i], plan[i - 1] + Queued(i - 1).reach)
    IN  Planned /\ n > 0 => \A i \in 1 .. n - 1 : Queued(i).initial = plan[i]

(* append_block returns, although the tail it walks towards moves, or the  *)
(* queue is flushed behind it: the walks end, and no block stays locked, so *)
(* that the interrupt makes room for the block the planner stalls with.    *)
AppendReturns == pc = "start" ~> pc = "idle"
=============================================================================
