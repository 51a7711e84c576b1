--------------------------- MODULE LookaheadProofs ---------------------------
(* Proofs about Lookahead, for a ring of any size and any moves: its types, *)
(* that a block that executes keeps its speeds, and, without a minimum      *)
(* speed, that what is planned can be driven, fits together, and is the     *)
(* fastest that can be.                                                    *)
EXTENDS Lookahead, WellFoundedInduction, TLAPS

-----------------------------------------------------------------------------
(* The ring and the passes.                                                *)

LEMMA SlotsType ==
    /\ 0 \in Slots
    /\ \A n \in Slots : next(n) \in Slots /\ prev(n) \in Slots /\ next(n) # n
  <1>1. ASSUME NEW n \in Slots
        PROVE  next(n) \in Slots /\ next(n) # n
    <2>1. CASE n + 1 = Size
      <3>1. next(n) = 0
        BY <2>1, SizeAssumption DEF next
      <3> QED BY <2>1, <3>1, SizeAssumption DEF Slots
    <2>2. CASE n + 1 < Size
      <3>1. next(n) = n + 1
        BY <2>2, SizeAssumption DEF next, Slots
      <3> QED BY <2>2, <3>1, SizeAssumption DEF Slots
    <2> QED BY <2>1, <2>2, SizeAssumption DEF Slots
  <1>2. ASSUME NEW n \in Slots
        PROVE  prev(n) \in Slots
    BY SizeAssumption DEF Slots, prev
  <1> QED BY <1>1, <1>2, SizeAssumption DEF Slots

(* The records, with any set of truth values F.                            *)
BlockWith(F) == [nominal : Nat, reach : Nat, max_entry : Nat, entry : Nat, exit : Nat,
                 initial : Nat, nominal_length : F, recalculate : F, is_ticking : F, locked : F]

LEMMA RecordTypes ==
    ASSUME NEW F, NEW t \in F, NEW f \in F, NEW b \in BlockWith(F), NEW m \in Nat, NEW n \in Nat
    PROVE  /\ [b EXCEPT !.locked = t] \in BlockWith(F)
           /\ [b EXCEPT !.is_ticking = t, !.recalculate = f] \in BlockWith(F)
           /\ [b EXCEPT !.initial = m, !.exit = n, !.locked = f] \in BlockWith(F)
  <1>1. [b EXCEPT !.locked = t] \in BlockWith(F)
    BY DEF BlockWith
  <1>2. [b EXCEPT !.is_ticking = t, !.recalculate = f] \in BlockWith(F)
    BY DEF BlockWith
  <1>3. [b EXCEPT !.initial = m, !.exit = n, !.locked = f] \in BlockWith(F)
    BY DEF BlockWith
  <1> QED BY <1>1, <1>2, <1>3

LEMMA NewRecordType ==
    ASSUME NEW F, NEW t \in F, NEW l \in F, NEW b \in BlockWith(F),
           NEW nominal \in Nat, NEW reach \in Nat, NEW v \in Nat, NEW entry \in Nat
    PROVE  [b EXCEPT !.nominal = nominal, !.reach = reach, !.max_entry = v, !.entry = entry,
                     !.nominal_length = l, !.recalculate = t] \in BlockWith(F)
  BY DEF BlockWith

LEMMA BlockIs == Block = BlockWith(BOOLEAN) /\ TRUE \in BOOLEAN /\ FALSE \in BOOLEAN
  BY Zenon DEF Block, BlockWith

LEMMA ClearedType == Cleared \in Block
  BY DEF Cleared, Block

LEMMA NewBlockType ==
    ASSUME NEW move \in Moves, NEW v \in Nat
    PROVE  NewBlock(move, v) \in Block
  <1> DEFINE v_allowable == minimum_planner_speed + move.reach
             entry == min(v, v_allowable)
             short == move.nominal <= v_allowable
  <1>1. move.nominal \in Nat /\ move.reach \in Nat /\ minimum_planner_speed \in Nat
    BY SpeedAssumption
  <1>2. entry \in Nat
    BY <1>1 DEF min
  <1>3. short \in BOOLEAN
    OBVIOUS
  <1>4. NewBlock(move, v) =
            [Cleared EXCEPT !.nominal = move.nominal, !.reach = move.reach, !.max_entry = v,
                            !.entry = entry, !.nominal_length = short, !.recalculate = TRUE]
    BY Zenon DEF NewBlock
  <1> HIDE DEF entry, short, v_allowable
  <1>5. Cleared \in BlockWith(BOOLEAN) /\ TRUE \in BOOLEAN
    BY ClearedType, BlockIs, Zenon
  <1>6. [Cleared EXCEPT !.nominal = move.nominal, !.reach = move.reach, !.max_entry = v,
                        !.entry = entry, !.nominal_length = short, !.recalculate = TRUE]
            \in BlockWith(BOOLEAN)
    BY <1>1, <1>2, <1>3, <1>5, NewRecordType, Zenon
  <1> QED BY <1>4, <1>6, BlockIs, Zenon

(* What the planner and the interrupt change in a block leaves it a block.  *)
LEMMA MarksType ==
    ASSUME NEW b \in Block
    PROVE  /\ [b EXCEPT !.locked = TRUE] \in Block
           /\ [b EXCEPT !.is_ticking = TRUE, !.recalculate = FALSE] \in Block
           /\ \A m, n \in Nat :
                 [b EXCEPT !.initial = m, !.exit = n, !.locked = FALSE] \in Block
  <1>1. 0 \in Nat
    OBVIOUS
  <1>2. /\ [b EXCEPT !.locked = TRUE] \in Block
        /\ [b EXCEPT !.is_ticking = TRUE, !.recalculate = FALSE] \in Block
    BY <1>1, BlockIs, RecordTypes, Zenon
  <1>3. ASSUME NEW m \in Nat, NEW n \in Nat
        PROVE  [b EXCEPT !.initial = m, !.exit = n, !.locked = FALSE] \in Block
    BY BlockIs, RecordTypes, Zenon
  <1> QED BY <1>2, <1>3

(* The passes change the entry speed and the recalculate flag only.         *)
LEMMA ReversePass ==
    ASSUME NEW b \in Block, NEW v \in Nat
    PROVE  /\ reverse_pass(b, v) \in Block
           /\ reverse_pass(b, v).is_ticking = b.is_ticking
           /\ reverse_pass(b, v).initial = b.initial /\ reverse_pass(b, v).exit = b.exit
  BY DEF reverse_pass, Block, max_allowable_speed, min

LEMMA ForwardPass ==
    ASSUME NEW b \in Block, NEW v \in Nat
    PROVE  /\ forward_pass(b, v) \in Block
           /\ forward_pass(b, v).is_ticking = b.is_ticking
           /\ forward_pass(b, v).initial = b.initial /\ forward_pass(b, v).exit = b.exit
  BY DEF forward_pass, Block, min

LEMMA MaxExitType ==
    ASSUME NEW b \in Block
    PROVE  max_exit_speed(b) \in Nat
  BY DEF max_exit_speed, Block, max_allowable_speed, min

LEMMA JunctionType ==
    ASSUME TypeOK, NEW move \in Moves, NEW v \in JunctionSpeeds(move)
    PROVE  v \in Nat
  <1>1. minimum_planner_speed \in Nat /\ Junctions \subseteq Nat /\ move.nominal \in Nat
    BY SpeedAssumption
  <1>2. blocks[prev(m_wIndex)].nominal \in Nat
    BY SlotsType DEF TypeOK, Block
  <1> QED BY <1>1, <1>2 DEF JunctionSpeeds, min

-----------------------------------------------------------------------------
(* Types, whatever the interrupt does.                                     *)

LEMMA InitType == Init => TypeOK
  <1> SUFFICES ASSUME Init
               PROVE  TypeOK
    OBVIOUS
  <1>1. blocks \in [Slots -> Block]
    BY ClearedType DEF Init
  <1>2. trapezoid \in [slot : Slots, entry : Nat, exit : Nat, then : {"idle", "forward", "commit"}]
    BY SlotsType DEF Init, NoTrapezoid
  <1> QED BY <1>1, <1>2, SlotsType DEF Init, TypeOK

(* A block in the ring that is replaced by a block.                         *)
LEMMA Replaced ==
    ASSUME blocks \in [Slots -> Block], NEW n \in Slots, NEW b \in Block,
           blocks' = [blocks EXCEPT ![n] = b]
    PROVE  blocks' \in [Slots -> Block]
  OBVIOUS

LEMMA PlannerType == TypeOK /\ Planner => TypeOK'
  <1> SUFFICES ASSUME TypeOK, Planner
               PROVE  TypeOK'
    OBVIOUS
  <1> USE DEF TypeOK, queueVars, walkVars, tickVars
  <1>0. minimum_planner_speed \in Nat
    BY SpeedAssumption
  <1>1. CASE \E move \in Moves : append_block(move)
    <2>1. PICK move \in Moves : append_block(move)
      BY <1>1
    <2>2. PICK v \in JunctionSpeeds(move) :
              blocks' = [blocks EXCEPT ![m_wIndex] = NewBlock(move, v)]
      BY <2>1 DEF append_block
    <2>3. blocks' \in [Slots -> Block]
      BY <2>2, JunctionType, NewBlockType, Replaced
    <2> QED BY <1>0, <2>1, <2>3 DEF append_block
  <1>2. CASE recalculate
    BY <1>2 DEF recalculate
  <1>3. CASE ReverseWalk
    <2>1. reverse_pass(blocks[iter], speed) \in Block
      BY ReversePass
    <2>2. blocks' = [blocks EXCEPT ![iter] = reverse_pass(blocks[iter], speed)]
      BY <1>3 DEF ReverseWalk
    <2>3. blocks' \in [Slots -> Block]
      BY <2>1, <2>2
    <2>4. blocks'[iter].entry \in Nat
      BY <2>3 DEF Block
    <2> QED BY <1>3, <2>3, <2>4, SlotsType DEF ReverseWalk
  <1>4. CASE ReverseEnd
    BY <1>4, MaxExitType DEF ReverseEnd
  <1>5. CASE ForwardWalk
    <2> DEFINE c == next(iter)
               b == forward_pass(blocks[c], speed)
    <2>1. c \in Slots /\ b \in Block
      BY SlotsType, ForwardPass
    <2>2. /\ iter' = c /\ blocks' = [blocks EXCEPT ![c] = b] /\ speed' = max_exit_speed(b)
          /\ trapezoid' = [slot |-> iter, entry |-> blocks[iter].entry,
                            exit |-> b.entry, then |-> "forward"]
          /\ pc' = "trapezoid" /\ UNCHANGED <<m_rIndex, m_wIndex, ticking>>
      BY <1>5 DEF ForwardWalk
    <2> HIDE DEF b, c
    <2>3. blocks' \in [Slots -> Block]
      BY <2>1, <2>2
    <2>4. blocks[iter].entry \in Nat /\ b.entry \in Nat
      BY <2>1 DEF Block
    <2>5. speed' \in Nat
      BY <2>1, <2>2, MaxExitType
    <2> QED BY <2>1, <2>2, <2>3, <2>4, <2>5
  <1>6. CASE ForwardEnd
    BY <1>6 DEF ForwardEnd
  <1>7. CASE FinalTrapezoid
    <2>1. blocks[iter].entry \in Nat
      BY DEF Block
    <2> QED BY <1>0, <1>7, <2>1 DEF FinalTrapezoid
  <1>8. CASE TrapezoidSkipped
    BY <1>8 DEF TrapezoidSkipped
  <1>9. CASE TrapezoidComputed
    BY <1>9 DEF TrapezoidComputed
  <1>10. CASE TrapezoidLocked
    <2>1. [blocks[trapezoid.slot] EXCEPT !.locked = TRUE] \in Block
      BY MarksType
    <2> QED BY <1>10, <2>1 DEF TrapezoidLocked
  <1>11. CASE TrapezoidStored
    <2>1. [blocks[trapezoid.slot] EXCEPT !.initial = trapezoid.entry, !.exit = trapezoid.exit,
                                         !.locked = FALSE] \in Block
      BY MarksType
    <2> QED BY <1>11, <2>1 DEF TrapezoidStored
  <1>12. CASE queue_head
    BY <1>12, SlotsType DEF queue_head, NoTrapezoid
  <1> QED BY <1>1, <1>2, <1>3, <1>4, <1>5, <1>6, <1>7, <1>8, <1>9, <1>10, <1>11, <1>12 DEF Planner

LEMMA NextType == TypeOK /\ [Next]_vars => TypeOK'
  <1> SUFFICES ASSUME TypeOK, [Next]_vars
               PROVE  TypeOK'
    OBVIOUS
  <1> USE DEF TypeOK, queueVars, walkVars, tickVars
  <1>1. CASE DropHead
    <2>1. blocks' \in [Slots -> Block]
      BY <1>1, ClearedType DEF DropHead
    <2> QED BY <1>1, <2>1, SlotsType DEF DropHead, NoTrapezoid
  <1>2. CASE get_next_block
    <2>1. [blocks[m_rIndex] EXCEPT !.is_ticking = TRUE, !.recalculate = FALSE] \in Block
      BY MarksType
    <2> QED BY <1>2, <2>1 DEF get_next_block
  <1>3. CASE block_finished
    BY <1>3, SlotsType DEF block_finished
  <1>4. CASE flush
    BY <1>4 DEF flush
  <1>5. CASE UNCHANGED vars
    BY <1>5 DEF vars
  <1> QED BY <1>1, <1>2, <1>3, <1>4, <1>5, PlannerType DEF Next, Interrupt

(* The interrupt that comes between two blocks only takes steps of Spec.    *)
QuietNext == Planner \/ DropHead \/ (Quiet /\ Interrupt)

(* Type correctness, for rings of any size, any moves, and an interrupt     *)
(* that takes, releases and flushes blocks at any step of the planner.     *)
THEOREM TypeCorrect == Spec => []TypeOK
  BY InitType, NextType, PTL DEF Spec

-----------------------------------------------------------------------------
(* The block that is executing.                                            *)

(* It is marked, it is not the one being planned, and a trapezoid that is   *)
(* being stored belongs to another.                                        *)
TickingInv ==
    ticking => /\ m_rIndex # m_wIndex
               /\ blocks[m_rIndex].is_ticking
               /\ fetched = <<blocks[m_rIndex].initial, blocks[m_rIndex].exit>>
               /\ pc \in {"lock", "store"} => trapezoid.slot # m_rIndex

LEMMA TickingPlanner == TypeOK /\ TickingInv /\ Planner => TickingInv'
  <1> SUFFICES ASSUME TypeOK, TickingInv, Planner, ticking'
               PROVE  /\ m_rIndex' # m_wIndex'
                      /\ blocks'[m_rIndex'].is_ticking
                      /\ fetched' = <<blocks'[m_rIndex'].initial, blocks'[m_rIndex'].exit>>
                      /\ pc' \in {"lock", "store"} => trapezoid'.slot # m_rIndex'
    BY DEF TickingInv
  <1>0. /\ m_rIndex' = m_rIndex /\ ticking /\ fetched' = fetched
        /\ m_rIndex \in Slots /\ m_wIndex \in Slots /\ iter \in Slots
        /\ blocks \in [Slots -> Block] /\ speed \in Nat
        /\ m_rIndex # m_wIndex /\ blocks[m_rIndex].is_ticking
        /\ fetched = <<blocks[m_rIndex].initial, blocks[m_rIndex].exit>>
        /\ pc \in {"lock", "store"} => trapezoid.slot # m_rIndex
        /\ trapezoid.slot \in Slots
    BY DEF Planner, TickingInv, TypeOK, tickVars, queueVars, append_block, recalculate, ReverseWalk,
           ReverseEnd, ForwardWalk, ForwardEnd, FinalTrapezoid, TrapezoidSkipped, TrapezoidComputed,
           TrapezoidLocked, TrapezoidStored, queue_head
  <1>1. CASE \E move \in Moves : append_block(move)
    BY <1>0, <1>1 DEF append_block
  <1>2. CASE recalculate \/ ReverseEnd \/ ForwardEnd \/ FinalTrapezoid \/ TrapezoidSkipped
    <2>1. UNCHANGED <<blocks, m_wIndex>>
      BY <1>2 DEF recalculate, ReverseEnd, ForwardEnd, FinalTrapezoid, TrapezoidSkipped, queueVars
    <2>2. pc' \notin {"lock", "store"}
      BY <1>2 DEF recalculate, ReverseEnd, ForwardEnd, FinalTrapezoid, TrapezoidSkipped, TypeOK
    <2> QED BY <1>0, <2>1, <2>2
  <1>3. CASE ReverseWalk
    BY <1>0, <1>3, ReversePass DEF ReverseWalk
  <1>4. CASE ForwardWalk
    <2> DEFINE c == next(iter)
    <2>1. c \in Slots /\ blocks' = [blocks EXCEPT ![c] = forward_pass(blocks[c], speed)]
      BY <1>4, SlotsType, <1>0 DEF ForwardWalk
    <2>2. m_wIndex' = m_wIndex /\ pc' = "trapezoid"
      BY <1>4 DEF ForwardWalk
    <2> QED BY <1>0, <2>1, <2>2, ForwardPass
  <1>5. CASE TrapezoidComputed
    BY <1>0, <1>5 DEF TrapezoidComputed, queueVars, walkVars
  <1>6. CASE TrapezoidLocked
    BY <1>0, <1>6 DEF TrapezoidLocked, walkVars
  <1>7. CASE TrapezoidStored
    <2>1. pc' \notin {"lock", "store"}
      BY <1>7 DEF TrapezoidStored, TypeOK
    <2> QED BY <1>0, <1>7, <2>1 DEF TrapezoidStored
  <1>8. CASE queue_head
    BY <1>0, <1>8 DEF queue_head, full
  <1> QED BY <1>1, <1>2, <1>3, <1>4, <1>5, <1>6, <1>7, <1>8 DEF Planner

LEMMA TickingNext == TypeOK /\ TickingInv /\ [QuietNext]_vars => TickingInv'
  <1> SUFFICES ASSUME TypeOK, TickingInv, [QuietNext]_vars
               PROVE  TickingInv'
    OBVIOUS
  <1>1. CASE DropHead
    BY <1>1 DEF DropHead, TickingInv
  <1>2. CASE Quiet /\ get_next_block
    BY <1>2 DEF Quiet, get_next_block, TickingInv, TypeOK, Block, empty
  <1>3. CASE block_finished
    BY <1>3 DEF block_finished, TickingInv
  <1>4. CASE flush
    BY <1>4 DEF flush, TickingInv
  <1>5. CASE UNCHANGED vars
    BY <1>5 DEF vars, queueVars, walkVars, tickVars, TickingInv
  <1> QED BY <1>1, <1>2, <1>3, <1>4, <1>5, TickingPlanner DEF QuietNext, Interrupt

(* With an interrupt that comes between two calls of append_block only, the *)
(* block that is executing keeps its speeds, for any ring and any moves:    *)
(* the test of is_ticking in calculate_trapezoid is enough then.           *)
THEOREM TickingIsLeft == QuietSpec => []TickingUntouched
  <1>1. Init => TickingInv
    BY DEF Init, TickingInv
  <1>2. [QuietNext]_vars => [Next]_vars
    BY DEF QuietNext, Next
  <1>3. TickingInv => TickingUntouched
    BY DEF TickingInv, TickingUntouched
  <1> QED BY InitType, NextType, TickingNext, <1>1, <1>2, <1>3, PTL DEF QuietSpec, QuietNext

-----------------------------------------------------------------------------
(* The ring, as seen from the head.                                        *)

(* How many slots n is behind the head; and whether it is committed.        *)
Behind(n) == IF n <= m_wIndex THEN m_wIndex - n ELSE m_wIndex + Size - n
InQueue(n) == Behind(n) >= 1 /\ Behind(n) <= Behind(m_rIndex)

(* The neighbours in the ring.                                              *)
LEMMA Neighbours ==
    ASSUME NEW n \in Slots
    PROVE  /\ next(n) = IF n = Size - 1 THEN 0 ELSE n + 1
           /\ next(prev(n)) = n
  <1>1. ASSUME NEW k \in Slots
        PROVE  next(k) = IF k = Size - 1 THEN 0 ELSE k + 1
    <2>1. CASE k + 1 = Size
      BY <2>1, SizeAssumption DEF next, Slots
    <2>2. CASE k + 1 < Size
      BY <2>2, SizeAssumption DEF next, Slots
    <2> QED BY <2>1, <2>2, SizeAssumption DEF Slots
  <1>2. prev(n) \in Slots
    BY SlotsType
  <1>3. next(prev(n)) = n
    BY <1>1, <1>2, SizeAssumption DEF prev, Slots
  <1> QED BY <1>1, <1>3

(* next is one closer to the head, and prev one further from it.            *)
LEMMA Distances ==
    ASSUME m_wIndex \in Slots, NEW n \in Slots
    PROVE  /\ Behind(n) \in 0 .. Size - 1
           /\ Behind(n) = 0 <=> n = m_wIndex
           /\ n # m_wIndex => Behind(next(n)) = Behind(n) - 1
           /\ Behind(n) < Size - 1 => Behind(prev(n)) = Behind(n) + 1
           /\ next(n) = m_wIndex <=> Behind(n) = 1
           /\ Behind(n) = Size - 1 => prev(n) = m_wIndex
  <1>1. Size \in Nat /\ Size >= 2 /\ m_wIndex \in 0 .. Size - 1 /\ n \in 0 .. Size - 1
    BY SizeAssumption DEF Slots
  <1>2. next(n) = IF n = Size - 1 THEN 0 ELSE n + 1
    BY Neighbours
  <1> QED BY <1>1, <1>2 DEF Behind, prev

(* A slot is known by how far it is behind the head.                        *)
LEMMA OnePlace ==
    ASSUME m_wIndex \in Slots, NEW m \in Slots, NEW n \in Slots
    PROVE  /\ Behind(m) = Behind(n) <=> m = n
           /\ next(m) = next(n) <=> m = n
  <1>1. Size \in Nat /\ Size >= 2 /\ m_wIndex \in 0 .. Size - 1
        /\ m \in 0 .. Size - 1 /\ n \in 0 .. Size - 1
    BY SizeAssumption DEF Slots
  <1>2. Behind(m) = Behind(n) <=> m = n
    BY <1>1 DEF Behind
  <1>3. next(m) = next(n) <=> m = n
    BY <1>1, Neighbours
  <1> QED BY <1>2, <1>3

(* The committed block i places behind the tail is Count - i behind the     *)
(* head.                                                                   *)
LEMMA QueuedSlots ==
    ASSUME m_wIndex \in Slots, m_rIndex \in Slots, NEW i \in 0 .. Count - 1
    PROVE  /\ (m_rIndex + i) % Size \in Slots
           /\ InQueue((m_rIndex + i) % Size)
           /\ Behind((m_rIndex + i) % Size) = Count - i
           /\ Count \in Int
  <1>1. Size \in Nat /\ Size >= 2 /\ m_wIndex \in 0 .. Size - 1 /\ m_rIndex \in 0 .. Size - 1
    BY SizeAssumption DEF Slots
  <1>2. ASSUME NEW k \in 0 .. Size - 1
        PROVE  k % Size = k
    BY <1>1, <1>2
  <1>3. ASSUME NEW k \in 0 .. Size - 1
        PROVE  (k + Size) % Size = k
    BY <1>1, <1>3
  <1>4. Count = Behind(m_rIndex)
    <2>1. CASE m_rIndex <= m_wIndex
      <3>1. m_wIndex + Size - m_rIndex = (m_wIndex - m_rIndex) + Size
        BY <1>1
      <3> QED BY <1>1, <1>3, <2>1, <3>1 DEF Count, Behind
    <2>2. CASE m_rIndex > m_wIndex
      BY <1>1, <1>2, <2>2 DEF Count, Behind
    <2> QED BY <1>1, <2>1, <2>2
  <1>5. CASE m_rIndex + i < Size
    <2>1. (m_rIndex + i) % Size = m_rIndex + i
      BY <1>1, <1>2, <1>5, <1>4 DEF Behind
    <2> QED BY <1>1, <1>4, <1>5, <2>1 DEF InQueue, Behind, Slots
  <1>6. CASE m_rIndex + i >= Size
    <2> DEFINE k == m_rIndex + i - Size
    <2>1. k \in 0 .. Size - 1 /\ m_rIndex + i = k + Size
      BY <1>1, <1>4, <1>6 DEF Behind
    <2>2. (m_rIndex + i) % Size = k
      BY <1>3, <2>1
    <2> QED BY <1>1, <1>4, <1>6, <2>1, <2>2 DEF InQueue, Behind, Slots
  <1> QED BY <1>1, <1>4, <1>5, <1>6 DEF Behind

(* What append_block and the two walks establish of the speeds of a block,  *)
(* executing or not, committed or released.                                *)
Limits(b) == /\ b.entry <= b.max_entry /\ b.max_entry <= b.nominal
             /\ b.nominal_length => b.nominal <= b.reach
             /\ b.is_ticking => ~b.recalculate

(* The speed a block can be left with when it is entered as planned.        *)
Reached(b) == IF b.nominal_length THEN b.nominal ELSE min(b.entry + b.reach, b.nominal)

Drives(b, v, w) == /\ w <= v + b.reach /\ v <= w + b.reach
                   /\ v <= b.max_entry /\ w <= b.nominal

SlotsFit == \A n \in Slots : Limits(blocks[n])

TickIsQueued == ticking => m_rIndex # m_wIndex /\ ~blocks[m_rIndex].recalculate

(* The new block can stop in its length.                                    *)
HeadFits == pc # "idle" => /\ blocks[m_wIndex].entry <= blocks[m_wIndex].reach
                           /\ ~blocks[m_wIndex].is_ticking

(* Each committed block can slow down to the entry speed of the next one,   *)
(* and the last one can stop: the reverse walk only raises entry speeds,   *)
(* and the forward walk lowers them no further than the block before can.  *)
SlowsDown ==
    \A n \in Slots : InQueue(n) /\ ~blocks[n].is_ticking =>
        IF next(n) = m_wIndex /\ pc = "idle" THEN blocks[n].entry <= blocks[n].reach
        ELSE blocks[n].entry <= blocks[next(n)].entry + blocks[n].reach

Returning == pc = "forward" \/ (pc \in {"trapezoid", "lock", "store"} /\ trapezoid.then = "forward")

(* recalculate carries the speed of the block it has just left.  The        *)
(* interrupt may release that block: the walk stops there all the same, for *)
(* get_next_block has cleared its recalculate flag; or it may flush the     *)
(* queue, and the walk may run into what has been released.                *)
WalkFits ==
    /\ pc = "start" => iter = m_wIndex /\ speed = 0
    /\ pc = "reverse" /\ m_rIndex # m_wIndex =>
          /\ Behind(iter) <= Behind(m_rIndex) \/ ~blocks[iter].recalculate
          /\ speed = IF iter = m_wIndex THEN 0 ELSE blocks[next(iter)].entry
    /\ Returning /\ ~blocks[iter].is_ticking => speed = Reached(blocks[iter])
    /\ pc = "final" => iter = m_wIndex

TrapezoidFits ==
    pc \in {"trapezoid", "lock", "store"} =>
        LET b == blocks[trapezoid.slot] IN
        /\ trapezoid.then = IF trapezoid.slot = m_wIndex THEN "commit" ELSE "forward"
        /\ trapezoid.slot = m_wIndex \/ InQueue(trapezoid.slot) =>
              (pc = "trapezoid" /\ b.is_ticking) \/ Drives(b, trapezoid.entry, trapezoid.exit)

QueueFits == \A n \in Slots : InQueue(n) \/ (n = m_wIndex /\ pc = "commit") =>
                 Drives(blocks[n], blocks[n].initial, blocks[n].exit)

FeasibleInv == /\ SlotsFit /\ TickIsQueued /\ HeadFits /\ SlowsDown
               /\ WalkFits /\ TrapezoidFits /\ QueueFits

-----------------------------------------------------------------------------
(* The fields that append_block sets in a cleared record.                   *)
LEMMA NewRecordSpeeds ==
    ASSUME NEW F, NEW t \in F, NEW l \in F, NEW b \in BlockWith(F),
           NEW nominal \in Nat, NEW reach \in Nat, NEW v \in Nat, NEW entry \in Nat
    PROVE  LET d == [b EXCEPT !.nominal = nominal, !.reach = reach, !.max_entry = v,
                              !.entry = entry, !.nominal_length = l, !.recalculate = t]
           IN  /\ d.nominal = nominal /\ d.reach = reach /\ d.max_entry = v /\ d.entry = entry
               /\ d.nominal_length = l /\ d.is_ticking = b.is_ticking /\ d.recalculate = t
  BY DEF BlockWith

(* A new block can stop, and its limits fit each other.                     *)
LEMMA NewBlockSpeeds ==
    ASSUME minimum_planner_speed = 0, NEW move \in Moves, NEW v \in Nat
    PROVE  LET b == NewBlock(move, v)
           IN  /\ b.entry = min(v, move.reach) /\ b.max_entry = v /\ b.nominal = move.nominal
               /\ b.reach = move.reach /\ ~b.is_ticking /\ b.recalculate
               /\ b.nominal_length => move.nominal <= move.reach
  <1> DEFINE v_allowable == minimum_planner_speed + move.reach
             entry == min(v, v_allowable)
             short == move.nominal <= v_allowable
             b == NewBlock(move, v)
  <1>1. move.nominal \in Nat /\ move.reach \in Nat /\ v_allowable = move.reach
    BY SpeedAssumption
  <1>2. entry \in Nat /\ entry = min(v, move.reach)
    BY <1>1 DEF min
  <1>3. short \in BOOLEAN /\ (short => move.nominal <= move.reach)
    BY <1>1
  <1>4. b = [Cleared EXCEPT !.nominal = move.nominal, !.reach = move.reach, !.max_entry = v,
                            !.entry = entry, !.nominal_length = short, !.recalculate = TRUE]
    BY Zenon DEF NewBlock
  <1> HIDE DEF entry, short, v_allowable, b
  <1>5. Cleared \in BlockWith(BOOLEAN) /\ TRUE \in BOOLEAN
    BY ClearedType, BlockIs, Zenon
  <1>6. /\ b.nominal = move.nominal /\ b.reach = move.reach /\ b.max_entry = v /\ b.entry = entry
        /\ b.nominal_length = short /\ b.is_ticking = Cleared.is_ticking /\ b.recalculate = TRUE
    <2>1. LET d == [Cleared EXCEPT !.nominal = move.nominal, !.reach = move.reach, !.max_entry = v,
                                   !.entry = entry, !.nominal_length = short, !.recalculate = TRUE]
          IN  /\ d.nominal = move.nominal /\ d.reach = move.reach /\ d.max_entry = v
              /\ d.entry = entry /\ d.nominal_length = short /\ d.is_ticking = Cleared.is_ticking
              /\ d.recalculate = TRUE
      BY <1>1, <1>2, <1>3, <1>5, NewRecordSpeeds
    <2> QED BY <1>4, <2>1, Zenon
  <1>7. ~Cleared.is_ticking
    BY DEF Cleared
  <1>8. /\ ~b.is_ticking /\ b.recalculate
        /\ b.nominal_length => move.nominal <= move.reach
    BY <1>3, <1>6, <1>7, Zenon
  <1> QED BY <1>2, <1>6, <1>8 DEF b

(* The reverse pass changes the entry speed only, and raises it, as far as  *)
(* the block can still slow down to the speed it is given.                 *)
LEMMA ReverseSpeeds ==
    ASSUME NEW b \in Block, NEW v \in Nat, Limits(b)
    PROVE  LET r == reverse_pass(b, v) IN
           /\ r.nominal = b.nominal /\ r.reach = b.reach /\ r.max_entry = b.max_entry
           /\ r.nominal_length = b.nominal_length /\ r.recalculate = b.recalculate
           /\ Limits(r)
           /\ b.entry <= v + b.reach => b.entry <= r.entry /\ r.entry <= v + b.reach
  <1> SUFFICES LET r == reverse_pass(b, v) IN
           /\ r.nominal = b.nominal /\ r.reach = b.reach /\ r.max_entry = b.max_entry
           /\ r.nominal_length = b.nominal_length /\ r.recalculate = b.recalculate
           /\ r.is_ticking = b.is_ticking
           /\ r.entry <= b.max_entry
           /\ b.entry <= v + b.reach => b.entry <= r.entry /\ r.entry <= v + b.reach
    BY DEF Limits
  <1> QED BY DEF reverse_pass, Block, Limits, max_allowable_speed, min

(* The forward pass lowers the entry speed to the one it is given, if that  *)
(* is lower.                                                               *)
LEMMA ForwardSpeeds ==
    ASSUME NEW b \in Block, NEW v \in Nat, Limits(b)
    PROVE  LET f == forward_pass(b, v) IN
           /\ f.nominal = b.nominal /\ f.reach = b.reach /\ f.max_entry = b.max_entry
           /\ f.nominal_length = b.nominal_length
           /\ f.recalculate => b.recalculate
           /\ Limits(f)
           /\ f.entry <= b.entry /\ f.entry <= v
           /\ f.entry = b.entry \/ f.entry = v
  <1> SUFFICES LET f == forward_pass(b, v) IN
           /\ f.nominal = b.nominal /\ f.reach = b.reach /\ f.max_entry = b.max_entry
           /\ f.nominal_length = b.nominal_length
           /\ f.recalculate => b.recalculate
           /\ f.is_ticking = b.is_ticking
           /\ f.entry <= b.entry /\ f.entry <= v
           /\ f.entry = b.entry \/ f.entry = v
    BY DEF Limits, Block, forward_pass, min
  <1> QED BY DEF forward_pass, Block, Limits, min

LEMMA FeasibleInit == Init => FeasibleInv
  <1> SUFFICES ASSUME Init
               PROVE  FeasibleInv
    OBVIOUS
  <1>1. \A n \in Slots : ~InQueue(n)
    BY SlotsType, Distances DEF Init, InQueue
  <1> QED BY <1>1 DEF Init, FeasibleInv, SlotsFit, Limits, TickIsQueued, HeadFits, SlowsDown, WalkFits,
                      Returning, TrapezoidFits, QueueFits, Cleared

(* A step that leaves the ring alone.                                       *)
LEMMA RingKept ==
    ASSUME m_rIndex' = m_rIndex, m_wIndex' = m_wIndex
    PROVE  \A n \in Slots : Behind(n)' = Behind(n) /\ InQueue(n)' = InQueue(n)
  BY DEF Behind, InQueue

(* The steps of the planner that only compute.                              *)
Compute == recalculate \/ ReverseEnd \/ ForwardEnd \/ FinalTrapezoid
             \/ TrapezoidSkipped \/ TrapezoidComputed

LEMMA FeasibleCompute ==
    ASSUME minimum_planner_speed = 0, TypeOK, FeasibleInv, Compute
    PROVE  FeasibleInv'
  <1> USE DEF FeasibleInv, queueVars, tickVars, walkVars
  <1>1. /\ UNCHANGED <<blocks, m_rIndex, m_wIndex, ticking>>
        /\ pc # "idle" /\ pc # "commit"
        /\ blocks \in [Slots -> Block] /\ m_rIndex \in Slots /\ m_wIndex \in Slots /\ iter \in Slots
    BY DEF Compute, recalculate, ReverseEnd, ForwardEnd, FinalTrapezoid, TrapezoidSkipped,
           TrapezoidComputed, TypeOK
  <1>2. \A n \in Slots : Behind(n)' = Behind(n) /\ InQueue(n)' = InQueue(n)
    BY <1>1, RingKept
  <1>3. pc' # "idle"
    BY SlotsType DEF Compute, recalculate, ReverseEnd, ForwardEnd, FinalTrapezoid, TrapezoidSkipped,
           TrapezoidComputed, TrapezoidFits, TypeOK
  <1>4. SlotsFit' /\ TickIsQueued' /\ HeadFits' /\ SlowsDown'
    <2>1. SlotsFit' /\ TickIsQueued' /\ HeadFits'
      BY <1>1, <1>3 DEF SlotsFit, TickIsQueued, HeadFits
    <2>2. SlowsDown'
      BY <1>1, <1>2, <1>3, SlotsType DEF SlowsDown
    <2> QED BY <2>1, <2>2
  <1>5. WalkFits'
    <2>1. CASE recalculate
      BY <1>1, <1>2, <2>1, Distances DEF recalculate, WalkFits, Returning
    <2>2. CASE ReverseEnd
      BY <1>1, <2>2 DEF ReverseEnd, WalkFits, Returning, max_exit_speed, max_allowable_speed, Reached
    <2>3. CASE ForwardEnd
      BY <1>1, <2>3 DEF ForwardEnd, WalkFits, Returning
    <2>4. CASE FinalTrapezoid
      BY <1>1, <2>4 DEF FinalTrapezoid, WalkFits, Returning
    <2>5. CASE TrapezoidSkipped
      BY <1>1, <2>5 DEF TrapezoidSkipped, WalkFits, Returning, TrapezoidFits
    <2>6. CASE TrapezoidComputed
      BY <1>1, <2>6 DEF TrapezoidComputed, WalkFits, Returning
    <2> QED BY <2>1, <2>2, <2>3, <2>4, <2>5, <2>6 DEF Compute
  <1>6. TrapezoidFits'
    <2>1. CASE recalculate \/ ReverseEnd \/ ForwardEnd \/ TrapezoidSkipped
      BY <1>1, <2>1 DEF recalculate, ReverseEnd, ForwardEnd, TrapezoidSkipped, TrapezoidFits
    <2>2. CASE FinalTrapezoid
      <3>1. /\ trapezoid' = [slot |-> m_wIndex, entry |-> blocks[m_wIndex].entry,
                             exit |-> 0, then |-> "commit"]
            /\ blocks[m_wIndex].entry <= blocks[m_wIndex].reach
            /\ Limits(blocks[m_wIndex]) /\ blocks[m_wIndex] \in Block
        BY <1>1, <2>2 DEF FinalTrapezoid, WalkFits, HeadFits, SlotsFit
      <3>2. Drives(blocks[m_wIndex], blocks[m_wIndex].entry, 0)
        BY <3>1 DEF Drives, Limits, Block
      <3> QED BY <1>1, <3>1, <3>2 DEF TrapezoidFits
    <2>3. CASE TrapezoidComputed
      BY <1>1, <1>2, <2>3 DEF TrapezoidComputed, TrapezoidFits, TypeOK
    <2> QED BY <2>1, <2>2, <2>3 DEF Compute
  <1>7. QueueFits'
    <2>1. pc' # "commit"
      BY <1>1 DEF Compute, recalculate, ReverseEnd, ForwardEnd, FinalTrapezoid, TrapezoidSkipped,
             TrapezoidComputed, TrapezoidFits, HeadFits
    <2> QED BY <1>1, <1>2, <2>1 DEF QueueFits
  <1> QED BY <1>4, <1>5, <1>6, <1>7

(* Where the reverse walk comes to in a queue that has not been flushed     *)
(* behind it, and that it can only raise the entry speed there.            *)
LEMMA ReverseRoom ==
    ASSUME TypeOK, FeasibleInv, ReverseWalk, m_rIndex # m_wIndex
    PROVE  /\ speed = IF iter = m_wIndex THEN 0 ELSE blocks[next(iter)].entry
           /\ Behind(iter) < Behind(m_rIndex)
           /\ iter = m_wIndex \/ InQueue(iter)
           /\ blocks[iter].entry <= speed + blocks[iter].reach
  <1> USE DEF FeasibleInv
  <1>1. /\ pc = "reverse" /\ iter # m_rIndex /\ blocks[iter].recalculate
        /\ m_rIndex \in Slots /\ m_wIndex \in Slots /\ iter \in Slots /\ speed \in Nat
        /\ blocks[iter] \in Block /\ ~blocks[iter].is_ticking
    BY DEF ReverseWalk, TypeOK, SlotsFit, Limits
  <1>2. /\ speed = IF iter = m_wIndex THEN 0 ELSE blocks[next(iter)].entry
        /\ Behind(iter) <= Behind(m_rIndex)
    BY <1>1 DEF WalkFits
  <1>3. Behind(iter) # Behind(m_rIndex)
    BY <1>1, SizeAssumption DEF Behind, Slots
  <1>4. Behind(iter) \in Nat /\ Behind(m_rIndex) \in Nat
    BY <1>1, Distances, SizeAssumption
  <1>5. iter = m_wIndex \/ InQueue(iter)
    BY <1>1, <1>2, <1>4, Distances DEF InQueue
  <1>6. blocks[iter].entry <= speed + blocks[iter].reach
    <2>1. CASE iter = m_wIndex
      BY <1>1, <1>2, <2>1 DEF HeadFits, Block
    <2>2. CASE iter # m_wIndex
      BY <1>1, <1>2, <1>5, <2>2 DEF SlowsDown
    <2> QED BY <2>1, <2>2
  <1> QED BY <1>2, <1>3, <1>4, <1>5, <1>6

LEMMA FeasibleReverse ==
    ASSUME TypeOK, FeasibleInv, ReverseWalk
    PROVE  FeasibleInv'
  <1> USE DEF FeasibleInv, tickVars
  <1> DEFINE b == blocks[iter]
             r == reverse_pass(b, speed)
  <1>1. /\ UNCHANGED <<m_rIndex, m_wIndex, ticking, pc, trapezoid>>
        /\ pc = "reverse" /\ iter # m_rIndex /\ b.recalculate
        /\ blocks' = [blocks EXCEPT ![iter] = r] /\ speed' = blocks'[iter].entry
        /\ iter' = prev(iter)
        /\ blocks \in [Slots -> Block] /\ m_rIndex \in Slots /\ m_wIndex \in Slots
        /\ iter \in Slots /\ speed \in Nat /\ b \in Block
    BY DEF ReverseWalk, TypeOK
  <1>2. \A n \in Slots : Behind(n)' = Behind(n) /\ InQueue(n)' = InQueue(n)
    BY <1>1, RingKept
  <1>3. /\ r \in Block /\ Limits(b) /\ Limits(r) /\ r.is_ticking = b.is_ticking /\ ~b.is_ticking
        /\ r.initial = b.initial /\ r.exit = b.exit /\ r.recalculate = b.recalculate
        /\ r.nominal = b.nominal /\ r.reach = b.reach /\ r.max_entry = b.max_entry
        /\ r.nominal_length = b.nominal_length
        /\ b.entry <= speed + b.reach => b.entry <= r.entry /\ r.entry <= speed + b.reach
    <2>1. Limits(b)
      BY <1>1 DEF SlotsFit
    <2> QED BY <1>1, <2>1, ReverseSpeeds, ReversePass DEF Limits
  <1> HIDE DEF r, b
  <1>4. \A n \in Slots : blocks'[n] = IF n = iter THEN r ELSE blocks[n]
    BY <1>1
  <1>5. m_rIndex # m_wIndex => /\ speed = IF iter = m_wIndex THEN 0 ELSE blocks[next(iter)].entry
                               /\ Behind(iter) < Behind(m_rIndex)
                               /\ iter = m_wIndex \/ InQueue(iter)
                               /\ b.entry <= speed + b.reach
    BY <1>1, ReverseRoom DEF b
  <1>6. m_rIndex = m_wIndex => \A n \in Slots : ~InQueue(n)
    BY <1>1, Distances, SizeAssumption DEF InQueue
  <1>7. SlotsFit' /\ TickIsQueued'
    BY <1>1, <1>3, <1>4 DEF SlotsFit, TickIsQueued
  <1>8. HeadFits'
    <2>1. CASE iter = m_wIndex
      BY <1>1, <1>3, <1>4, <1>5, <2>1 DEF HeadFits, Block, b
    <2>2. CASE iter # m_wIndex
      BY <1>1, <1>4, <2>2 DEF HeadFits
    <2> QED BY <2>1, <2>2
  <1>9. SlowsDown'
    <2> SUFFICES ASSUME NEW n \in Slots, InQueue(n), ~blocks'[n].is_ticking
                 PROVE  blocks'[n].entry <= blocks'[next(n)].entry + blocks'[n].reach
      BY <1>1, <1>2 DEF SlowsDown
    <2>1. m_rIndex # m_wIndex /\ n # m_wIndex /\ next(n) \in Slots /\ next(n) # n
      BY <1>1, <1>6, SlotsType, Distances DEF InQueue
    <2>2. blocks[n] \in Block /\ blocks[next(n)] \in Block
      BY <1>1, <2>1
    <2>3. CASE n = iter
      BY <1>3, <1>4, <1>5, <2>1, <2>2, <2>3 DEF b
    <2>4. CASE n # iter
      <3>1. ~blocks[n].is_ticking /\ blocks[n].entry <= blocks[next(n)].entry + blocks[n].reach
        BY <1>1, <1>4, <2>1, <2>4 DEF SlowsDown
      <3>2. blocks[next(n)].entry <= blocks'[next(n)].entry /\ blocks'[next(n)].entry \in Nat
        BY <1>3, <1>4, <1>5, <2>1, <2>2 DEF b, Block
      <3> QED BY <1>4, <2>2, <2>4, <3>1, <3>2 DEF Block
    <2> QED BY <2>3, <2>4
  <1>10. WalkFits'
    <2>1. next(prev(iter)) = iter
      BY <1>1, Neighbours
    <2>2. m_rIndex # m_wIndex => Behind(iter') = Behind(iter) + 1 /\ iter' # m_wIndex
                                 /\ Behind(iter') <= Behind(m_rIndex)
      BY <1>1, <1>5, Distances, SizeAssumption, SlotsType
    <2> QED BY <1>1, <1>2, <2>1, <2>2, SlotsType DEF WalkFits, Returning
  <1>11. TrapezoidFits'
    BY <1>1 DEF TrapezoidFits
  <1>12. QueueFits'
    BY <1>1, <1>2, <1>3, <1>4 DEF QueueFits, Drives, b
  <1> QED BY <1>7, <1>8, <1>9, <1>10, <1>11, <1>12

LEMMA FeasibleForward ==
    ASSUME TypeOK, FeasibleInv, ForwardWalk
    PROVE  FeasibleInv'
  <1> USE DEF FeasibleInv, tickVars
  <1> DEFINE a == blocks[iter]
             c == next(iter)
             b == blocks[c]
             f == forward_pass(b, speed)
  <1>1. /\ UNCHANGED <<m_rIndex, m_wIndex, ticking>>
        /\ pc = "forward" /\ pc' = "trapezoid" /\ iter # m_wIndex
        /\ iter' = c /\ blocks' = [blocks EXCEPT ![c] = f] /\ speed' = max_exit_speed(f)
        /\ trapezoid' = [slot |-> iter, entry |-> a.entry, exit |-> f.entry, then |-> "forward"]
        /\ blocks \in [Slots -> Block] /\ m_rIndex \in Slots /\ m_wIndex \in Slots
        /\ iter \in Slots /\ speed \in Nat /\ c \in Slots /\ c # iter /\ a \in Block /\ b \in Block
    BY SlotsType DEF ForwardWalk, TypeOK
  <1>2. \A n \in Slots : Behind(n)' = Behind(n) /\ InQueue(n)' = InQueue(n)
    BY <1>1, RingKept
  <1>3. /\ f \in Block /\ Limits(b) /\ Limits(f) /\ f.is_ticking = b.is_ticking
        /\ f.initial = b.initial /\ f.exit = b.exit
        /\ f.recalculate => b.recalculate
        /\ f.nominal = b.nominal /\ f.reach = b.reach /\ f.max_entry = b.max_entry
        /\ f.entry <= b.entry /\ f.entry <= speed /\ (f.entry = b.entry \/ f.entry = speed)
        /\ Limits(a)
    <2>1. Limits(b) /\ Limits(a)
      BY <1>1 DEF SlotsFit
    <2> HIDE DEF a, b, c
    <2>2. forward_pass(b, speed) \in Block /\ forward_pass(b, speed).is_ticking = b.is_ticking
          /\ forward_pass(b, speed).initial = b.initial /\ forward_pass(b, speed).exit = b.exit
      BY <1>1, ForwardPass
    <2> QED BY <1>1, <2>1, <2>2, ForwardSpeeds
  <1>4. ~a.is_ticking => speed = Reached(a)
    BY <1>1 DEF WalkFits, Returning
  <1> HIDE DEF a, b, c, f
  <1>5. \A n \in Slots : blocks'[n] = IF n = c THEN f ELSE blocks[n]
    BY <1>1
  <1>6. SlotsFit' /\ TickIsQueued' /\ HeadFits'
    <2>1. SlotsFit'
      BY <1>1, <1>3, <1>5 DEF SlotsFit
    <2>2. TickIsQueued'
      <3>1. \A n \in Slots : blocks'[n].recalculate => blocks[n].recalculate
        BY <1>3, <1>5 DEF b
      <3> QED BY <1>1, <3>1 DEF TickIsQueued
    <2>3. HeadFits'
      BY <1>1, <1>3, <1>5 DEF HeadFits, b, Block
    <2> QED BY <2>1, <2>2, <2>3
  <1>7. InQueue(iter) /\ ~a.is_ticking => a.entry <= f.entry + a.reach
    <2> SUFFICES ASSUME InQueue(iter), ~a.is_ticking
                 PROVE  a.entry <= f.entry + a.reach
      OBVIOUS
    <2>1. a.entry <= b.entry + a.reach
      BY <1>1 DEF SlowsDown, a, b, c
    <2>2. a.entry <= Reached(a) + a.reach
      BY <1>1, <1>3 DEF Reached, min, Limits, Block
    <2> QED BY <1>3, <1>4, <2>1, <2>2
  <1>8. SlowsDown'
    <2> SUFFICES ASSUME NEW n \in Slots, InQueue(n), ~blocks'[n].is_ticking
                 PROVE  blocks'[n].entry <= blocks'[next(n)].entry + blocks'[n].reach
      BY <1>1, <1>2 DEF SlowsDown
    <2>1. next(n) \in Slots /\ next(n) # n /\ blocks[n] \in Block /\ blocks[next(n)] \in Block
      BY <1>1, SlotsType
    <2>2. CASE n = iter
      BY <1>1, <1>5, <1>7, <2>1, <2>2 DEF a, c
    <2>3. CASE n # iter
      <3>1. next(n) # c
        BY <1>1, <2>3, Neighbours, SizeAssumption DEF c, Slots
      <3>2. ~blocks[n].is_ticking /\ blocks[n].reach \in Nat /\ blocks'[n].reach = blocks[n].reach
            /\ blocks'[n].entry <= blocks[n].entry
            /\ blocks'[n].entry \in Nat /\ blocks[n].entry \in Nat /\ blocks[next(n)].entry \in Nat
        BY <1>3, <1>5, <2>1 DEF b, Block
      <3>3. blocks[n].entry <= blocks[next(n)].entry + blocks[n].reach
        BY <1>1, <3>2 DEF SlowsDown
      <3> QED BY <1>5, <2>1, <3>1, <3>2, <3>3
    <2> QED BY <2>2, <2>3
  <1>9. WalkFits'
    BY <1>1, <1>3, <1>5 DEF WalkFits, Returning, max_exit_speed, max_allowable_speed, Reached
  <1>10. TrapezoidFits'
    <2>1. ASSUME InQueue(iter), ~a.is_ticking
          PROVE  Drives(a, a.entry, f.entry)
      <3>1. f.entry <= a.entry + a.reach /\ f.entry <= a.nominal
        BY <1>1, <1>3, <1>4, <2>1 DEF Reached, min, Limits, Block
      <3> QED BY <1>3, <1>7, <2>1, <3>1 DEF Drives, Limits
    <2>2. blocks'[iter] = a
      BY <1>1, <1>5 DEF a
    <2> QED BY <1>1, <1>2, <2>1, <2>2 DEF TrapezoidFits
  <1>11. QueueFits'
    <2>1. \A n \in Slots :
             /\ blocks'[n].nominal = blocks[n].nominal /\ blocks'[n].reach = blocks[n].reach
             /\ blocks'[n].max_entry = blocks[n].max_entry
             /\ blocks'[n].initial = blocks[n].initial /\ blocks'[n].exit = blocks[n].exit
      BY <1>3, <1>5 DEF b
    <2> QED BY <1>1, <1>2, <2>1 DEF QueueFits, Drives
  <1> QED BY <1>6, <1>8, <1>9, <1>10, <1>11

LEMMA FeasibleAppend ==
    ASSUME minimum_planner_speed = 0, TypeOK, FeasibleInv,
           NEW move \in Moves, append_block(move)
    PROVE  FeasibleInv'
  <1> USE DEF FeasibleInv, tickVars
  <1>1. PICK v \in JunctionSpeeds(move) : blocks' = [blocks EXCEPT ![m_wIndex] = NewBlock(move, v)]
    BY DEF append_block
  <1> DEFINE b == NewBlock(move, v)
  <1>2. /\ UNCHANGED <<m_rIndex, m_wIndex, ticking, trapezoid>>
        /\ pc = "idle" /\ pc' = "start" /\ iter' = m_wIndex /\ speed' = 0
        /\ blocks \in [Slots -> Block] /\ m_rIndex \in Slots /\ m_wIndex \in Slots
    BY DEF append_block, TypeOK
  <1>3. \A n \in Slots : Behind(n)' = Behind(n) /\ InQueue(n)' = InQueue(n)
    BY <1>2, RingKept
  <1>4. v \in Nat /\ v <= move.nominal /\ move.nominal \in Nat /\ move.reach \in Nat
    <2>1. v \in Nat /\ move.nominal \in Nat /\ move.reach \in Nat /\ Junctions \subseteq Nat
      BY JunctionType, SpeedAssumption
    <2>2. blocks[prev(m_wIndex)].nominal \in Nat
      BY <1>2, SlotsType DEF Block
    <2> QED BY <2>1, <2>2 DEF JunctionSpeeds, min
  <1>5. b \in Block /\ Limits(b) /\ ~b.is_ticking /\ b.entry <= b.reach
    <2>1. b \in Block
      BY <1>4, NewBlockType
    <2>2. /\ b.entry = min(v, move.reach) /\ b.max_entry = v /\ b.nominal = move.nominal
          /\ b.reach = move.reach /\ ~b.is_ticking
          /\ b.nominal_length => move.nominal <= move.reach
      BY <1>4, NewBlockSpeeds
    <2> HIDE DEF b
    <2> QED BY <1>4, <2>1, <2>2 DEF Limits, min
  <1> HIDE DEF b
  <1>6. \A n \in Slots : blocks'[n] = IF n = m_wIndex THEN b ELSE blocks[n]
    BY <1>1, <1>2 DEF b
  <1>7. SlotsFit' /\ TickIsQueued' /\ HeadFits'
    BY <1>2, <1>5, <1>6 DEF SlotsFit, TickIsQueued, HeadFits
  <1>8. SlowsDown'
    <2> SUFFICES ASSUME NEW n \in Slots, InQueue(n), ~blocks'[n].is_ticking
                 PROVE  blocks'[n].entry <= blocks'[next(n)].entry + blocks'[n].reach
      BY <1>2, <1>3 DEF SlowsDown
    <2>1. n # m_wIndex /\ next(n) \in Slots /\ blocks[n] \in Block
      BY <1>2, SlotsType, Distances DEF InQueue
    <2>2. b.entry \in Nat /\ blocks[n].entry \in Nat /\ blocks[n].reach \in Nat
      BY <1>5, <2>1 DEF Block
    <2> QED BY <1>2, <1>6, <2>1, <2>2 DEF SlowsDown
  <1>9. WalkFits'
    BY <1>2 DEF WalkFits, Returning
  <1>10. TrapezoidFits'
    BY <1>2 DEF TrapezoidFits
  <1>11. QueueFits'
    <2>1. \A n \in Slots : InQueue(n) => n # m_wIndex
      BY <1>2, Distances DEF InQueue
    <2> QED BY <1>2, <1>3, <1>6, <2>1 DEF QueueFits
  <1> QED BY <1>7, <1>8, <1>9, <1>10, <1>11

(* A lock, or the mark of an executing block, leaves the speeds alone.      *)
LEMMA FeasibleMarks ==
    ASSUME TypeOK, FeasibleInv, TrapezoidLocked \/ get_next_block
    PROVE  FeasibleInv'
  <1> USE DEF FeasibleInv, queueVars, walkVars, tickVars
  <1>1. /\ UNCHANGED <<m_rIndex, m_wIndex, iter, speed, trapezoid>>
        /\ blocks \in [Slots -> Block] /\ m_rIndex \in Slots /\ m_wIndex \in Slots
        /\ iter \in Slots /\ trapezoid.slot \in Slots
        /\ pc' = pc \/ (pc = "lock" /\ pc' = "store")
    BY DEF TrapezoidLocked, get_next_block, TypeOK
  <1>2. \A n \in Slots : Behind(n)' = Behind(n) /\ InQueue(n)' = InQueue(n)
    BY <1>1, RingKept
  <1>3. \A n \in Slots :
           LET b == blocks[n]
               d == blocks'[n]
           IN  /\ d.nominal = b.nominal /\ d.reach = b.reach /\ d.max_entry = b.max_entry
               /\ d.entry = b.entry /\ d.initial = b.initial /\ d.exit = b.exit
               /\ d.nominal_length = b.nominal_length
               /\ d.recalculate => b.recalculate
               /\ b.is_ticking => d.is_ticking
               /\ d.is_ticking => b.is_ticking \/ (n = m_rIndex /\ ~d.recalculate /\ m_rIndex # m_wIndex)
    <2>1. CASE TrapezoidLocked
      BY <1>1, <2>1 DEF TrapezoidLocked, Block
    <2>2. CASE get_next_block
      BY <1>1, <2>2 DEF get_next_block, Block, empty
    <2> QED BY <2>1, <2>2
  <1>4. SlotsFit'
    BY <1>3 DEF SlotsFit, Limits
  <1>5. TickIsQueued'
    <2>1. CASE TrapezoidLocked
      BY <1>1, <1>3, <2>1 DEF TrapezoidLocked, TickIsQueued
    <2>2. CASE get_next_block
      BY <1>1, <2>2 DEF get_next_block, TickIsQueued, empty, Block
    <2> QED BY <2>1, <2>2
  <1>6. HeadFits'
    BY <1>1, <1>3 DEF HeadFits
  <1>7. SlowsDown'
    BY <1>1, <1>2, <1>3, SlotsType DEF SlowsDown
  <1>8. WalkFits'
    <2>1. pc' = "reverse" => pc = "reverse"
      BY <1>1
    <2>2. blocks'[iter].recalculate => blocks[iter].recalculate
      BY <1>1, <1>3
    <2>3. Returning' => Returning
      BY <1>1 DEF Returning
    <2>4. Reached(blocks[iter])' = Reached(blocks[iter])
      BY <1>1, <1>3 DEF Reached
    <2> QED BY <1>1, <1>2, <1>3, <2>1, <2>2, <2>3, <2>4, SlotsType DEF WalkFits
  <1>9. TrapezoidFits'
    BY <1>1, <1>2, <1>3 DEF TrapezoidFits, Drives
  <1>10. QueueFits'
    BY <1>1, <1>2, <1>3 DEF QueueFits, Drives
  <1> QED BY <1>4, <1>5, <1>6, <1>7, <1>8, <1>9, <1>10

LEMMA FeasibleStored ==
    ASSUME TypeOK, FeasibleInv, TrapezoidStored
    PROVE  FeasibleInv'
  <1> USE DEF FeasibleInv, queueVars, walkVars, tickVars
  <1>1. /\ UNCHANGED <<m_rIndex, m_wIndex, iter, speed, trapezoid, ticking>>
        /\ pc = "store" /\ pc' = trapezoid.then
        /\ blocks' = [blocks EXCEPT ![trapezoid.slot] =
                         [@ EXCEPT !.initial = trapezoid.entry, !.exit = trapezoid.exit,
                                   !.locked = FALSE]]
        /\ blocks \in [Slots -> Block] /\ m_rIndex \in Slots /\ m_wIndex \in Slots
        /\ iter \in Slots /\ trapezoid.slot \in Slots
    BY DEF TrapezoidStored, TypeOK
  <1>2. \A n \in Slots : Behind(n)' = Behind(n) /\ InQueue(n)' = InQueue(n)
    BY <1>1, RingKept
  <1>3. \A n \in Slots :
           LET b == blocks[n]
               d == blocks'[n]
           IN  /\ d.nominal = b.nominal /\ d.reach = b.reach /\ d.max_entry = b.max_entry
               /\ d.entry = b.entry /\ d.nominal_length = b.nominal_length
               /\ d.recalculate = b.recalculate /\ d.is_ticking = b.is_ticking
               /\ d.initial = IF n = trapezoid.slot THEN trapezoid.entry ELSE b.initial
               /\ d.exit = IF n = trapezoid.slot THEN trapezoid.exit ELSE b.exit
    BY <1>1 DEF Block
  <1>4. /\ pc' = IF trapezoid.slot = m_wIndex THEN "commit" ELSE "forward"
        /\ trapezoid.slot = m_wIndex \/ InQueue(trapezoid.slot) =>
              Drives(blocks[trapezoid.slot], trapezoid.entry, trapezoid.exit)
    BY <1>1 DEF TrapezoidFits
  <1>5. SlotsFit' /\ TickIsQueued' /\ HeadFits'
    BY <1>1, <1>3 DEF SlotsFit, Limits, TickIsQueued, HeadFits
  <1>6. SlowsDown'
    BY <1>1, <1>2, <1>3, <1>4, SlotsType DEF SlowsDown
  <1>7. WalkFits'
    BY <1>1, <1>3, <1>4 DEF WalkFits, Returning, Reached, TrapezoidFits
  <1>8. TrapezoidFits'
    BY <1>4 DEF TrapezoidFits
  <1>9. QueueFits'
    BY <1>1, <1>2, <1>3, <1>4 DEF QueueFits, Drives
  <1> QED BY <1>5, <1>6, <1>7, <1>8, <1>9

LEMMA FeasibleCommit ==
    ASSUME TypeOK, FeasibleInv, queue_head
    PROVE  FeasibleInv'
  <1> USE DEF FeasibleInv, tickVars
  <1>1. /\ UNCHANGED <<blocks, m_rIndex, ticking>>
        /\ pc = "commit" /\ pc' = "idle" /\ m_wIndex' = next(m_wIndex) /\ m_wIndex' # m_rIndex
        /\ blocks \in [Slots -> Block] /\ m_rIndex \in Slots /\ m_wIndex \in Slots
        /\ m_wIndex' \in Slots
    BY SlotsType DEF queue_head, TypeOK, full
  <1>2. ASSUME NEW n \in Slots, InQueue(n)'
        PROVE  /\ InQueue(n) \/ n = m_wIndex
               /\ next(n) = m_wIndex' <=> n = m_wIndex
               /\ n # m_wIndex => next(n) # m_wIndex'
    <2>1. /\ next(m_wIndex) = IF m_wIndex = Size - 1 THEN 0 ELSE m_wIndex + 1
          /\ next(n) = IF n = Size - 1 THEN 0 ELSE n + 1
          /\ Size \in Nat /\ Size >= 2 /\ m_wIndex \in 0 .. Size - 1 /\ m_rIndex \in 0 .. Size - 1
          /\ n \in 0 .. Size - 1
      BY <1>1, Neighbours, SizeAssumption DEF Slots
    <2> QED BY <1>1, <1>2, <2>1 DEF InQueue, Behind
  <1>3. SlotsFit' /\ TickIsQueued' /\ HeadFits' /\ TrapezoidFits' /\ WalkFits'
    BY <1>1 DEF SlotsFit, TickIsQueued, HeadFits, TrapezoidFits, WalkFits, Returning
  <1>4. SlowsDown'
    <2> SUFFICES ASSUME NEW n \in Slots, InQueue(n)', ~blocks[n].is_ticking
                 PROVE  IF next(n) = m_wIndex' THEN blocks[n].entry <= blocks[n].reach
                        ELSE blocks[n].entry <= blocks[next(n)].entry + blocks[n].reach
      BY <1>1 DEF SlowsDown
    <2>1. CASE n = m_wIndex
      BY <1>1, <1>2, <2>1 DEF HeadFits
    <2>2. CASE n # m_wIndex
      BY <1>1, <1>2, <2>2 DEF SlowsDown
    <2> QED BY <2>1, <2>2
  <1>5. QueueFits'
    BY <1>1, <1>2 DEF QueueFits
  <1> QED BY <1>3, <1>4, <1>5

(* A queue that is emptied: a halt, an abort, or the block dropped for one. *)
LEMMA FeasibleEmptied ==
    ASSUME TypeOK, FeasibleInv, DropHead \/ flush
    PROVE  FeasibleInv'
  <1> USE DEF FeasibleInv, walkVars
  <1>1. /\ m_rIndex' = m_wIndex /\ m_wIndex' = m_wIndex /\ ticking' = FALSE
        /\ blocks \in [Slots -> Block] /\ m_rIndex \in Slots /\ m_wIndex \in Slots
    BY DEF DropHead, flush, TypeOK
  <1>2. \A n \in Slots : ~InQueue(n)'
    <2> SUFFICES ASSUME NEW n \in Slots
                 PROVE  ~InQueue(n)'
      OBVIOUS
    <2> QED BY <1>1, SizeAssumption DEF InQueue, Behind, Slots
  <1>3. CASE DropHead
    <2>1. pc' = "idle" /\ blocks' = [blocks EXCEPT ![m_wIndex] = Cleared]
      BY <1>3 DEF DropHead
    <2>2. Limits(Cleared)
      BY DEF Limits, Cleared
    <2> QED BY <1>1, <1>2, <2>1, <2>2 DEF SlotsFit, TickIsQueued, HeadFits, SlowsDown, WalkFits, Returning,
                                          TrapezoidFits, QueueFits
  <1>4. CASE flush
    <2>1. UNCHANGED <<blocks, pc, iter, speed, trapezoid>>
      BY <1>4 DEF flush
    <2>2. SlotsFit' /\ TickIsQueued' /\ HeadFits' /\ SlowsDown'
      BY <1>1, <1>2, <2>1 DEF SlotsFit, TickIsQueued, HeadFits, SlowsDown
    <2>3. WalkFits'
      BY <1>1, <2>1 DEF WalkFits, Returning
    <2>4. TrapezoidFits'
      BY <1>1, <1>2, <2>1 DEF TrapezoidFits, TypeOK
    <2>5. QueueFits'
      BY <1>1, <1>2, <2>1 DEF QueueFits
    <2> QED BY <2>2, <2>3, <2>4, <2>5
  <1> QED BY <1>3, <1>4

LEMMA FeasibleReleased ==
    ASSUME TypeOK, FeasibleInv, block_finished
    PROVE  FeasibleInv'
  <1> USE DEF FeasibleInv, walkVars
  <1>1. /\ UNCHANGED <<blocks, m_wIndex, pc, iter, speed, trapezoid>>
        /\ m_rIndex' = next(m_rIndex) /\ ticking' = FALSE
        /\ m_rIndex # m_wIndex /\ ~blocks[m_rIndex].recalculate
        /\ blocks \in [Slots -> Block] /\ m_rIndex \in Slots /\ m_wIndex \in Slots
        /\ iter \in Slots /\ trapezoid.slot \in Slots
    BY DEF block_finished, TickIsQueued, TypeOK
  <1>2. \A n \in Slots : Behind(n)' = Behind(n)
    BY <1>1 DEF Behind
  <1>3. Behind(m_rIndex)' = Behind(m_rIndex) - 1
    <2>1. Behind(next(m_rIndex)) = Behind(m_rIndex) - 1
      BY <1>1, Distances
    <2> QED BY <1>1, <2>1 DEF Behind
  <1>4. \A n \in Slots : InQueue(n)' => InQueue(n)
    <2> SUFFICES ASSUME NEW n \in Slots, InQueue(n)'
                 PROVE  InQueue(n)
      OBVIOUS
    <2>1. Behind(n) \in Int /\ Behind(m_rIndex) \in Int
      BY <1>1, Distances
    <2> QED BY <1>2, <1>3, <2>1 DEF InQueue
  <1>5. SlotsFit' /\ TickIsQueued' /\ HeadFits'
    BY <1>1 DEF SlotsFit, TickIsQueued, HeadFits
  <1>6. SlowsDown'
    BY <1>1, <1>4 DEF SlowsDown
  <1>7. WalkFits'
    <2>1. Behind(iter) <= Behind(m_rIndex) =>
              Behind(iter) <= Behind(m_rIndex) - 1 \/ iter = m_rIndex
      <3>1. Size \in Nat /\ m_wIndex \in 0 .. Size - 1 /\ iter \in 0 .. Size - 1
            /\ m_rIndex \in 0 .. Size - 1
        BY <1>1, SizeAssumption DEF Slots
      <3> QED BY <3>1 DEF Behind
    <2>2. Behind(iter)' = Behind(iter)
      BY <1>1, <1>2 DEF Behind
    <2> QED BY <1>1, <1>3, <2>1, <2>2 DEF WalkFits, Returning
  <1>8. TrapezoidFits'
    BY <1>1, <1>4 DEF TrapezoidFits
  <1>9. QueueFits'
    BY <1>1, <1>4 DEF QueueFits
  <1> QED BY <1>5, <1>6, <1>7, <1>8, <1>9

LEMMA FeasibleNext ==
    ASSUME minimum_planner_speed = 0, TypeOK, FeasibleInv, [Next]_vars
    PROVE  FeasibleInv'
  <1>1. CASE \E move \in Moves : append_block(move)
    BY <1>1, FeasibleAppend
  <1>2. CASE Compute
    BY <1>2, FeasibleCompute
  <1>3. CASE ReverseWalk
    BY <1>3, FeasibleReverse
  <1>4. CASE ForwardWalk
    BY <1>4, FeasibleForward
  <1>5. CASE TrapezoidLocked \/ get_next_block
    BY <1>5, FeasibleMarks
  <1>6. CASE TrapezoidStored
    BY <1>6, FeasibleStored
  <1>7. CASE queue_head
    BY <1>7, FeasibleCommit
  <1>8. CASE DropHead \/ flush
    BY <1>8, FeasibleEmptied
  <1>9. CASE block_finished
    BY <1>9, FeasibleReleased
  <1>10. CASE UNCHANGED vars
    BY <1>10 DEF vars, queueVars, walkVars, tickVars, FeasibleInv, SlotsFit, TickIsQueued, HeadFits,
                 SlowsDown, InQueue, Behind, WalkFits, Returning, TrapezoidFits, QueueFits
  <1> QED BY <1>1, <1>2, <1>3, <1>4, <1>5, <1>6, <1>7, <1>8, <1>9, <1>10
          DEF Next, Planner, Interrupt, Compute

LEMMA FeasibleSuffices == TypeOK /\ FeasibleInv => AllFeasible
  <1> SUFFICES ASSUME TypeOK, FeasibleInv, NEW i \in 0 .. Count - 1
               PROVE  Feasible(Queued(i))
    BY DEF AllFeasible
  <1> DEFINE n == (m_rIndex + i) % Size
  <1>1. n \in Slots /\ InQueue(n)
    BY QueuedSlots DEF TypeOK
  <1>2. Drives(blocks[n], blocks[n].initial, blocks[n].exit)
    BY <1>1 DEF FeasibleInv, QueueFits
  <1>3. Limits(blocks[n]) /\ blocks[n] \in Block
    BY <1>1 DEF FeasibleInv, SlotsFit, TypeOK
  <1> HIDE DEF n
  <1>4. Feasible(blocks[n])
    BY <1>2, <1>3 DEF Feasible, Drives, Limits, min, Block
  <1> QED BY <1>4 DEF Queued, n

(* Whatever the interrupt does while the planner walks, every block of the  *)
(* queue can be driven with its acceleration, for rings of any size and any *)
(* moves, when no minimum speed is configured.                             *)
THEOREM BlocksAreFeasible ==
    ASSUME minimum_planner_speed = 0
    PROVE  Spec => []AllFeasible
  <1>1. TypeOK /\ FeasibleInv /\ [Next]_vars => FeasibleInv'
    BY FeasibleNext
  <1> QED BY InitType, NextType, FeasibleInit, FeasibleSuffices, <1>1, PTL DEF Spec

-----------------------------------------------------------------------------
(* The blocks fit together, when the interrupt comes between two calls of  *)
(* append_block only.                                                      *)

OnlyTailTicks == \A n \in Slots : InQueue(n) /\ blocks[n].is_ticking => n = m_rIndex

WalkInQueue ==
    /\ pc \in {"start", "reverse"} => blocks[m_wIndex].recalculate
    /\ pc = "reverse" \/ Returning => m_rIndex # m_wIndex /\ Behind(iter) <= Behind(m_rIndex)
    /\ Returning /\ blocks[iter].is_ticking => speed = blocks[iter].exit

(* The speed at which the block in n begins, as long as the walk back has   *)
(* not come to it.                                                         *)
Begins(n) == IF n = m_wIndex THEN 0 ELSE blocks[n].initial

(* The first block, from the tail, whose trapezoid is not stored yet.       *)
At == CASE pc = "commit" -> m_wIndex
        [] pc \in {"trapezoid", "lock", "store"} -> trapezoid.slot
        [] OTHER -> iter

(* The blocks before it have their new trapezoids: each ends at the speed   *)
(* the next one will be entered with.                                      *)
JoinedBefore ==
    pc \notin {"idle", "start", "reverse"} =>
        \A n \in Slots : InQueue(n) /\ Behind(n) > Behind(At) =>
            /\ blocks[n].exit = IF next(n) = At THEN blocks[At].entry ELSE blocks[next(n)].initial
            /\ ~blocks[n].is_ticking => blocks[n].entry = blocks[n].initial

(* The others have their old ones, which fit together as well.              *)
JoinedAfter ==
    pc \in {"idle", "start", "reverse"} \/ Returning =>
        \A n \in Slots : InQueue(n) /\ (Returning => Behind(n) <= Behind(iter)) =>
            blocks[n].exit = Begins(next(n))

(* The reverse walk raises entry speeds above those of the old trapezoids,  *)
(* so that the way back finds the block after the executing one no slower  *)
(* than that ends.                                                         *)
Raised ==
    \A n \in Slots : InQueue(n) =>
        /\ (pc = "reverse" \/ Returning) /\ Behind(n) < Behind(iter) =>
               blocks[n].initial <= blocks[n].entry
        /\ pc \in {"idle", "start"} \/ (pc = "reverse" /\ Behind(n) >= Behind(iter)) =>
               blocks[n].is_ticking \/ blocks[n].entry = blocks[n].initial

TrapezoidJoins ==
    pc \in {"trapezoid", "lock", "store"} =>
        LET b == blocks[trapezoid.slot] IN
        /\ trapezoid.entry = b.entry
        /\ pc # "trapezoid" => ~b.is_ticking
        /\ trapezoid.then = "forward" =>
              /\ InQueue(trapezoid.slot)
              /\ next(trapezoid.slot) = iter
              /\ trapezoid.exit = blocks[iter].entry
              /\ b.is_ticking => b.exit = blocks[iter].entry
        /\ trapezoid.then # "forward" => trapezoid.exit = 0

NewPlanned ==
    pc = "commit" => /\ blocks[m_wIndex].exit = 0
                     /\ blocks[m_wIndex].initial = blocks[m_wIndex].entry

JoinInv == /\ OnlyTailTicks /\ WalkInQueue /\ JoinedBefore /\ JoinedAfter
           /\ Raised /\ TrapezoidJoins /\ NewPlanned

LEMMA JoinInit == Init => JoinInv
  <1> SUFFICES ASSUME Init
               PROVE  JoinInv
    OBVIOUS
  <1>1. \A n \in Slots : ~InQueue(n)
    BY SlotsType, Distances DEF Init, InQueue
  <1> QED BY <1>1 DEF Init, JoinInv, OnlyTailTicks, WalkInQueue, JoinedBefore, JoinedAfter, Raised,
                      TrapezoidJoins, NewPlanned, Returning

LEMMA JoinAppend ==
    ASSUME minimum_planner_speed = 0, TypeOK, JoinInv, NEW move \in Moves, append_block(move)
    PROVE  JoinInv'
  <1> USE DEF JoinInv
  <1>1. PICK v \in JunctionSpeeds(move) : blocks' = [blocks EXCEPT ![m_wIndex] = NewBlock(move, v)]
    BY DEF append_block
  <1>2. /\ UNCHANGED <<m_rIndex, m_wIndex>>
        /\ pc = "idle" /\ pc' = "start"
        /\ blocks \in [Slots -> Block] /\ m_rIndex \in Slots /\ m_wIndex \in Slots
    BY DEF append_block, TypeOK
  <1>3. \A n \in Slots : Behind(n)' = Behind(n) /\ InQueue(n)' = InQueue(n)
    BY <1>2, RingKept
  <1>4. blocks'[m_wIndex].recalculate
    BY <1>1, <1>2, JunctionType, NewBlockSpeeds
  <1>5. \A n \in Slots : n # m_wIndex => blocks'[n] = blocks[n]
    BY <1>1, <1>2
  <1>6. \A n \in Slots : InQueue(n) => n # m_wIndex
    BY <1>2, Distances DEF InQueue
  <1>7. JoinedAfter'
    BY <1>2, <1>3, <1>5, <1>6, SlotsType DEF JoinedAfter, Begins, Returning
  <1> QED BY <1>2, <1>3, <1>4, <1>5, <1>6, <1>7 DEF OnlyTailTicks, WalkInQueue, JoinedBefore, Raised,
                      TrapezoidJoins, NewPlanned, Returning

LEMMA JoinReverse ==
    ASSUME TypeOK, FeasibleInv, JoinInv, ReverseWalk
    PROVE  JoinInv'
  <1> USE DEF JoinInv
  <1> DEFINE b == blocks[iter]
             r == reverse_pass(b, speed)
  <1>1. /\ UNCHANGED <<m_rIndex, m_wIndex, pc, trapezoid>>
        /\ pc = "reverse" /\ iter # m_rIndex /\ b.recalculate
        /\ blocks' = [blocks EXCEPT ![iter] = r] /\ iter' = prev(iter)
        /\ blocks \in [Slots -> Block] /\ m_rIndex \in Slots /\ m_wIndex \in Slots
        /\ iter \in Slots /\ speed \in Nat /\ b \in Block
    BY DEF ReverseWalk, TypeOK
  <1>2. \A n \in Slots : Behind(n)' = Behind(n) /\ InQueue(n)' = InQueue(n)
    BY <1>1, RingKept
  <1>3. m_rIndex # m_wIndex
    BY <1>1 DEF WalkInQueue
  <1>4. /\ r.initial = b.initial /\ r.exit = b.exit /\ r.recalculate = b.recalculate
        /\ r.is_ticking = b.is_ticking /\ ~b.is_ticking /\ b.entry <= r.entry
        /\ r.entry \in Nat /\ b.entry \in Nat /\ b.initial \in Nat
    <2>1. Limits(b)
      BY <1>1 DEF FeasibleInv, SlotsFit
    <2>2. r \in Block /\ r.initial = b.initial /\ r.exit = b.exit /\ r.is_ticking = b.is_ticking
      BY <1>1, ReversePass
    <2>3. b.entry <= speed + b.reach
      BY <1>3, ReverseRoom
    <2>4. b.entry <= r.entry /\ r.recalculate = b.recalculate
      BY <1>1, <2>1, <2>3, ReverseSpeeds
    <2> QED BY <1>1, <2>1, <2>2, <2>4 DEF Limits, Block
  <1> HIDE DEF r, b
  <1>5. \A n \in Slots : blocks'[n] = IF n = iter THEN r ELSE blocks[n]
    BY <1>1
  <1>6. \A n \in Slots : blocks'[n].initial = blocks[n].initial /\ blocks'[n].exit = blocks[n].exit
                         /\ blocks'[n].recalculate = blocks[n].recalculate
                         /\ blocks'[n].is_ticking = blocks[n].is_ticking
    BY <1>4, <1>5 DEF b
  <1>7. Behind(iter') = Behind(iter) + 1 /\ Behind(iter) < Behind(m_rIndex)
        /\ Behind(iter) \in Nat /\ Behind(m_rIndex) \in Nat
    <2>1. Behind(iter) < Behind(m_rIndex)
      BY <1>3, ReverseRoom
    <2>2. Behind(m_rIndex) \in 0 .. Size - 1 /\ Behind(iter) \in 0 .. Size - 1
      BY <1>1, Distances
    <2>3. Behind(prev(iter)) = Behind(iter) + 1
      BY <1>1, <2>1, <2>2, SizeAssumption, Distances
    <2> QED BY <1>1, <2>1, <2>2, <2>3, SizeAssumption
  <1>8. WalkInQueue'
    <2>1. (Behind(iter) <= Behind(m_rIndex))'
      BY <1>1, <1>7 DEF Behind
    <2> QED BY <1>1, <1>3, <1>6, <2>1 DEF WalkInQueue, Returning
  <1>9. OnlyTailTicks' /\ JoinedBefore' /\ TrapezoidJoins' /\ NewPlanned'
    BY <1>1, <1>2, <1>6 DEF OnlyTailTicks, JoinedBefore, TrapezoidJoins, NewPlanned
  <1>10. JoinedAfter'
    BY <1>1, <1>2, <1>6, SlotsType DEF JoinedAfter, Begins, Returning
  <1>11. Raised'
    <2> SUFFICES ASSUME NEW n \in Slots, InQueue(n)
                 PROVE  /\ Behind(n) < Behind(iter') => blocks'[n].initial <= blocks'[n].entry
                        /\ Behind(n) >= Behind(iter') =>
                               blocks'[n].is_ticking \/ blocks'[n].entry = blocks'[n].initial
      <3>1. \A n \in Slots : Behind(n)' = Behind(n) /\ (Behind(iter))' = Behind(iter')
        BY <1>1 DEF Behind
      <3> QED BY <1>1, <1>2, <3>1 DEF Raised, Returning
    <2>1. Behind(n) \in Nat
      BY <1>1, Distances, SizeAssumption
    <2>2. CASE n = iter
      <3>1. b.entry = b.initial
        BY <1>1, <1>4, <1>7, <2>1, <2>2 DEF Raised, b
      <3> QED BY <1>4, <1>5, <1>7, <2>2, <3>1
    <2>3. CASE n # iter
      <3>1. Behind(n) # Behind(iter)
        BY <1>1, <2>3, OnePlace
      <3> QED BY <1>1, <1>5, <1>7, <2>1, <2>3, <3>1 DEF Raised
    <2> QED BY <2>2, <2>3
  <1> QED BY <1>8, <1>9, <1>10, <1>11

LEMMA JoinForward ==
    ASSUME TypeOK, FeasibleInv, JoinInv, ForwardWalk
    PROVE  JoinInv'
  <1> USE DEF JoinInv
  <1> DEFINE a == blocks[iter]
             c == next(iter)
             b == blocks[c]
             f == forward_pass(b, speed)
  <1>1. /\ UNCHANGED <<m_rIndex, m_wIndex>>
        /\ pc = "forward" /\ pc' = "trapezoid" /\ iter # m_wIndex
        /\ iter' = c /\ blocks' = [blocks EXCEPT ![c] = f] /\ speed' = max_exit_speed(f)
        /\ trapezoid' = [slot |-> iter, entry |-> a.entry, exit |-> f.entry, then |-> "forward"]
        /\ blocks \in [Slots -> Block] /\ m_rIndex \in Slots /\ m_wIndex \in Slots
        /\ iter \in Slots /\ speed \in Nat /\ c \in Slots /\ c # iter /\ a \in Block /\ b \in Block
    BY SlotsType DEF ForwardWalk, TypeOK
  <1>2. \A n \in Slots : Behind(n)' = Behind(n) /\ InQueue(n)' = InQueue(n)
    BY <1>1, RingKept
  <1>3. /\ f.is_ticking = b.is_ticking /\ f.initial = b.initial /\ f.exit = b.exit
        /\ f.entry <= b.entry /\ f.entry <= speed /\ (f.entry = b.entry \/ f.entry = speed)
        /\ f.entry \in Nat /\ b.entry \in Nat /\ b.initial \in Nat
    <2>1. Limits(b)
      BY <1>1 DEF FeasibleInv, SlotsFit
    <2> HIDE DEF a, b, c
    <2>2. /\ forward_pass(b, speed) \in Block /\ forward_pass(b, speed).is_ticking = b.is_ticking
          /\ forward_pass(b, speed).initial = b.initial /\ forward_pass(b, speed).exit = b.exit
      BY <1>1, ForwardPass
    <2>3. f.entry <= b.entry /\ f.entry <= speed /\ (f.entry = b.entry \/ f.entry = speed)
      BY <1>1, <2>1, ForwardSpeeds
    <2>4. forward_pass(b, speed).entry \in Nat /\ b.entry \in Nat /\ b.initial \in Nat
      BY <1>1, <2>2 DEF Block
    <2> QED BY <2>2, <2>3, <2>4
  <1>4. /\ m_rIndex # m_wIndex /\ Behind(iter) <= Behind(m_rIndex)
        /\ a.is_ticking => speed = a.exit
    BY <1>1 DEF WalkInQueue, Returning
  <1>5. InQueue(iter) /\ Behind(c) = Behind(iter) - 1 /\ Behind(iter) \in Nat
    BY <1>1, <1>4, Distances, SizeAssumption DEF InQueue
  <1>6. a.exit = Begins(c)
    BY <1>1, <1>5 DEF JoinedAfter, Returning
  <1>7. a.is_ticking => a.exit = f.entry
    <2> SUFFICES ASSUME a.is_ticking
                 PROVE  a.exit = f.entry
      OBVIOUS
    <2>1. CASE c = m_wIndex
      BY <1>1, <1>3, <1>4, <1>6, <2>1 DEF Begins
    <2>2. CASE c # m_wIndex
      <3>1. InQueue(c)
        <4>1. Behind(c) \in Nat /\ Behind(c) # 0 /\ Behind(m_rIndex) \in Nat
          BY <1>1, <2>2, Distances, SizeAssumption
        <4> HIDE DEF c
        <4> QED BY <1>4, <1>5, <4>1 DEF InQueue
      <3>2. b.initial <= b.entry
        BY <1>1, <1>5, <3>1 DEF Raised, Returning
      <3>3. speed = b.initial
        BY <1>4, <1>6, <2>2 DEF Begins
      <3> HIDE DEF b, f
      <3> QED BY <1>1, <1>3, <1>4, <3>2, <3>3
    <2> QED BY <2>1, <2>2
  <1> HIDE DEF a, b, c, f
  <1>8. \A n \in Slots : blocks'[n] = IF n = c THEN f ELSE blocks[n]
    BY <1>1
  <1>9. \A n \in Slots : blocks'[n].initial = blocks[n].initial /\ blocks'[n].exit = blocks[n].exit
                         /\ blocks'[n].is_ticking = blocks[n].is_ticking
    BY <1>3, <1>8 DEF b
  <1>10. Behind(iter)' = Behind(c)
    BY <1>1 DEF Behind
  <1>11. \A n \in Slots : Behind(n) \in Nat
    BY <1>1, Distances, SizeAssumption
  <1>12. OnlyTailTicks'
    BY <1>1, <1>2, <1>9 DEF OnlyTailTicks
  <1>13. WalkInQueue'
    <2>1. Behind(m_rIndex)' = Behind(m_rIndex) /\ Behind(c) <= Behind(m_rIndex)
      BY <1>1, <1>4, <1>5, <1>11 DEF Behind
    <2>2. f.is_ticking => speed' = f.exit
      BY <1>1 DEF max_exit_speed
    <2> QED BY <1>1, <1>4, <1>8, <1>10, <2>1, <2>2 DEF WalkInQueue, Returning
  <1>14. JoinedBefore'
    <2>1. At' = iter /\ At = iter
      BY <1>1 DEF At
    <2>2. \A n \in Slots : Behind(n) > Behind(iter) => n # c
      BY <1>1, <1>5, <1>11
    <2>3. \A n \in Slots : next(n) \in Slots
      BY SlotsType
    <2>4. \A n \in Slots : n # c => blocks'[n] = blocks[n]
      BY <1>8
    <2>5. Behind(At)' = Behind(iter)
      BY <1>1, <2>1 DEF Behind
    <2> QED BY <1>1, <1>2, <1>9, <2>1, <2>2, <2>3, <2>4, <2>5 DEF JoinedBefore
  <1>15. JoinedAfter'
    <2>1. \A n \in Slots : Behind(n) <= Behind(c) => Behind(n) <= Behind(iter)
      BY <1>1, <1>5, <1>11
    <2>2. \A n \in Slots : Begins(n)' = Begins(n)
      BY <1>1, <1>9 DEF Begins
    <2>3. Returning /\ Returning'
      BY <1>1 DEF Returning
    <2> QED BY <1>1, <1>2, <1>9, <1>10, <2>1, <2>2, <2>3, SlotsType DEF JoinedAfter
  <1>16. Raised'
    <2>1. \A n \in Slots : Behind(n) < Behind(c) => n # c /\ Behind(n) < Behind(iter)
      BY <1>1, <1>5, <1>11
    <2> QED BY <1>1, <1>2, <1>8, <1>10, <2>1 DEF Raised, Returning
  <1>17. TrapezoidJoins' /\ NewPlanned'
    <2>1. blocks'[iter] = a /\ blocks'[c] = f /\ next(iter) = c
      BY <1>1, <1>8 DEF a, c
    <2> QED BY <1>1, <1>2, <1>5, <1>7, <2>1 DEF TrapezoidJoins, NewPlanned
  <1> QED BY <1>12, <1>13, <1>14, <1>15, <1>16, <1>17

LEMMA JoinCompute ==
    ASSUME minimum_planner_speed = 0, TypeOK, FeasibleInv, JoinInv, Compute
    PROVE  JoinInv'
  <1> USE DEF JoinInv, queueVars, walkVars, tickVars
  <1>1. /\ UNCHANGED <<blocks, m_rIndex, m_wIndex>>
        /\ blocks \in [Slots -> Block] /\ m_rIndex \in Slots /\ m_wIndex \in Slots /\ iter \in Slots
    BY DEF Compute, recalculate, ReverseEnd, ForwardEnd, FinalTrapezoid, TrapezoidSkipped,
           TrapezoidComputed, TypeOK
  <1>2. \A n \in Slots : Behind(n)' = Behind(n) /\ InQueue(n)' = InQueue(n) /\ Begins(n)' = Begins(n)
    BY <1>1, RingKept DEF Begins
  <1>3. \A n \in Slots : Behind(n) \in Nat
    BY <1>1, Distances, SizeAssumption
  <1>4. OnlyTailTicks'
    BY <1>1, <1>2 DEF OnlyTailTicks
  <1>5. CASE recalculate
    <2>1. /\ pc = "start" /\ iter' = iter /\ iter = m_wIndex
          /\ pc' = IF m_rIndex = m_wIndex THEN "final" ELSE "reverse"
      BY <1>5 DEF recalculate, empty, FeasibleInv, WalkFits
    <2>2. Behind(iter)' = 0 /\ (Behind(m_rIndex))' = Behind(m_rIndex)
      BY <1>1, <1>2, <2>1, Distances DEF Behind
    <2>3. pc' = "final" => \A n \in Slots : ~InQueue(n)
      BY <1>1, <1>3, <2>1, Distances DEF InQueue
    <2>4. WalkInQueue'
      BY <1>1, <1>3, <2>1, <2>2 DEF WalkInQueue, Returning
    <2>5. JoinedBefore' /\ JoinedAfter'
      BY <1>1, <1>2, <2>1, <2>3, SlotsType DEF JoinedBefore, JoinedAfter, Returning
    <2>6. Raised'
      BY <1>1, <1>2, <1>3, <2>1, <2>2, <2>3 DEF Raised, Returning
    <2> QED BY <1>4, <2>1, <2>4, <2>5, <2>6 DEF TrapezoidJoins, NewPlanned
  <1>6. CASE ReverseEnd
    <2>1. /\ pc = "reverse" /\ pc' = "forward" /\ iter' = iter
          /\ iter = m_rIndex \/ ~blocks[iter].recalculate
          /\ speed' = max_exit_speed(blocks[iter])
      BY <1>6 DEF ReverseEnd
    <2>2. m_rIndex # m_wIndex /\ Behind(iter) <= Behind(m_rIndex) /\ iter # m_wIndex
      BY <2>1 DEF WalkInQueue
    <2>3. Behind(iter)' = Behind(iter) /\ Behind(m_rIndex)' = Behind(m_rIndex) /\ At' = iter
          /\ Returning' /\ Behind(At)' = Behind(iter)
      BY <1>1, <2>1 DEF Behind, Returning, At
    <2>4. WalkInQueue'
      BY <1>1, <2>1, <2>2, <2>3 DEF WalkInQueue, max_exit_speed
    <2>5. JoinedBefore'
      <3> SUFFICES ASSUME NEW n \in Slots, InQueue(n), Behind(n) > Behind(iter)
                   PROVE  /\ blocks[n].exit = IF next(n) = iter THEN blocks[iter].entry
                                              ELSE blocks[next(n)].initial
                          /\ ~blocks[n].is_ticking => blocks[n].entry = blocks[n].initial
        BY <1>1, <1>2, <2>1, <2>3 DEF JoinedBefore
      <3>1. blocks[n].exit = Begins(next(n))
        BY <2>1 DEF JoinedAfter, Returning
      <3>2. Behind(iter) # 0 /\ Behind(m_rIndex) \in Nat
        BY <1>1, <1>3, <2>2, Distances
      <3>3. next(n) # m_wIndex
        BY <1>1, <1>3, <3>2, Distances
      <3>4. blocks[iter].entry = blocks[iter].initial
        <4>1. InQueue(iter)
          BY <1>1, <1>3, <2>2, <3>2 DEF InQueue
        <4>2. iter # m_rIndex
          BY <1>1, <1>3, <3>2 DEF InQueue
        <4>3. ~blocks[iter].is_ticking
          BY <1>1, <4>1, <4>2 DEF OnlyTailTicks
        <4> QED BY <1>1, <1>3, <2>1, <4>1, <4>3 DEF Raised
      <3>5. blocks[n].is_ticking \/ blocks[n].entry = blocks[n].initial
        BY <1>1, <1>3, <2>1 DEF Raised
      <3> QED BY <3>1, <3>3, <3>4, <3>5 DEF Begins
    <2>6. JoinedAfter'
      BY <1>1, <1>2, <2>1, <2>3, SlotsType DEF JoinedAfter, Returning
    <2>7. Raised'
      BY <1>1, <1>2, <2>1, <2>3 DEF Raised
    <2> QED BY <1>4, <2>1, <2>4, <2>5, <2>6, <2>7 DEF TrapezoidJoins, NewPlanned
  <1>7. CASE ForwardEnd \/ FinalTrapezoid
    <2>1. /\ pc \in {"forward", "final"} /\ iter' = iter /\ iter = m_wIndex
          /\ \/ pc' = "final"
             \/ /\ pc' = "trapezoid"
                /\ trapezoid' = [slot |-> iter, entry |-> blocks[iter].entry, exit |-> 0,
                                 then |-> "commit"]
      BY <1>7 DEF ForwardEnd, FinalTrapezoid, FeasibleInv, WalkFits
    <2>2. At' = iter /\ At = iter /\ ~Returning'
      BY <2>1 DEF At, Returning
    <2>3. Behind(At)' = Behind(At)
      BY <1>1, <2>2 DEF Behind
    <2>4. JoinedBefore'
      BY <1>1, <1>2, <2>1, <2>2, <2>3, SlotsType DEF JoinedBefore
    <2> QED BY <1>1, <1>4, <2>1, <2>2, <2>4
            DEF WalkInQueue, JoinedAfter, Raised, TrapezoidJoins, NewPlanned
  <1>8. CASE TrapezoidSkipped
    <2> DEFINE s == trapezoid.slot
    <2>1. /\ pc = "trapezoid" /\ blocks[s].is_ticking /\ UNCHANGED <<iter, speed, trapezoid>>
          /\ pc' = trapezoid.then /\ s \in Slots
      BY <1>8 DEF TrapezoidSkipped, TypeOK
    <2>2. trapezoid.then = "forward"
      BY <2>1 DEF FeasibleInv, TrapezoidFits, HeadFits
    <2>3. /\ InQueue(s) /\ next(s) = iter /\ blocks[s].exit = blocks[iter].entry
          /\ s = m_rIndex
      BY <2>1, <2>2 DEF TrapezoidJoins, OnlyTailTicks
    <2>4. Returning /\ Returning' /\ At = s /\ At' = iter
      BY <2>1, <2>2 DEF Returning, At
    <2>5. Behind(iter)' = Behind(iter) /\ Behind(m_rIndex)' = Behind(m_rIndex)
          /\ Behind(At)' = Behind(iter)
      BY <1>1, <2>1, <2>4 DEF Behind
    <2>6. Behind(s) # 0 /\ Behind(iter) = Behind(s) - 1
      <3>1. s # m_wIndex
        BY <1>1, <1>3, <2>1, <2>3, Distances DEF InQueue
      <3> HIDE DEF s
      <3> QED BY <1>1, <2>1, <2>3, <3>1, Distances
    <2> HIDE DEF s
    <2>7. JoinedBefore'
      <3> SUFFICES ASSUME NEW n \in Slots, InQueue(n), Behind(n) > Behind(iter)
                   PROVE  /\ blocks[n].exit = IF next(n) = iter THEN blocks[iter].entry
                                              ELSE blocks[next(n)].initial
                          /\ ~blocks[n].is_ticking => blocks[n].entry = blocks[n].initial
        BY <1>1, <1>2, <2>4, <2>5 DEF JoinedBefore
      <3>1. Behind(n) <= Behind(s)
        BY <2>3 DEF InQueue
      <3>2. n = s
        BY <1>1, <1>3, <2>1, <2>6, <3>1, OnePlace
      <3> QED BY <2>1, <2>3, <3>2
    <2>8. WalkInQueue'
      BY <1>1, <2>1, <2>2, <2>4, <2>5 DEF WalkInQueue
    <2>9. JoinedAfter'
      BY <1>1, <1>2, <2>1, <2>2, <2>4, <2>5, SlotsType DEF JoinedAfter
    <2>10. Raised'
      BY <1>1, <1>2, <2>1, <2>2, <2>4, <2>5 DEF Raised
    <2> QED BY <1>4, <2>1, <2>2, <2>7, <2>8, <2>9, <2>10 DEF TrapezoidJoins, NewPlanned
  <1>9. CASE TrapezoidComputed
    <2>1. /\ pc = "trapezoid" /\ pc' = "lock" /\ UNCHANGED <<iter, speed, trapezoid>>
          /\ ~blocks[trapezoid.slot].is_ticking /\ trapezoid.slot \in Slots
      BY <1>9 DEF TrapezoidComputed, TypeOK
    <2>2. Returning' = Returning /\ At' = At
      BY <2>1 DEF Returning, At
    <2>3. Behind(iter)' = Behind(iter) /\ Behind(m_rIndex)' = Behind(m_rIndex)
          /\ Behind(At)' = Behind(At)
      BY <1>1, <2>1, <2>2 DEF Behind
    <2>4. WalkInQueue' /\ JoinedBefore' /\ JoinedAfter' /\ Raised'
      <3>1. WalkInQueue'
        BY <1>1, <2>1, <2>2, <2>3 DEF WalkInQueue
      <3>2. JoinedBefore'
        BY <1>1, <1>2, <2>1, <2>2, <2>3 DEF JoinedBefore
      <3>3. JoinedAfter'
        BY <1>1, <1>2, <2>1, <2>2, <2>3, SlotsType DEF JoinedAfter
      <3>4. Raised'
        BY <1>1, <1>2, <2>1, <2>2, <2>3 DEF Raised
      <3> QED BY <3>1, <3>2, <3>3, <3>4
    <2>5. TrapezoidJoins' /\ NewPlanned'
      BY <1>1, <1>2, <2>1 DEF TrapezoidJoins, NewPlanned
    <2> QED BY <1>4, <2>4, <2>5
  <1> QED BY <1>5, <1>6, <1>7, <1>8, <1>9 DEF Compute

LEMMA JoinMarks ==
    ASSUME TypeOK, JoinInv, TrapezoidLocked \/ (Quiet /\ get_next_block)
    PROVE  JoinInv'
  <1> USE DEF JoinInv, queueVars, walkVars, tickVars
  <1>1. /\ UNCHANGED <<m_rIndex, m_wIndex, iter, speed, trapezoid>>
        /\ blocks \in [Slots -> Block] /\ m_rIndex \in Slots /\ m_wIndex \in Slots
        /\ iter \in Slots /\ trapezoid.slot \in Slots
        /\ (pc = "lock" /\ pc' = "store") \/ (pc \in {"idle", "commit"} /\ pc' = pc)
    BY DEF TrapezoidLocked, get_next_block, Quiet, TypeOK
  <1>2. \A n \in Slots : Behind(n)' = Behind(n) /\ InQueue(n)' = InQueue(n)
    BY <1>1, RingKept
  <1>3. \A n \in Slots :
           LET b == blocks[n]
               d == blocks'[n]
           IN  /\ d.entry = b.entry /\ d.initial = b.initial /\ d.exit = b.exit
               /\ b.is_ticking => d.is_ticking
               /\ d.is_ticking => b.is_ticking \/ (n = m_rIndex /\ pc # "lock")
    <2>1. CASE TrapezoidLocked
      BY <1>1, <2>1 DEF TrapezoidLocked, Block
    <2>2. CASE Quiet /\ get_next_block
      BY <1>1, <2>2 DEF get_next_block, Quiet, Block
    <2> QED BY <2>1, <2>2
  <1>4. Returning' = Returning /\ At' = At /\ Behind(At)' = Behind(At)
        /\ Behind(iter)' = Behind(iter) /\ Behind(m_rIndex)' = Behind(m_rIndex)
    BY <1>1 DEF Returning, At, Behind
  <1>5. At \in Slots
    BY <1>1 DEF At
  <1>6. OnlyTailTicks'
    BY <1>1, <1>2, <1>3 DEF OnlyTailTicks
  <1>7. WalkInQueue'
    <2>1. Returning => pc = "lock"
      BY <1>1 DEF Returning
    <2> QED BY <1>1, <1>3, <1>4, <2>1 DEF WalkInQueue
  <1>8. JoinedBefore'
    BY <1>1, <1>2, <1>3, <1>4, <1>5, SlotsType DEF JoinedBefore
  <1>9. JoinedAfter'
    <2>1. \A n \in Slots : Begins(n)' = Begins(n)
      BY <1>1, <1>3 DEF Begins
    <2> QED BY <1>1, <1>2, <1>3, <1>4, <2>1, SlotsType DEF JoinedAfter
  <1>10. Raised'
    BY <1>1, <1>2, <1>3, <1>4 DEF Raised
  <1>11. TrapezoidJoins' /\ NewPlanned'
    BY <1>1, <1>2, <1>3 DEF TrapezoidJoins, NewPlanned
  <1> QED BY <1>6, <1>7, <1>8, <1>9, <1>10, <1>11

LEMMA JoinStored ==
    ASSUME TypeOK, FeasibleInv, JoinInv, TrapezoidStored
    PROVE  JoinInv'
  <1> USE DEF JoinInv, queueVars, walkVars, tickVars
  <1> DEFINE s == trapezoid.slot
  <1>1. /\ UNCHANGED <<m_rIndex, m_wIndex, iter, speed, trapezoid>>
        /\ pc = "store" /\ pc' = trapezoid.then
        /\ blocks' = [blocks EXCEPT ![s] = [@ EXCEPT !.initial = trapezoid.entry,
                                                     !.exit = trapezoid.exit, !.locked = FALSE]]
        /\ blocks \in [Slots -> Block] /\ m_rIndex \in Slots /\ m_wIndex \in Slots
        /\ iter \in Slots /\ s \in Slots
    BY DEF TrapezoidStored, TypeOK
  <1>2. \A n \in Slots : Behind(n)' = Behind(n) /\ InQueue(n)' = InQueue(n)
    BY <1>1, RingKept
  <1>3. \A n \in Slots :
           LET b == blocks[n]
               d == blocks'[n]
           IN  /\ d.entry = b.entry /\ d.recalculate = b.recalculate
               /\ d.is_ticking = b.is_ticking
               /\ d.initial = IF n = s THEN trapezoid.entry ELSE b.initial
               /\ d.exit = IF n = s THEN trapezoid.exit ELSE b.exit
    BY <1>1 DEF Block
  <1>4. /\ trapezoid.entry = blocks[s].entry /\ ~blocks[s].is_ticking
        /\ trapezoid.then = IF s = m_wIndex THEN "commit" ELSE "forward"
    BY <1>1 DEF TrapezoidJoins, FeasibleInv, TrapezoidFits
  <1>5. At = s
    BY <1>1 DEF At
  <1>6. \A n \in Slots : Behind(n) \in Nat /\ next(n) \in Slots
    BY <1>1, Distances, SizeAssumption, SlotsType
  <1>7. OnlyTailTicks'
    BY <1>1, <1>2, <1>3 DEF OnlyTailTicks
  <1>8. CASE s = m_wIndex
    <2>1. pc' = "commit" /\ trapezoid.exit = 0 /\ At' = s /\ ~Returning'
      BY <1>1, <1>4, <1>8 DEF At, TrapezoidJoins, Returning
    <2>2. Behind(At)' = Behind(At) /\ Behind(At) = 0
      BY <1>1, <1>5, <1>8, <2>1, Distances DEF Behind
    <2>3. JoinedBefore'
      <3> HIDE DEF s
      <3>1. \A n \in Slots : InQueue(n) => n # s
        BY <1>1, <1>8, Distances DEF InQueue
      <3> QED BY <1>1, <1>2, <1>3, <1>4, <1>5, <1>6, <2>1, <2>2, <3>1 DEF JoinedBefore
    <2>4. NewPlanned'
      BY <1>1, <1>3, <1>4, <1>8, <2>1 DEF NewPlanned
    <2> QED BY <1>7, <2>1, <2>3, <2>4 DEF WalkInQueue, JoinedAfter, Raised, TrapezoidJoins
  <1>9. CASE s # m_wIndex
    <2>1. /\ pc' = "forward" /\ InQueue(s) /\ next(s) = iter /\ trapezoid.exit = blocks[iter].entry
          /\ Returning /\ Returning' /\ At' = iter
      BY <1>1, <1>4, <1>9 DEF At, TrapezoidJoins, Returning
    <2> HIDE DEF s
    <2>2. Behind(iter) = Behind(s) - 1
      BY <1>1, <1>9, <2>1, Distances
    <2>3. Behind(At)' = Behind(iter) /\ Behind(iter)' = Behind(iter)
          /\ Behind(m_rIndex)' = Behind(m_rIndex)
      BY <1>1, <2>1 DEF Behind
    <2>4. \A n \in Slots : n # s => Behind(n) # Behind(s) /\ next(n) # iter
      BY <1>1, <2>1, OnePlace
    <2>5. WalkInQueue'
      <3>1. blocks'[iter].exit = blocks[iter].exit
        <4>1. iter # s
          BY <1>1, <2>1, SlotsType
        <4> QED BY <1>1, <1>3, <4>1
      <3> QED BY <1>1, <1>3, <2>1, <2>3, <3>1 DEF WalkInQueue
    <2>6. JoinedBefore'
      <3> SUFFICES ASSUME NEW n \in Slots, InQueue(n), Behind(n) > Behind(iter)
                   PROVE  /\ blocks'[n].exit = IF next(n) = iter THEN blocks'[iter].entry
                                               ELSE blocks'[next(n)].initial
                          /\ ~blocks'[n].is_ticking => blocks'[n].entry = blocks'[n].initial
        BY <1>1, <1>2, <2>1, <2>3 DEF JoinedBefore
      <3>1. CASE n = s
        BY <1>1, <1>3, <1>4, <2>1, <3>1
      <3>2. CASE n # s
        <4>1. Behind(n) > Behind(s) /\ next(n) # iter
          BY <1>1, <1>6, <2>2, <2>4, <3>2
        <4>2. /\ blocks[n].exit = IF next(n) = s THEN blocks[s].entry ELSE blocks[next(n)].initial
              /\ ~blocks[n].is_ticking => blocks[n].entry = blocks[n].initial
          BY <1>1, <1>5, <4>1 DEF JoinedBefore
        <4> QED BY <1>1, <1>3, <1>4, <1>6, <3>2, <4>1, <4>2
      <3> QED BY <3>1, <3>2
    <2>7. JoinedAfter'
      <3> SUFFICES ASSUME NEW n \in Slots, InQueue(n), Behind(n) <= Behind(iter)
                   PROVE  blocks'[n].exit = Begins(next(n))'
        BY <1>1, <1>2, <2>1, <2>3 DEF JoinedAfter
      <3>1. n # s /\ n # m_wIndex
        BY <1>1, <1>6, <2>2, Distances DEF InQueue
      <3>2. next(n) # s
        <4>1. Behind(next(n)) = Behind(n) - 1
          BY <1>1, <3>1, Distances
        <4> QED BY <1>1, <1>6, <2>2, <4>1
      <3>3. blocks[n].exit = Begins(next(n))
        BY <2>1 DEF JoinedAfter
      <3> QED BY <1>1, <1>3, <1>6, <3>1, <3>2, <3>3 DEF Begins
    <2>8. Raised'
      <3>1. \A n \in Slots : Behind(n) < Behind(iter) => n # s
        BY <1>1, <1>6, <2>2
      <3> QED BY <1>1, <1>2, <1>3, <2>1, <2>3, <3>1 DEF Raised
    <2> QED BY <1>7, <2>1, <2>5, <2>6, <2>7, <2>8 DEF TrapezoidJoins, NewPlanned
  <1> QED BY <1>8, <1>9

LEMMA JoinCommit ==
    ASSUME TypeOK, FeasibleInv, JoinInv, queue_head
    PROVE  JoinInv'
  <1> USE DEF JoinInv
  <1>1. /\ UNCHANGED <<blocks, m_rIndex>>
        /\ pc = "commit" /\ pc' = "idle" /\ m_wIndex' = next(m_wIndex) /\ m_wIndex' # m_rIndex
        /\ blocks \in [Slots -> Block] /\ m_rIndex \in Slots /\ m_wIndex \in Slots
        /\ ~blocks[m_wIndex].is_ticking
    BY SlotsType DEF queue_head, TypeOK, full, FeasibleInv, HeadFits
  <1>2. ASSUME NEW n \in Slots, InQueue(n)'
        PROVE  /\ InQueue(n) \/ n = m_wIndex
               /\ next(n) = m_wIndex' <=> n = m_wIndex
    <2>1. /\ next(m_wIndex) = IF m_wIndex = Size - 1 THEN 0 ELSE m_wIndex + 1
          /\ next(n) = IF n = Size - 1 THEN 0 ELSE n + 1
          /\ Size \in Nat /\ Size >= 2 /\ m_wIndex \in 0 .. Size - 1 /\ m_rIndex \in 0 .. Size - 1
          /\ n \in 0 .. Size - 1
      BY <1>1, Neighbours, SizeAssumption DEF Slots
    <2> QED BY <1>1, <1>2, <2>1 DEF InQueue, Behind
  <1>3. \A n \in Slots : InQueue(n) =>
            /\ blocks[n].exit = IF next(n) = m_wIndex THEN blocks[m_wIndex].entry
                                ELSE blocks[next(n)].initial
            /\ ~blocks[n].is_ticking => blocks[n].entry = blocks[n].initial
    <2>1. At = m_wIndex /\ Behind(m_wIndex) = 0
      BY <1>1, Distances DEF At
    <2>2. \A n \in Slots : Behind(n) \in Nat /\ (InQueue(n) => Behind(n) > 0)
      BY <1>1, Distances, SizeAssumption DEF InQueue
    <2> QED BY <1>1, <2>1, <2>2 DEF JoinedBefore
  <1>4. blocks[m_wIndex].exit = 0 /\ blocks[m_wIndex].initial = blocks[m_wIndex].entry
    BY <1>1 DEF NewPlanned
  <1>5. OnlyTailTicks'
    BY <1>1, <1>2 DEF OnlyTailTicks
  <1>6. JoinedAfter'
    <2> SUFFICES ASSUME NEW n \in Slots, InQueue(n)'
                 PROVE  blocks[n].exit = IF next(n) = m_wIndex' THEN 0 ELSE blocks[next(n)].initial
      BY <1>1 DEF JoinedAfter, Begins
    <2> QED BY <1>1, <1>2, <1>3, <1>4
  <1>7. Raised'
    BY <1>1, <1>2, <1>3, <1>4 DEF Raised, Returning
  <1> QED BY <1>1, <1>5, <1>6, <1>7
          DEF WalkInQueue, JoinedBefore, TrapezoidJoins, NewPlanned, Returning

LEMMA JoinEmptied ==
    ASSUME TypeOK, JoinInv, DropHead \/ (Quiet /\ flush)
    PROVE  JoinInv'
  <1> USE DEF JoinInv
  <1>1. /\ m_rIndex' = m_wIndex /\ m_wIndex' = m_wIndex /\ pc' \in {"idle", "commit"}
        /\ m_rIndex \in Slots /\ m_wIndex \in Slots
    BY DEF DropHead, flush, Quiet, TypeOK
  <1>2. \A n \in Slots : ~InQueue(n)'
    <2> SUFFICES ASSUME NEW n \in Slots
                 PROVE  ~InQueue(n)'
      OBVIOUS
    <2> QED BY <1>1, SizeAssumption DEF InQueue, Behind, Slots
  <1>3. NewPlanned'
    BY <1>1 DEF DropHead, flush, NewPlanned
  <1> QED BY <1>1, <1>2, <1>3 DEF OnlyTailTicks, WalkInQueue, Returning, JoinedBefore, JoinedAfter,
                                  Raised, TrapezoidJoins

LEMMA JoinReleased ==
    ASSUME TypeOK, FeasibleInv, JoinInv, Quiet, block_finished
    PROVE  JoinInv'
  <1> USE DEF JoinInv, walkVars
  <1>1. /\ UNCHANGED <<blocks, m_wIndex, pc, iter, speed, trapezoid>>
        /\ m_rIndex' = next(m_rIndex) /\ m_rIndex # m_wIndex /\ pc \in {"idle", "commit"}
        /\ blocks \in [Slots -> Block] /\ m_rIndex \in Slots /\ m_wIndex \in Slots
    BY DEF block_finished, Quiet, FeasibleInv, TickIsQueued, TypeOK
  <1>2. \A n \in Slots : Behind(n)' = Behind(n)
    BY <1>1 DEF Behind
  <1>3. Behind(m_rIndex)' = Behind(m_rIndex) - 1
    <2>1. Behind(next(m_rIndex)) = Behind(m_rIndex) - 1
      BY <1>1, Distances
    <2> QED BY <1>1, <2>1 DEF Behind
  <1>4. \A n \in Slots : InQueue(n)' => InQueue(n) /\ n # m_rIndex
    <2> SUFFICES ASSUME NEW n \in Slots, InQueue(n)'
                 PROVE  InQueue(n) /\ n # m_rIndex
      OBVIOUS
    <2>1. Behind(n) \in Int /\ Behind(m_rIndex) \in Int
      BY <1>1, Distances
    <2> QED BY <1>2, <1>3, <2>1 DEF InQueue
  <1>5. OnlyTailTicks'
    BY <1>1, <1>4 DEF OnlyTailTicks
  <1>6. JoinedBefore'
    <2>1. pc = "commit" => At' = At /\ At = m_wIndex
      BY <1>1 DEF At
    <2>2. pc = "commit" => Behind(At)' = Behind(At)
      BY <1>1, <2>1 DEF Behind
    <2> QED BY <1>1, <1>2, <1>4, <2>1, <2>2 DEF JoinedBefore
  <1>7. JoinedAfter'
    BY <1>1, <1>4 DEF JoinedAfter, Begins, Returning
  <1>8. Raised'
    BY <1>1, <1>4 DEF Raised, Returning
  <1> QED BY <1>1, <1>5, <1>6, <1>7, <1>8 DEF WalkInQueue, TrapezoidJoins, NewPlanned, Returning

LEMMA JoinNext ==
    ASSUME minimum_planner_speed = 0, TypeOK, FeasibleInv, JoinInv, [QuietNext]_vars
    PROVE  JoinInv'
  <1>1. CASE \E move \in Moves : append_block(move)
    BY <1>1, JoinAppend
  <1>2. CASE Compute
    BY <1>2, JoinCompute
  <1>3. CASE ReverseWalk
    BY <1>3, JoinReverse
  <1>4. CASE ForwardWalk
    BY <1>4, JoinForward
  <1>5. CASE TrapezoidLocked \/ (Quiet /\ get_next_block)
    BY <1>5, JoinMarks
  <1>6. CASE TrapezoidStored
    BY <1>6, JoinStored
  <1>7. CASE queue_head
    BY <1>7, JoinCommit
  <1>8. CASE DropHead \/ (Quiet /\ flush)
    BY <1>8, JoinEmptied
  <1>9. CASE Quiet /\ block_finished
    BY <1>9, JoinReleased
  <1>10. CASE UNCHANGED vars
    BY <1>10 DEF vars, queueVars, walkVars, tickVars, JoinInv, OnlyTailTicks, InQueue, Behind, WalkInQueue,
                 Returning, JoinedBefore, At, JoinedAfter, Begins, Raised, TrapezoidJoins, NewPlanned
  <1> QED BY <1>1, <1>2, <1>3, <1>4, <1>5, <1>6, <1>7, <1>8, <1>9, <1>10
          DEF QuietNext, Planner, Interrupt, Compute

LEMMA JoinSuffices ==
    ASSUME minimum_planner_speed = 0, TypeOK, JoinInv
    PROVE  Continuous
  <1> SUFFICES ASSUME pc = "idle", NEW i \in 0 .. Count - 1
               PROVE  Queued(i).exit = IF i = Count - 1 THEN 0 ELSE Queued(i + 1).initial
    BY DEF Continuous, Planned
  <1> DEFINE n == (m_rIndex + i) % Size
             m == (m_rIndex + (i + 1)) % Size
  <1>1. /\ n \in Slots /\ InQueue(n) /\ Behind(n) = Count - i /\ Count \in Int
        /\ m_rIndex \in Slots /\ m_wIndex \in Slots
    BY QueuedSlots DEF TypeOK
  <1>2. blocks[n].exit = Begins(next(n))
    BY <1>1 DEF JoinInv, JoinedAfter, Returning
  <1>3. next(n) = m_wIndex <=> i = Count - 1
    BY <1>1, Distances
  <1>4. ASSUME i # Count - 1
        PROVE  next(n) = m
    <2>1. m \in Slots /\ Behind(m) = Count - (i + 1)
      BY <1>1, <1>4, QueuedSlots
    <2>2. next(n) \in Slots /\ Behind(next(n)) = Behind(n) - 1
      BY <1>1, Distances, SlotsType DEF InQueue
    <2> HIDE DEF n, m
    <2> QED BY <1>1, <2>1, <2>2, OnePlace
  <1> HIDE DEF n, m
  <1>5. CASE i = Count - 1
    BY <1>2, <1>3, <1>5 DEF Begins, Queued, n
  <1>6. CASE i # Count - 1
    BY <1>2, <1>3, <1>4, <1>6 DEF Begins, Queued, n, m
  <1> QED BY <1>5, <1>6

(* With an interrupt that comes between two calls of append_block only,     *)
(* each block begins at the speed the one before ends with, for any ring    *)
(* and any moves, when no minimum speed is configured: the walk back joins  *)
(* the new plan to the executing block, which it leaves alone.             *)
THEOREM BlocksAreJoined ==
    ASSUME minimum_planner_speed = 0
    PROVE  QuietSpec => []Continuous
  <1>1. [QuietNext]_vars => [Next]_vars
    BY DEF QuietNext, Next
  <1>2. TypeOK /\ FeasibleInv /\ [Next]_vars => FeasibleInv'
    BY FeasibleNext
  <1>3. TypeOK /\ FeasibleInv /\ JoinInv /\ [QuietNext]_vars => JoinInv'
    BY JoinNext
  <1>4. TypeOK /\ JoinInv => Continuous
    BY JoinSuffices
  <1> QED BY InitType, NextType, FeasibleInit, JoinInit, <1>1, <1>2, <1>3, <1>4, PTL
          DEF QuietSpec, QuietNext

-----------------------------------------------------------------------------
(* The plan is the fastest one, when the interrupt comes between two calls  *)
(* of append_block only.                                                   *)

(* The blocks that are planned: the queue, and the one being appended.      *)
InPlan(n) == InQueue(n) \/ (n = m_wIndex /\ pc # "idle")

(* The speed the block in n can be left with, as it is.                     *)
Pace(n) == IF blocks[n].is_ticking THEN blocks[n].exit ELSE blocks[n].entry + blocks[n].reach

(* The speed the block in n has to end with, as far as the reverse walk has *)
(* told it: of the new block it learns last.                               *)
Unjoined == pc \in {"idle", "start"} \/ (pc = "reverse" /\ iter = m_wIndex)
Following(n) == IF n = m_wIndex \/ (next(n) = m_wIndex /\ Unjoined) THEN 0
                ELSE blocks[next(n)].entry

Reaches == \A n \in Slots : InPlan(n) => blocks[n].reach > 0

Corners == \A n \in Slots : InPlan(n) /\ n # m_rIndex =>
               blocks[n].max_entry <= blocks[prev(n)].nominal

NoneTicks == ~ticking => \A n \in Slots : InQueue(n) => ~blocks[n].is_ticking

(* The reverse walk only passes blocks whose recalculate flag is set.       *)
Passed == pc = "reverse" =>
              \A n \in Slots : Behind(n) < Behind(iter) => blocks[n].recalculate

(* What the flag stands for: a block that has lost it cannot be entered     *)
(* faster, for its corner or for what the block before reaches ...          *)
Limited == \A n \in Slots : InPlan(n) /\ n # m_rIndex /\ ~blocks[n].recalculate =>
               blocks[n].entry = blocks[n].max_entry \/ blocks[n].entry >= Pace(prev(n))

(* ... and one that has it cannot be entered faster, for its corner or for  *)
(* what the block after it allows.                                         *)
AsFast == \A n \in Slots : InPlan(n) /\ n # m_rIndex /\ blocks[n].recalculate
                               /\ (pc = "reverse" => n # iter) =>
              \/ blocks[n].entry = blocks[n].max_entry
              \/ blocks[n].entry >= Following(n) + blocks[n].reach

FastInv == Reaches /\ Corners /\ NoneTicks /\ Passed /\ Limited /\ AsFast

(* The block before one of the queue or the new one, if it is not the first, *)
(* is in the queue.                                                        *)
LEMMA BlockBefore ==
    ASSUME m_wIndex \in Slots, m_rIndex \in Slots, NEW n \in Slots, n # m_rIndex,
           InQueue(n) \/ n = m_wIndex
    PROVE  /\ prev(n) \in Slots /\ InQueue(prev(n)) /\ next(prev(n)) = n /\ prev(n) # n
           /\ Behind(prev(n)) = Behind(n) + 1
           /\ prev(n) # m_wIndex
  <1>1. /\ prev(n) \in Slots /\ next(prev(n)) = n /\ prev(n) # n
    BY SlotsType, Neighbours
  <1>2. Behind(n) \in Nat /\ Behind(m_rIndex) \in Nat /\ Behind(n) # Behind(m_rIndex)
        /\ Behind(m_rIndex) <= Size - 1
    BY Distances, OnePlace, SizeAssumption
  <1>3. Behind(n) < Behind(m_rIndex)
    BY <1>2, Distances DEF InQueue
  <1>4. Behind(prev(n)) = Behind(n) + 1
    BY <1>2, <1>3, Distances, SizeAssumption
  <1>5. InQueue(prev(n)) /\ Behind(prev(n)) # 0
    BY <1>2, <1>3, <1>4 DEF InQueue
  <1> QED BY <1>1, <1>4, <1>5, Distances

LEMMA FastInit == Init => FastInv
  <1> SUFFICES ASSUME Init
               PROVE  FastInv
    OBVIOUS
  <1>1. \A n \in Slots : ~InQueue(n)
    BY SlotsType, Distances DEF Init, InQueue
  <1> QED BY <1>1 DEF Init, FastInv, InPlan, Reaches, Corners, NoneTicks, Passed, Limited, AsFast

(* The new block can be left out of the queue's plan: nothing changes for   *)
(* the blocks before it, until the reverse walk comes to them.             *)
LEMMA FastAppend ==
    ASSUME minimum_planner_speed = 0, TypeOK, FastInv, NEW move \in Moves, append_block(move)
    PROVE  FastInv'
  <1> USE DEF FastInv
  <1>1. PICK v \in JunctionSpeeds(move) : blocks' = [blocks EXCEPT ![m_wIndex] = NewBlock(move, v)]
    BY DEF append_block
  <1>2. /\ UNCHANGED <<m_rIndex, m_wIndex, ticking>>
        /\ pc = "idle" /\ pc' = "start"
        /\ blocks \in [Slots -> Block] /\ m_rIndex \in Slots /\ m_wIndex \in Slots
    BY DEF append_block, TypeOK, tickVars
  <1>3. \A n \in Slots : Behind(n)' = Behind(n) /\ InQueue(n)' = InQueue(n)
    BY <1>2, RingKept
  <1>4. \A n \in Slots : n # m_wIndex => blocks'[n] = blocks[n]
    BY <1>1, <1>2
  <1>5. \A n \in Slots : InQueue(n) => n # m_wIndex
    BY <1>2, Distances DEF InQueue
  <1>6. LET b == blocks'[m_wIndex]
        IN  /\ b.max_entry = v /\ b.reach = move.reach /\ b.recalculate
            /\ b.entry = min(v, move.reach)
    BY <1>1, <1>2, JunctionType, NewBlockSpeeds
  <1>7. v \in Nat /\ move.reach \in Nat \ {0}
    BY JunctionType, SpeedAssumption
  <1>8. ASSUME NEW n \in Slots, InPlan(n)', n # m_rIndex, n # m_wIndex
        PROVE  /\ InPlan(n) /\ blocks'[n] = blocks[n] /\ blocks'[prev(n)] = blocks[prev(n)]
    <2>1. InQueue(n)
      BY <1>2, <1>3, <1>8 DEF InPlan
    <2> QED BY <1>2, <1>4, <1>8, <2>1, BlockBefore DEF InPlan
  <1>9. Reaches'
    BY <1>2, <1>3, <1>4, <1>6, <1>7 DEF Reaches, InPlan
  <1>10. Corners'
    <2> SUFFICES ASSUME NEW n \in Slots, InPlan(n)', n # m_rIndex
                 PROVE  blocks'[n].max_entry <= blocks'[prev(n)].nominal
      BY <1>2 DEF Corners
    <2>1. CASE n = m_wIndex
      <3>1. ~empty
        BY <2>1 DEF empty
      <3>2. prev(n) \in Slots /\ blocks'[prev(n)] = blocks[prev(n)]
        BY <1>2, <1>4, <2>1, BlockBefore
      <3>3. blocks[prev(n)].nominal \in Nat /\ move.nominal \in Nat
        BY <1>2, <3>2, SpeedAssumption DEF Block
      <3>4. v <= blocks[prev(n)].nominal
        <4>1. CASE v = 0
          BY <3>3, <4>1
        <4>2. CASE v # 0
          <5>1. PICK j \in Junctions :
                    v = min(j, min(blocks[prev(m_wIndex)].nominal, move.nominal))
            BY <3>1, <4>2 DEF JunctionSpeeds
          <5>2. j \in Nat
            BY SpeedAssumption
          <5> QED BY <2>1, <3>3, <5>1, <5>2 DEF min
        <4> QED BY <4>1, <4>2
      <3> QED BY <1>6, <2>1, <3>2, <3>4
    <2>2. CASE n # m_wIndex
      BY <1>8, <2>2 DEF Corners
    <2> QED BY <2>1, <2>2
  <1>11. NoneTicks' /\ Passed'
    BY <1>2, <1>3, <1>4, <1>5 DEF NoneTicks, Passed
  <1>12. Limited'
    <2> SUFFICES ASSUME NEW n \in Slots, InPlan(n)', n # m_rIndex, ~blocks'[n].recalculate
                 PROVE  blocks'[n].entry = blocks'[n].max_entry \/ blocks'[n].entry >= Pace(prev(n))'
      BY <1>2 DEF Limited
    <2>1. n # m_wIndex
      BY <1>6
    <2>2. Pace(prev(n))' = Pace(prev(n))
      BY <1>8, <2>1 DEF Pace
    <2> QED BY <1>8, <2>1, <2>2 DEF Limited
  <1>13. AsFast'
    <2> SUFFICES ASSUME NEW n \in Slots, InPlan(n)', n # m_rIndex, blocks'[n].recalculate
                 PROVE  \/ blocks'[n].entry = blocks'[n].max_entry
                        \/ blocks'[n].entry >= Following(n)' + blocks'[n].reach
      BY <1>2 DEF AsFast
    <2>1. CASE n = m_wIndex
      BY <1>2, <1>6, <1>7, <2>1 DEF Following, min
    <2>2. CASE n # m_wIndex
      <3>1. Following(n)' = Following(n)
        <4>1. next(n) \in Slots
          BY SlotsType
        <4> QED BY <1>2, <1>4, <2>2, <4>1 DEF Following, Unjoined
      <3> QED BY <1>2, <1>8, <2>2, <3>1 DEF AsFast
    <2> QED BY <2>1, <2>2
  <1> QED BY <1>9, <1>10, <1>11, <1>12, <1>13

LEMMA FastCompute ==
    ASSUME TypeOK, FeasibleInv, JoinInv, FastInv, Compute
    PROVE  FastInv'
  <1> USE DEF FastInv, queueVars, tickVars, walkVars
  <1>1. /\ UNCHANGED <<blocks, m_rIndex, m_wIndex, ticking>>
        /\ pc # "idle" /\ pc # "commit"
        /\ blocks \in [Slots -> Block] /\ m_rIndex \in Slots /\ m_wIndex \in Slots /\ iter \in Slots
        /\ UNCHANGED iter
    BY DEF Compute, recalculate, ReverseEnd, ForwardEnd, FinalTrapezoid, TrapezoidSkipped,
           TrapezoidComputed, TypeOK
  <1>2. \A n \in Slots : Behind(n)' = Behind(n) /\ InQueue(n)' = InQueue(n)
    BY <1>1, RingKept
  <1>3. pc' # "idle" /\ pc' # "start" /\ (pc' = "reverse" => recalculate /\ ~empty)
    BY SlotsType DEF Compute, recalculate, ReverseEnd, ForwardEnd, FinalTrapezoid, TrapezoidSkipped,
           TrapezoidComputed, FeasibleInv, TrapezoidFits, TypeOK
  <1>4. \A n \in Slots : InPlan(n)' = InPlan(n) /\ Pace(n)' = Pace(n)
    BY <1>1, <1>2, <1>3 DEF InPlan, Pace
  <1>5. Reaches' /\ NoneTicks'
    BY <1>1, <1>2, <1>4 DEF Reaches, NoneTicks
  <1>6. Corners' /\ Limited'
    BY <1>1, <1>4, SlotsType DEF Corners, Limited
  <1>7. Passed'
    <2> SUFFICES ASSUME pc' = "reverse", NEW n \in Slots, Behind(n)' < Behind(iter)'
                 PROVE  FALSE
      BY DEF Passed
    <2>1. iter = m_wIndex /\ iter' = iter
      BY <1>1, <1>3 DEF recalculate, FeasibleInv, WalkFits
    <2>2. Behind(iter)' = 0 /\ Behind(n)' \in Nat
      <3>1. Behind(n) \in Nat /\ Behind(m_wIndex) = 0
        BY <1>1, Distances, SizeAssumption
      <3> QED BY <1>1, <1>2, <2>1, <3>1 DEF Behind
    <2> QED BY <2>2
  <1>8. AsFast'
    <2> SUFFICES ASSUME NEW n \in Slots, InPlan(n), n # m_rIndex, blocks[n].recalculate,
                        pc' = "reverse" => n # iter
                 PROVE  \/ blocks[n].entry = blocks[n].max_entry
                        \/ blocks[n].entry >= Following(n)' + blocks[n].reach
      BY <1>1, <1>4 DEF AsFast
    <2>1. CASE recalculate /\ empty
      BY <1>1, <2>1, Distances DEF InPlan, InQueue, empty
    <2>2. CASE recalculate /\ ~empty
      <3>1. Unjoined' = Unjoined /\ pc = "start"
        BY <1>1, <2>2 DEF recalculate, FeasibleInv, WalkFits, Unjoined
      <3>2. Following(n)' = Following(n)
        BY <1>1, <3>1 DEF Following
      <3> QED BY <3>1, <3>2 DEF AsFast
    <2>3. CASE ReverseEnd
      <3>1. /\ pc = "reverse" /\ pc' = "forward" /\ m_rIndex # m_wIndex
            /\ iter = m_rIndex \/ ~blocks[iter].recalculate
            /\ blocks[m_wIndex].recalculate
        BY <2>3 DEF ReverseEnd, JoinInv, WalkInQueue
      <3>2. n # iter /\ iter # m_wIndex
        BY <3>1
      <3>3. Following(n)' = Following(n)
        BY <1>1, <3>1, <3>2 DEF Following, Unjoined
      <3> QED BY <3>2, <3>3 DEF AsFast
    <2>4. CASE ~recalculate /\ ~ReverseEnd
      <3>1. pc # "reverse" /\ pc # "start" /\ pc' # "reverse"
        BY <1>3, <2>4 DEF Compute, ForwardEnd, FinalTrapezoid, TrapezoidSkipped, TrapezoidComputed
      <3>2. Following(n)' = Following(n)
        BY <1>1, <1>3, <3>1 DEF Following, Unjoined
      <3> QED BY <3>1, <3>2 DEF AsFast
    <2> QED BY <2>1, <2>2, <2>3, <2>4
  <1> QED BY <1>5, <1>6, <1>7, <1>8

(* Where the reverse walk comes by, a block is entered as fast as it may.   *)
LEMMA FastReverse ==
    ASSUME TypeOK, FeasibleInv, JoinInv, FastInv, ReverseWalk
    PROVE  FastInv'
  <1> USE DEF FastInv
  <1> DEFINE b == blocks[iter]
             r == reverse_pass(b, speed)
  <1>1. /\ UNCHANGED <<m_rIndex, m_wIndex, pc, ticking>>
        /\ pc = "reverse" /\ iter # m_rIndex /\ b.recalculate
        /\ blocks' = [blocks EXCEPT ![iter] = r] /\ iter' = prev(iter)
        /\ blocks \in [Slots -> Block] /\ m_rIndex \in Slots /\ m_wIndex \in Slots
        /\ iter \in Slots /\ speed \in Nat /\ b \in Block
    BY DEF ReverseWalk, TypeOK, tickVars
  <1>2. \A n \in Slots : Behind(n)' = Behind(n) /\ InQueue(n)' = InQueue(n)
    BY <1>1, RingKept
  <1>3. m_rIndex # m_wIndex
    BY <1>1 DEF JoinInv, WalkInQueue
  <1>4. /\ r.nominal = b.nominal /\ r.reach = b.reach /\ r.max_entry = b.max_entry
        /\ r.is_ticking = b.is_ticking /\ r.recalculate = b.recalculate /\ r.exit = b.exit
    <2>1. Limits(b)
      BY <1>1 DEF FeasibleInv, SlotsFit
    <2> QED BY <1>1, <2>1, ReversePass, ReverseSpeeds
  <1>5. r.entry = b.max_entry \/ r.entry >= speed + b.reach
    BY <1>1 DEF reverse_pass, Block, max_allowable_speed, min
  <1>6. speed = IF iter = m_wIndex THEN 0 ELSE blocks[next(iter)].entry
    BY <1>1, <1>3 DEF FeasibleInv, WalkFits
  <1> HIDE DEF r, b
  <1>7. \A n \in Slots : blocks'[n] = IF n = iter THEN r ELSE blocks[n]
    BY <1>1
  <1>8. \A n \in Slots : /\ blocks'[n].nominal = blocks[n].nominal
                         /\ blocks'[n].reach = blocks[n].reach
                         /\ blocks'[n].max_entry = blocks[n].max_entry
                         /\ blocks'[n].is_ticking = blocks[n].is_ticking
                         /\ blocks'[n].recalculate = blocks[n].recalculate
                         /\ blocks'[n].exit = blocks[n].exit
    BY <1>4, <1>7 DEF b
  <1>9. Behind(iter) < Behind(m_rIndex) /\ Behind(iter) \in Nat /\ Behind(m_rIndex) <= Size - 1
    <2>1. Behind(iter) < Behind(m_rIndex)
      BY <1>1, <1>3, ReverseRoom DEF b
    <2> QED BY <1>1, <2>1, Distances, SizeAssumption
  <1>10. /\ iter' \in Slots /\ Behind(iter') = Behind(iter) + 1
         /\ iter' # m_wIndex /\ next(iter') = iter
    <2>1. iter' \in Slots /\ next(iter') = iter /\ Behind(prev(iter)) = Behind(iter) + 1
      BY <1>1, <1>9, SlotsType, Neighbours, Distances, SizeAssumption
    <2>2. Behind(m_wIndex) = 0
      BY <1>1, Distances
    <2> QED BY <1>1, <1>9, <2>1, <2>2
  <1>11. \A n \in Slots : InPlan(n)' = InPlan(n)
    BY <1>1, <1>2 DEF InPlan
  <1>12. Reaches' /\ NoneTicks'
    BY <1>1, <1>2, <1>8, <1>11 DEF Reaches, NoneTicks
  <1>13. Corners'
    BY <1>1, <1>8, <1>11, SlotsType DEF Corners
  <1>14. Passed'
    <2> SUFFICES ASSUME NEW n \in Slots, Behind(n) < Behind(iter')
                 PROVE  blocks[n].recalculate
      <3>1. Behind(iter)' = Behind(iter')
        BY <1>1 DEF Behind
      <3> QED BY <1>2, <1>8, <3>1 DEF Passed
    <2>1. Behind(n) \in Nat
      BY <1>1, Distances, SizeAssumption
    <2>2. CASE n = iter
      BY <1>1, <2>2 DEF b
    <2>3. CASE n # iter
      <3>1. Behind(n) # Behind(iter)
        BY <1>1, <2>3, OnePlace
      <3> QED BY <1>1, <1>9, <1>10, <2>1, <3>1 DEF Passed
    <2> QED BY <2>2, <2>3
  <1>15. Limited'
    <2> SUFFICES ASSUME NEW n \in Slots, InPlan(n), n # m_rIndex, ~blocks[n].recalculate
                 PROVE  blocks'[n].entry = blocks'[n].max_entry \/ blocks'[n].entry >= Pace(prev(n))'
      BY <1>1, <1>8, <1>11 DEF Limited
    <2>1. n # iter
      BY <1>1 DEF b
    <2>2. InQueue(n) \/ n = m_wIndex
      BY DEF InPlan
    <2>3. prev(n) \in Slots /\ next(prev(n)) = n /\ prev(n) # m_wIndex
          /\ Behind(prev(n)) = Behind(n) + 1
      BY <1>1, <2>2, BlockBefore
    <2>4. prev(n) # iter
      <3> SUFFICES ASSUME prev(n) = iter
                   PROVE  FALSE
        OBVIOUS
      <3>1. Behind(n) < Behind(iter)
        BY <1>1, <2>3, Distances, SizeAssumption
      <3> QED BY <1>1, <3>1 DEF Passed
    <2>5. Pace(prev(n))' = Pace(prev(n))
      <3>1. prev(n)' = prev(n)
        BY DEF prev
      <3> QED BY <1>7, <2>3, <2>4, <3>1 DEF Pace
    <2> QED BY <1>7, <2>1, <2>5 DEF Limited
  <1>16. AsFast'
    <2> SUFFICES ASSUME NEW n \in Slots, InPlan(n), n # m_rIndex, blocks[n].recalculate, n # iter'
                 PROVE  \/ blocks'[n].entry = blocks'[n].max_entry
                        \/ blocks'[n].entry >= Following(n)' + blocks'[n].reach
      BY <1>1, <1>8, <1>11 DEF AsFast
    <2>1. ~Unjoined'
      BY <1>1, <1>10 DEF Unjoined
    <2>2. next(n) \in Slots /\ next(n) # n
      BY SlotsType
    <2>3. CASE n = iter
      <3>1. Following(n)' = speed
        BY <1>1, <1>6, <1>7, <2>1, <2>2, <2>3 DEF Following
      <3> QED BY <1>4, <1>5, <1>7, <2>3, <3>1
    <2>4. CASE n # iter
      <3>1. next(n) # iter
        BY <1>10, <2>4, OnePlace, <1>1
      <3>2. Following(n)' = Following(n)
        BY <1>1, <1>7, <2>1, <2>2, <3>1 DEF Following, Unjoined
      <3> QED BY <1>1, <1>7, <2>4, <3>2 DEF AsFast
    <2> QED BY <2>3, <2>4
  <1> QED BY <1>12, <1>13, <1>14, <1>15, <1>16

(* The speed the forward walk carries is what the block it comes from can   *)
(* end with, or all that its own nominal speed lets the next corner need.  *)
LEMMA ForwardLimit ==
    ASSUME NEW b \in Block, NEW v \in Nat, Limits(b)
    PROVE  \/ forward_pass(b, v) = b
           \/ /\ ~forward_pass(b, v).recalculate
              /\ forward_pass(b, v).entry = b.max_entry \/ forward_pass(b, v).entry = v
  <1>1. CASE min(v, min(b.nominal, b.max_entry)) <= b.entry
    <2>1. forward_pass(b, v) = [b EXCEPT !.entry = min(v, min(b.nominal, b.max_entry)),
                                         !.recalculate = FALSE]
      BY <1>1 DEF forward_pass
    <2>2. b.max_entry <= b.nominal /\ b.max_entry \in Nat /\ b.nominal \in Nat
      BY DEF Limits, Block
    <2>3. min(v, min(b.nominal, b.max_entry)) \in {b.max_entry, v}
      BY <2>2 DEF min
    <2>4. /\ ~forward_pass(b, v).recalculate
          /\ forward_pass(b, v).entry = min(v, min(b.nominal, b.max_entry))
      BY <2>1 DEF Block
    <2> QED BY <2>3, <2>4
  <1>2. CASE ~(min(v, min(b.nominal, b.max_entry)) <= b.entry)
    BY <1>2 DEF forward_pass
  <1> QED BY <1>1, <1>2

LEMMA FastForward ==
    ASSUME TypeOK, FeasibleInv, JoinInv, FastInv, ForwardWalk
    PROVE  FastInv'
  <1> USE DEF FastInv
  <1> DEFINE a == blocks[iter]
             c == next(iter)
             b == blocks[c]
             f == forward_pass(b, speed)
  <1>1. /\ UNCHANGED <<m_rIndex, m_wIndex, ticking>>
        /\ pc = "forward" /\ pc' = "trapezoid" /\ iter # m_wIndex
        /\ blocks' = [blocks EXCEPT ![c] = f]
        /\ blocks \in [Slots -> Block] /\ m_rIndex \in Slots /\ m_wIndex \in Slots
        /\ iter \in Slots /\ speed \in Nat /\ c \in Slots /\ c # iter /\ a \in Block /\ b \in Block
    BY SlotsType DEF ForwardWalk, TypeOK, tickVars
  <1>2. \A n \in Slots : Behind(n)' = Behind(n) /\ InQueue(n)' = InQueue(n)
    BY <1>1, RingKept
  <1>3. Limits(b) /\ Limits(f)
    <2>1. Limits(b)
      BY <1>1 DEF FeasibleInv, SlotsFit
    <2> QED BY <1>1, <2>1, ForwardSpeeds
  <1>4. /\ f.nominal = b.nominal /\ f.reach = b.reach /\ f.max_entry = b.max_entry
        /\ f.is_ticking = b.is_ticking /\ f.exit = b.exit
        /\ f.recalculate => b.recalculate
        /\ f.entry <= b.entry /\ f.entry <= b.max_entry
        /\ f.entry \in Nat /\ b.entry \in Nat /\ b.reach \in Nat /\ b.max_entry \in Nat
    <2> HIDE DEF b
    <2>1. f.nominal = b.nominal /\ f.reach = b.reach /\ f.max_entry = b.max_entry
          /\ (f.recalculate => b.recalculate) /\ f.entry <= b.entry
      BY <1>1, <1>3, ForwardSpeeds
    <2>2. f \in Block /\ f.is_ticking = b.is_ticking /\ f.exit = b.exit
      BY <1>1, ForwardPass
    <2> HIDE DEF f
    <2>3. f.entry \in Nat /\ b.entry \in Nat /\ b.reach \in Nat /\ b.max_entry \in Nat
      BY <1>1, <2>2 DEF Block
    <2> QED BY <1>3, <2>1, <2>2, <2>3 DEF Limits
  <1>5. f = b \/ (~f.recalculate /\ (f.entry = b.max_entry \/ f.entry = speed))
    BY <1>1, <1>3, ForwardLimit
  <1> HIDE DEF a, b, c, f
  <1>6. \A n \in Slots : blocks'[n] = IF n = c THEN f ELSE blocks[n]
    BY <1>1
  <1>7. \A n \in Slots : /\ blocks'[n].nominal = blocks[n].nominal
                         /\ blocks'[n].reach = blocks[n].reach
                         /\ blocks'[n].max_entry = blocks[n].max_entry
                         /\ blocks'[n].is_ticking = blocks[n].is_ticking
                         /\ blocks'[n].exit = blocks[n].exit
                         /\ blocks'[n].recalculate => blocks[n].recalculate
                         /\ blocks'[n].entry <= blocks[n].entry
                         /\ blocks'[n].entry \in Nat /\ blocks[n].entry \in Nat
                         /\ blocks[n].reach \in Nat /\ blocks[n].exit \in Nat
    <2> TAKE n \in Slots
    <2>1. blocks[n].entry \in Nat /\ blocks[n].reach \in Nat /\ blocks[n].exit \in Nat
      BY <1>1 DEF Block
    <2> QED BY <1>4, <1>6, <2>1 DEF b
  <1>8. \A n \in Slots : InPlan(n)' = InPlan(n)
    BY <1>1, <1>2 DEF InPlan
  <1>9. Reaches' /\ NoneTicks' /\ Passed'
    BY <1>1, <1>2, <1>7, <1>8 DEF Reaches, NoneTicks, Passed
  <1>10. Corners'
    BY <1>1, <1>7, <1>8, SlotsType DEF Corners
  <1>11. \A n \in Slots : Pace(n)' <= Pace(n) /\ Pace(n) \in Nat /\ Pace(n)' \in Nat
    BY <1>7 DEF Pace
  <1>12. ASSUME InPlan(c), c # m_rIndex, f.entry = speed
         PROVE  f.entry = b.max_entry \/ f.entry >= Pace(iter)
    <2>1. b.max_entry <= a.nominal
      <3>1. InQueue(c) \/ c = m_wIndex
        BY <1>12 DEF InPlan
      <3>2. prev(c) \in Slots /\ next(prev(c)) = c
        BY <1>1, SlotsType, Neighbours
      <3>3. prev(c) = iter
        BY <1>1, <3>2, OnePlace DEF c
      <3> QED BY <1>1, <1>12, <3>3 DEF Corners, a, b
    <2>2. CASE a.is_ticking
      <3>1. speed = a.exit
        BY <1>1, <2>2 DEF JoinInv, WalkInQueue, Returning, a
      <3>2. Pace(iter) = a.exit
        BY <2>2 DEF Pace, a
      <3> QED BY <1>1, <1>4, <1>12, <3>1, <3>2
    <2>3. CASE ~a.is_ticking
      <3>1. speed = Reached(a)
        BY <1>1, <2>3 DEF FeasibleInv, WalkFits, Returning, a
      <3>2. a.nominal \in Nat /\ a.entry \in Nat /\ a.reach \in Nat
        BY <1>1 DEF Block
      <3>3. speed = a.nominal \/ speed = a.entry + a.reach
        BY <3>1, <3>2 DEF Reached, min
      <3>4. Pace(iter) = a.entry + a.reach
        BY <2>3 DEF Pace, a
      <3> QED BY <1>4, <1>12, <2>1, <3>2, <3>3, <3>4
    <2> QED BY <2>2, <2>3
  <1>13. Limited'
    <2> SUFFICES ASSUME NEW n \in Slots, InPlan(n), n # m_rIndex, ~blocks'[n].recalculate
                 PROVE  blocks'[n].entry = blocks'[n].max_entry \/ blocks'[n].entry >= Pace(prev(n))'
      BY <1>1, <1>8 DEF Limited
    <2>0. prev(n)' = prev(n) /\ prev(n) \in Slots
      BY SlotsType DEF prev
    <2>1. Pace(prev(n))' <= Pace(prev(n)) /\ Pace(prev(n)) \in Nat /\ Pace(prev(n))' \in Nat
      BY <1>11, <2>0
    <2>2. CASE blocks'[n] = blocks[n]
      BY <1>7, <2>1, <2>2 DEF Limited
    <2>3. CASE blocks'[n] # blocks[n]
      <3>1. n = c /\ blocks'[n] = f /\ f # b
        BY <1>6, <2>3 DEF b
      <3>2. prev(n) = iter
        <4>1. prev(c) \in Slots /\ next(prev(c)) = c
          BY <1>1, SlotsType, Neighbours
        <4> QED BY <1>1, <3>1, <4>1, OnePlace DEF c
      <3>3. f.entry = b.max_entry \/ f.entry >= Pace(iter)
        BY <1>5, <1>12, <3>1
      <3> QED BY <1>4, <2>1, <3>1, <3>2, <3>3
    <2> QED BY <2>2, <2>3
  <1>14. AsFast'
    <2> SUFFICES ASSUME NEW n \in Slots, InPlan(n), n # m_rIndex, blocks'[n].recalculate
                 PROVE  \/ blocks'[n].entry = blocks'[n].max_entry
                        \/ blocks'[n].entry >= Following(n)' + blocks'[n].reach
      BY <1>1, <1>8 DEF AsFast
    <2>1. blocks'[n] = blocks[n]
      BY <1>5, <1>6 DEF b
    <2>2. Following(n)' <= Following(n) /\ Following(n) \in Nat /\ Following(n)' \in Nat
      <3>1. next(n) \in Slots
        BY SlotsType
      <3> QED BY <1>1, <1>7, <3>1 DEF Following, Unjoined
    <2>3. \/ blocks[n].entry = blocks[n].max_entry
          \/ blocks[n].entry >= Following(n) + blocks[n].reach
      BY <1>1, <1>7 DEF AsFast
    <2> QED BY <1>7, <2>1, <2>2, <2>3
  <1> QED BY <1>9, <1>10, <1>13, <1>14

LEMMA FastMarks ==
    ASSUME TypeOK, JoinInv, FastInv, TrapezoidLocked \/ (Quiet /\ get_next_block)
    PROVE  FastInv'
  <1> USE DEF FastInv, walkVars
  <1>1. /\ UNCHANGED <<m_rIndex, m_wIndex, iter>>
        /\ blocks \in [Slots -> Block] /\ m_rIndex \in Slots /\ m_wIndex \in Slots
        /\ iter \in Slots /\ trapezoid.slot \in Slots
        /\ (pc = "lock" /\ pc' = "store") \/ (pc \in {"idle", "commit"} /\ pc' = pc)
    BY DEF TrapezoidLocked, get_next_block, Quiet, TypeOK
  <1>2. \A n \in Slots : Behind(n)' = Behind(n) /\ InQueue(n)' = InQueue(n)
    BY <1>1, RingKept
  <1>3. \A n \in Slots :
           LET b == blocks[n]
               d == blocks'[n]
           IN  /\ d.entry = b.entry /\ d.exit = b.exit /\ d.nominal = b.nominal
               /\ d.reach = b.reach /\ d.max_entry = b.max_entry
               /\ b.is_ticking => d.is_ticking
               /\ d.recalculate => b.recalculate
    <2>1. CASE TrapezoidLocked
      BY <1>1, <2>1 DEF TrapezoidLocked, Block
    <2>2. CASE Quiet /\ get_next_block
      BY <1>1, <2>2 DEF get_next_block, Quiet, Block
    <2> QED BY <2>1, <2>2
  <1>4. \A n \in Slots : InPlan(n)' = InPlan(n) /\ Following(n)' = Following(n)
    BY <1>1, <1>2, <1>3, SlotsType DEF InPlan, Following, Unjoined
  <1>5. Reaches' /\ Corners' /\ Passed'
    BY <1>1, <1>3, <1>4, SlotsType DEF Reaches, Corners, Passed
  <1>6. AsFast'
    BY <1>1, <1>3, <1>4 DEF AsFast
  <1>7. CASE TrapezoidLocked
    <2>1. \A n \in Slots : /\ blocks'[n].is_ticking = blocks[n].is_ticking
                           /\ blocks'[n].recalculate = blocks[n].recalculate
      BY <1>1, <1>7 DEF TrapezoidLocked, Block
    <2>2. ticking' = ticking
      BY <1>7 DEF TrapezoidLocked, tickVars
    <2>3. \A n \in Slots : Pace(n)' = Pace(n)
      BY <1>3, <2>1 DEF Pace
    <2>4. NoneTicks'
      BY <1>2, <2>1, <2>2 DEF NoneTicks
    <2>5. Limited'
      BY <1>1, <1>3, <1>4, <2>1, <2>3, SlotsType DEF Limited
    <2> QED BY <1>5, <1>6, <2>4, <2>5
  <1>8. CASE Quiet /\ get_next_block
    <2>1. /\ ticking' /\ m_rIndex # m_wIndex
          /\ \A n \in Slots : n # m_rIndex => blocks'[n] = blocks[n]
          /\ blocks'[m_rIndex].is_ticking
      BY <1>1, <1>8 DEF get_next_block, empty, Block
    <2>2. NoneTicks'
      BY <2>1 DEF NoneTicks
    <2>3. Limited'
      <3> SUFFICES ASSUME NEW n \in Slots, InPlan(n), n # m_rIndex, ~blocks[n].recalculate,
                          blocks[n].entry # blocks[n].max_entry
                   PROVE  blocks[n].entry >= Pace(prev(n))'
        BY <1>1, <1>4, <2>1 DEF Limited
      <3>0. prev(n)' = prev(n) /\ prev(n) \in Slots
        BY SlotsType DEF prev
      <3>1. CASE prev(n) # m_rIndex
        BY <2>1, <3>0, <3>1 DEF Limited, Pace
      <3>2. CASE prev(n) = m_rIndex
        <4>1. InQueue(n) \/ n = m_wIndex
          BY DEF InPlan
        <4>2. InQueue(m_rIndex) /\ next(m_rIndex) = n
          BY <1>1, <3>2, <4>1, BlockBefore
        <4>3. Pace(prev(n))' = blocks[m_rIndex].exit
          BY <1>1, <1>3, <2>1, <3>0, <3>2 DEF Pace
        <4>4. n = m_wIndex => pc = "commit"
          <5>1. n = m_wIndex => Behind(n) = 0
            BY <1>1, Distances
          <5> QED BY <1>1, <1>8, <5>1 DEF InPlan, InQueue, Quiet
        <4>5. n # m_wIndex => ~blocks[n].is_ticking /\ InQueue(n)
          BY <4>1 DEF JoinInv, OnlyTailTicks
        <4>6. blocks[n].entry = blocks[m_rIndex].exit
          <5>1. CASE pc = "idle"
            <6>1. n # m_wIndex
              BY <4>4, <5>1
            <6>2. blocks[m_rIndex].exit = blocks[n].initial
              BY <1>1, <4>2, <5>1, <6>1 DEF JoinInv, JoinedAfter, Returning, Begins
            <6>3. blocks[n].entry = blocks[n].initial
              BY <4>5, <5>1, <6>1 DEF JoinInv, Raised
            <6> QED BY <6>2, <6>3
          <5>2. CASE pc = "commit"
            <6>1. At = m_wIndex /\ Behind(m_wIndex) = 0
              BY <1>1, <5>2, Distances DEF At
            <6>2. \A k \in Slots : InQueue(k) => Behind(k) > Behind(At)
              <7>1. \A k \in Slots : Behind(k) \in Nat
                BY <1>1, Distances, SizeAssumption
              <7> QED BY <6>1, <7>1 DEF InQueue
            <6>3. blocks[m_rIndex].exit = IF n = m_wIndex THEN blocks[n].entry
                                          ELSE blocks[n].initial
              BY <1>1, <4>2, <5>2, <6>1, <6>2 DEF JoinInv, JoinedBefore
            <6>4. n # m_wIndex => blocks[n].entry = blocks[n].initial
              BY <4>5, <5>2, <6>2 DEF JoinInv, JoinedBefore
            <6> QED BY <6>3, <6>4
          <5> QED BY <1>8, <5>1, <5>2 DEF Quiet
        <4>7. blocks[n].entry \in Nat
          BY <1>1 DEF Block
        <4> QED BY <4>3, <4>6, <4>7
      <3> QED BY <3>1, <3>2
    <2> QED BY <1>5, <1>6, <2>2, <2>3
  <1> QED BY <1>7, <1>8

LEMMA FastStored ==
    ASSUME TypeOK, FeasibleInv, JoinInv, FastInv, TrapezoidStored
    PROVE  FastInv'
  <1> USE DEF FastInv, walkVars, tickVars
  <1> DEFINE s == trapezoid.slot
  <1>1. /\ UNCHANGED <<m_rIndex, m_wIndex, iter, ticking>>
        /\ pc = "store" /\ pc' = trapezoid.then
        /\ blocks' = [blocks EXCEPT ![s] = [@ EXCEPT !.initial = trapezoid.entry,
                                                     !.exit = trapezoid.exit, !.locked = FALSE]]
        /\ blocks \in [Slots -> Block] /\ m_rIndex \in Slots /\ m_wIndex \in Slots
        /\ iter \in Slots /\ s \in Slots
    BY DEF TrapezoidStored, TypeOK
  <1>2. \A n \in Slots : Behind(n)' = Behind(n) /\ InQueue(n)' = InQueue(n)
    BY <1>1, RingKept
  <1>3. \A n \in Slots :
           LET b == blocks[n]
               d == blocks'[n]
           IN  /\ d.entry = b.entry /\ d.recalculate = b.recalculate
               /\ d.is_ticking = b.is_ticking /\ d.reach = b.reach
               /\ d.nominal = b.nominal /\ d.max_entry = b.max_entry
               /\ n # s => d = b
    BY <1>1 DEF Block
  <1>4. ~blocks[s].is_ticking
    BY <1>1 DEF JoinInv, TrapezoidJoins
  <1>5. \A n \in Slots : InPlan(n)' => InPlan(n)
    BY <1>1, <1>2 DEF InPlan
  <1>6. \A n \in Slots : Following(n)' = Following(n) /\ Pace(n)' = Pace(n)
    <2>1. ~Unjoined /\ (Unjoined' => pc' = "idle")
      BY <1>1 DEF Unjoined, TypeOK
    <2>2. pc' # "idle"
      BY <1>1 DEF FeasibleInv, TrapezoidFits
    <2>3. \A n \in Slots : Following(n)' = Following(n)
      BY <1>1, <1>3, <2>1, <2>2, SlotsType DEF Following
    <2>4. \A n \in Slots : Pace(n)' = Pace(n)
      BY <1>3, <1>4 DEF Pace
    <2> QED BY <2>3, <2>4
  <1>7. Reaches' /\ NoneTicks' /\ Passed'
    BY <1>1, <1>2, <1>3, <1>5 DEF Reaches, NoneTicks, Passed, TypeOK
  <1>8. Corners' /\ Limited'
    BY <1>1, <1>3, <1>5, <1>6, SlotsType DEF Corners, Limited, prev
  <1>9. AsFast'
    BY <1>1, <1>3, <1>5, <1>6 DEF AsFast
  <1> QED BY <1>7, <1>8, <1>9

LEMMA FastCommit ==
    ASSUME TypeOK, FeasibleInv, FastInv, queue_head
    PROVE  FastInv'
  <1> USE DEF FastInv, tickVars
  <1>1. /\ UNCHANGED <<blocks, m_rIndex, ticking>>
        /\ pc = "commit" /\ pc' = "idle" /\ m_wIndex' = next(m_wIndex) /\ m_wIndex' # m_rIndex
        /\ blocks \in [Slots -> Block] /\ m_rIndex \in Slots /\ m_wIndex \in Slots
        /\ ~blocks[m_wIndex].is_ticking
    BY SlotsType DEF queue_head, TypeOK, full, FeasibleInv, HeadFits
  <1>2. ASSUME NEW n \in Slots, InQueue(n)'
        PROVE  /\ InQueue(n) \/ n = m_wIndex
               /\ next(n) = m_wIndex' <=> n = m_wIndex
               /\ n # m_wIndex'
    <2>1. /\ next(m_wIndex) = IF m_wIndex = Size - 1 THEN 0 ELSE m_wIndex + 1
          /\ next(n) = IF n = Size - 1 THEN 0 ELSE n + 1
          /\ Size \in Nat /\ Size >= 2 /\ m_wIndex \in 0 .. Size - 1 /\ m_rIndex \in 0 .. Size - 1
          /\ n \in 0 .. Size - 1
      BY <1>1, Neighbours, SizeAssumption DEF Slots
    <2> QED BY <1>1, <1>2, <2>1 DEF InQueue, Behind
  <1>3. \A n \in Slots : InPlan(n)' => InQueue(n)' /\ InPlan(n)
    BY <1>1, <1>2 DEF InPlan
  <1>4. \A n \in Slots : InPlan(n)' => Following(n)' = Following(n)
    BY <1>1, <1>2, <1>3, SlotsType DEF Following, Unjoined
  <1>5. Reaches' /\ Passed'
    BY <1>1, <1>3 DEF Reaches, Passed
  <1>6. NoneTicks'
    BY <1>1, <1>2 DEF NoneTicks
  <1>7. Corners' /\ Limited'
    BY <1>1, <1>3, SlotsType DEF Corners, Limited, Pace, prev
  <1>8. AsFast'
    BY <1>1, <1>3, <1>4 DEF AsFast
  <1> QED BY <1>5, <1>6, <1>7, <1>8

LEMMA FastEmptied ==
    ASSUME TypeOK, FastInv, DropHead \/ (Quiet /\ flush)
    PROVE  FastInv'
  <1> USE DEF FastInv
  <1>1. /\ m_rIndex' = m_wIndex /\ m_wIndex' = m_wIndex /\ pc' \in {"idle", "commit"}
        /\ m_rIndex \in Slots /\ m_wIndex \in Slots
        /\ pc' # "idle" => blocks' = blocks /\ pc' = pc
    BY DEF DropHead, flush, Quiet, TypeOK
  <1>2. \A n \in Slots : ~InQueue(n)'
    <2> SUFFICES ASSUME NEW n \in Slots
                 PROVE  ~InQueue(n)'
      OBVIOUS
    <2> QED BY <1>1, SizeAssumption DEF InQueue, Behind, Slots
  <1>3. \A n \in Slots : InPlan(n)' => n = m_rIndex' /\ pc' # "idle" /\ InPlan(n)
    BY <1>1, <1>2 DEF InPlan
  <1> QED BY <1>1, <1>2, <1>3 DEF Reaches, Corners, NoneTicks, Passed, Limited, AsFast

LEMMA FastReleased ==
    ASSUME TypeOK, FeasibleInv, JoinInv, FastInv, Quiet, block_finished
    PROVE  FastInv'
  <1> USE DEF FastInv, walkVars
  <1>1. /\ UNCHANGED <<blocks, m_wIndex, pc, iter>>
        /\ m_rIndex' = next(m_rIndex) /\ m_rIndex # m_wIndex /\ pc \in {"idle", "commit"}
        /\ blocks \in [Slots -> Block] /\ m_rIndex \in Slots /\ m_wIndex \in Slots
    BY DEF block_finished, Quiet, FeasibleInv, TickIsQueued, TypeOK
  <1>2. \A n \in Slots : Behind(n)' = Behind(n)
    BY <1>1 DEF Behind
  <1>3. Behind(m_rIndex)' = Behind(m_rIndex) - 1
    <2>1. Behind(next(m_rIndex)) = Behind(m_rIndex) - 1
      BY <1>1, Distances
    <2> QED BY <1>1, <2>1 DEF Behind
  <1>4. \A n \in Slots : InQueue(n)' => InQueue(n) /\ n # m_rIndex
    <2> SUFFICES ASSUME NEW n \in Slots, InQueue(n)'
                 PROVE  InQueue(n) /\ n # m_rIndex
      OBVIOUS
    <2>1. Behind(n) \in Int /\ Behind(m_rIndex) \in Int
      BY <1>1, Distances
    <2> QED BY <1>2, <1>3, <2>1 DEF InQueue
  <1>5. \A n \in Slots : /\ InPlan(n)' => InPlan(n) /\ n # m_rIndex
                         /\ Following(n)' = Following(n) /\ Pace(n)' = Pace(n)
    BY <1>1, <1>4 DEF InPlan, Following, Unjoined, Pace
  <1>6. Reaches' /\ Passed' /\ AsFast'
    BY <1>1, <1>5 DEF Reaches, Passed, AsFast
  <1>7. Corners' /\ Limited'
    BY <1>1, <1>5, SlotsType DEF Corners, Limited, prev
  <1>8. NoneTicks'
    BY <1>1, <1>4 DEF NoneTicks, JoinInv, OnlyTailTicks
  <1> QED BY <1>6, <1>7, <1>8

LEMMA FastNext ==
    ASSUME minimum_planner_speed = 0, TypeOK, FeasibleInv, JoinInv, FastInv, [QuietNext]_vars
    PROVE  FastInv'
  <1>1. CASE \E move \in Moves : append_block(move)
    BY <1>1, FastAppend
  <1>2. CASE Compute
    BY <1>2, FastCompute
  <1>3. CASE ReverseWalk
    BY <1>3, FastReverse
  <1>4. CASE ForwardWalk
    BY <1>4, FastForward
  <1>5. CASE TrapezoidLocked \/ (Quiet /\ get_next_block)
    BY <1>5, FastMarks
  <1>6. CASE TrapezoidStored
    BY <1>6, FastStored
  <1>7. CASE queue_head
    BY <1>7, FastCommit
  <1>8. CASE DropHead \/ (Quiet /\ flush)
    BY <1>8, FastEmptied
  <1>9. CASE Quiet /\ block_finished
    BY <1>9, FastReleased
  <1>10. CASE UNCHANGED vars
    BY <1>10 DEF vars, queueVars, walkVars, tickVars, FastInv, InQueue, Behind, InPlan, Pace,
                 Unjoined, Following, Reaches, Corners, NoneTicks, Passed, Limited, AsFast, prev
  <1> QED BY <1>1, <1>2, <1>3, <1>4, <1>5, <1>6, <1>7, <1>8, <1>9, <1>10
          DEF QuietNext, Planner, Interrupt, Compute

-----------------------------------------------------------------------------
(* What the passes compute, against the plan of the whole queue: n blocks   *)
(* with the corners M and the reaches R.                                   *)

LEMMA NatOrder == IsWellFoundedOn({p \in Nat \X Nat : p[1] < p[2]}, Nat)
  BY NatLessThanWellFounded DEF OpToRel

(* A least number of a set.                                                *)
LEMMA Least ==
    ASSUME NEW T, T \subseteq Nat, T # {}
    PROVE  \E x \in T : \A y \in T : x <= y
  <1> DEFINE R == {p \in Nat \X Nat : p[1] < p[2]}
  <1>1. PICK x \in T : \A y \in T : <<y, x>> \notin R
    <2> HIDE DEF R
    <2>1. IsWellFoundedOn(R, Nat)
      BY NatOrder DEF R
    <2> QED BY <2>1, WFMin
  <1>2. ASSUME NEW y \in T PROVE x <= y
    <2>1. <<y, x>> \notin R
      BY <1>1
    <2>2. y \in Nat /\ x \in Nat
      OBVIOUS
    <2> QED BY <2>1, <2>2
  <1> QED BY <1>2

(* A set that holds 0 and the successor of each of its numbers.            *)
LEMMA Induction ==
    ASSUME NEW S, 0 \in S, \A n \in Nat : n \in S => n + 1 \in S
    PROVE  Nat \subseteq S
  <1> DEFINE T == Nat \ S
  <1> SUFFICES ASSUME T # {} PROVE FALSE
    OBVIOUS
  <1>1. PICK x \in T : \A y \in T : x <= y
    <2> HIDE DEF T
    <2>1. T \subseteq Nat
      BY DEF T
    <2> QED BY <2>1, Least
  <1>2. x # 0 /\ x \in Nat
    OBVIOUS
  <1>3. x - 1 \in Nat /\ x - 1 \notin T
    BY <1>1, <1>2
  <1>4. x - 1 + 1 \in S
    BY <1>3
  <1>5. x - 1 + 1 = x
    BY <1>2
  <1> QED BY <1>4, <1>5

(* What the recursion of best says of B, for n blocks with the corners M    *)
(* and the reaches R; the recursion has a solution.                        *)
Best(n, M, R, B) == /\ B[n] = 0
                    /\ \A i \in 0 .. n - 1 : B[i] = min(M[i], B[i + 1] + R[i])

LEMMA BestExists ==
    ASSUME NEW n \in Nat, NEW M \in [0 .. n - 1 -> Nat], NEW R \in [0 .. n - 1 -> Nat]
    PROVE  \E f \in [0 .. n -> Nat] : Best(n, M, R, f)
  <1> DEFINE From(f, k) == \A i \in 0 .. n - 1 : i >= n - k => f[i] = min(M[i], f[i + 1] + R[i])
             Solved(k) == \E f \in [0 .. n -> Nat] : f[n] = 0 /\ From(f, k)
             S == {k \in Nat : k <= n => Solved(k)}
  <1>1. Solved(0)
    <2> DEFINE f == [i \in 0 .. n |-> 0]
    <2>1. f \in [0 .. n -> Nat] /\ f[n] = 0 /\ From(f, 0)
      OBVIOUS
    <2> QED BY <2>1
  <1>2. ASSUME NEW k \in Nat, k + 1 <= n, Solved(k)
        PROVE  Solved(k + 1)
    <2>1. PICK f \in [0 .. n -> Nat] : f[n] = 0 /\ From(f, k)
      BY <1>2
    <2> DEFINE j == n - k - 1
               u == min(M[j], f[j + 1] + R[j])
               g == [f EXCEPT ![j] = u]
    <2>2. j \in 0 .. n - 1 /\ j + 1 \in 0 .. n
      BY <1>2
    <2>3. u \in Nat
      <3>1. M[j] \in Nat /\ R[j] \in Nat /\ f[j + 1] \in Nat
        BY <2>1, <2>2
      <3> QED BY <3>1 DEF min
    <2> HIDE DEF u
    <2>4. g \in [0 .. n -> Nat] /\ g[n] = 0
      BY <2>1, <2>2, <2>3
    <2>5. From(g, k + 1)
      <3> SUFFICES ASSUME NEW i \in 0 .. n - 1, i >= n - (k + 1)
                   PROVE  g[i] = min(M[i], g[i + 1] + R[i])
        OBVIOUS
      <3>1. g[i + 1] = f[i + 1]
        BY <2>1
      <3>2. CASE i = j
        BY <2>1, <2>2, <3>1, <3>2 DEF u
      <3>3. CASE i # j
        <4>1. i >= n - k
          BY <3>3
        <4>2. f[i] = min(M[i], f[i + 1] + R[i])
          BY <2>1, <4>1
        <4>3. g[i] = f[i]
          BY <2>1, <3>3
        <4> QED BY <3>1, <4>2, <4>3
      <3> QED BY <3>2, <3>3
    <2> QED BY <2>4, <2>5
  <1>3. Solved(n)
    <2> HIDE DEF Solved
    <2>1. 0 \in S /\ \A k \in Nat : k \in S => k + 1 \in S
      BY <1>1, <1>2
    <2> HIDE DEF S
    <2>2. n \in S
      BY <2>1, Induction
    <2> QED BY <2>2 DEF S
  <1>4. PICK f \in [0 .. n -> Nat] : f[n] = 0 /\ From(f, n)
    BY <1>3
  <1>5. Best(n, M, R, f)
    BY <1>4 DEF Best
  <1> QED BY <1>5

(* The arithmetic of one block.                                            *)
LEMMA Speeds ==
    /\ \A a, b \in Nat : a + b \in Nat
    /\ \A v, b, p \in Nat : v <= b /\ v <= p /\ (v = b \/ v >= p) => v = min(b, p)
  <1>1. \A a, b \in Nat : a + b \in Nat
    OBVIOUS
  <1>2. \A v, b, p \in Nat : v <= b /\ v <= p /\ (v = b \/ v >= p) => v = min(b, p)
    BY DEF min
  <1> QED BY <1>1, <1>2

(* The same of plan, which goes from the first block to the last; P is what *)
(* an executing block ends with, and -1 elsewhere.                         *)
PlanOf(B, R, P, f, i) == IF P[i] # -1 THEN min(B[i], P[i]) ELSE min(B[i], f[i - 1] + R[i - 1])

Plans(n, B, R, P, first, f) == /\ f[0] = first
                               /\ \A i \in 1 .. n : f[i] = PlanOf(B, R, P, f, i)

LEMMA PlanExists ==
    ASSUME NEW n \in Nat, NEW B \in [0 .. n -> Nat], NEW R \in [0 .. n - 1 -> Nat],
           NEW P \in [1 .. n -> Nat \cup {-1}], NEW first \in Nat
    PROVE  \E f \in [0 .. n -> Nat] : Plans(n, B, R, P, first, f)
  <1> DEFINE Upto(f, k) == \A i \in 1 .. n : i <= k => f[i] = PlanOf(B, R, P, f, i)
             Solved(k) == \E f \in [0 .. n -> Nat] : f[0] = first /\ Upto(f, k)
             S == {k \in Nat : k <= n => Solved(k)}
  <1>1. Solved(0)
    <2> DEFINE f == [i \in 0 .. n |-> first]
    <2>1. f \in [0 .. n -> Nat] /\ f[0] = first /\ Upto(f, 0)
      OBVIOUS
    <2> QED BY <2>1
  <1>2. ASSUME NEW k \in Nat, k + 1 <= n, Solved(k)
        PROVE  Solved(k + 1)
    <2>1. PICK f \in [0 .. n -> Nat] : f[0] = first /\ Upto(f, k)
      BY <1>2
    <2> DEFINE u == PlanOf(B, R, P, f, k + 1)
               g == [f EXCEPT ![k + 1] = u]
    <2>2. u \in Nat
      <3>1. k + 1 \in 1 .. n /\ k \in 0 .. n - 1 /\ k + 1 - 1 = k
        BY <1>2
      <3>2. B[k + 1] \in Nat /\ R[k] \in Nat /\ f[k] \in Nat /\ P[k + 1] \in Nat \cup {-1}
        BY <2>1, <3>1
      <3>3. f[k] + R[k] \in Nat
        BY <3>2, Speeds
      <3> QED BY <3>1, <3>2, <3>3 DEF PlanOf, min
    <2> HIDE DEF u
    <2>3. \A i \in 1 .. n : i <= k + 1 => PlanOf(B, R, P, g, i) = PlanOf(B, R, P, f, i)
      <3> SUFFICES ASSUME NEW i \in 1 .. n, i <= k + 1
                   PROVE  PlanOf(B, R, P, g, i) = PlanOf(B, R, P, f, i)
        OBVIOUS
      <3>1. g[i - 1] = f[i - 1]
        BY <1>2, <2>1
      <3> QED BY <3>1 DEF PlanOf
    <2>4. g \in [0 .. n -> Nat] /\ g[0] = first
      BY <1>2, <2>1, <2>2
    <2>5. \A i \in 1 .. n : i <= k + 1 => g[i] = PlanOf(B, R, P, f, i)
      <3>1. \A i \in 1 .. n : i <= k => g[i] = PlanOf(B, R, P, f, i)
        BY <1>2, <2>1
      <3>2. g[k + 1] = PlanOf(B, R, P, f, k + 1)
        BY <1>2, <2>1 DEF u
      <3> QED BY <1>2, <3>1, <3>2
    <2> HIDE DEF g
    <2>6. Upto(g, k + 1)
      BY <2>3, <2>5
    <2> QED BY <2>4, <2>6
  <1>3. Solved(n)
    <2> HIDE DEF Solved
    <2>1. 0 \in S /\ \A k \in Nat : k \in S => k + 1 \in S
      BY <1>1, <1>2
    <2> HIDE DEF S
    <2>2. n \in S
      BY <2>1, Induction
    <2> QED BY <2>2 DEF S
  <1>4. PICK f \in [0 .. n -> Nat] : f[0] = first /\ Upto(f, n)
    BY <1>3
  <1>5. Plans(n, B, R, P, first, f)
    BY <1>4 DEF Plans
  <1> QED BY <1>5

(* No speed of v can be raised alone, for a corner, for the block after, or *)
(* for what the block before can end with: then there are no faster speeds. *)
NoneRaised(n, M, R, P, v) ==
    /\ v[n] = 0
    /\ \A i \in 1 .. n - 1 : /\ R[i] > 0
                             /\ v[i] <= M[i] /\ v[i] <= v[i + 1] + R[i] /\ v[i] <= P[i]
                             /\ v[i] = M[i] \/ v[i] >= v[i + 1] + R[i] \/ v[i] >= P[i]
                             /\ i > 1 => P[i] = v[i - 1] + R[i - 1]

LEMMA NoneFaster ==
    ASSUME NEW n \in Nat, NEW M \in [0 .. n - 1 -> Nat], NEW R \in [0 .. n - 1 -> Nat],
           NEW v \in [0 .. n -> Nat], NEW P \in [1 .. n -> Nat], NEW B \in [0 .. n -> Nat],
           Best(n, M, R, B), NoneRaised(n, M, R, P, v)
    PROVE  \A i \in 1 .. n - 1 : v[i] = min(B[i], P[i])
  <1> DEFINE Fastest(i) == v[i] <= B[i] /\ (i = n \/ v[i] = B[i] \/ v[i] >= P[i])
             S == {k \in Nat : k < n => Fastest(n - k)}
  <1>1. Fastest(n)
    BY DEF Best, NoneRaised
  <1>2. ASSUME NEW k \in Nat, k + 1 < n, Fastest(n - k)
        PROVE  Fastest(n - (k + 1))
    <2> DEFINE i == n - (k + 1)
               j == n - k
    <2>1. i \in 1 .. n - 1 /\ j \in 2 .. n /\ i + 1 = j /\ j - 1 = i
          /\ (j # n => j \in 1 .. n - 1 /\ j > 1)
      BY <1>2
    <2>2. v[j] <= B[j] /\ (j = n \/ v[j] = B[j] \/ v[j] >= P[j])
      BY <1>2
    <2> HIDE DEF i, j
    <2>3. /\ v[i] \in Nat /\ v[j] \in Nat /\ B[i] \in Nat /\ B[j] \in Nat /\ P[i] \in Nat
          /\ M[i] \in Nat /\ R[i] \in Nat
      <3>1. i \in 0 .. n - 1 /\ i \in 0 .. n /\ i \in 1 .. n /\ j \in 0 .. n
        BY <2>1
      <3> QED BY <3>1
    <2>4. B[i] = min(M[i], B[j] + R[i])
      BY <2>1 DEF Best
    <2>5. /\ R[i] > 0 /\ v[i] <= M[i] /\ v[i] <= v[j] + R[i]
          /\ v[i] = M[i] \/ v[i] >= v[j] + R[i] \/ v[i] >= P[i]
      BY <2>1 DEF NoneRaised
    <2>6. j # n => P[j] = v[i] + R[i]
      BY <2>1 DEF NoneRaised
    <2>7. j = n => v[j] = B[j]
      BY DEF NoneRaised, Best
    <2>8. v[j] = B[j] \/ v[j] >= v[i] + R[i]
      BY <2>2, <2>6, <2>7
    <2>9. v[i] <= B[i] /\ (v[i] = B[i] \/ v[i] >= P[i])
      <3>1. ASSUME NEW x \in Nat, NEW w \in Nat, NEW b \in Nat, NEW c \in Nat, NEW p \in Nat,
                   NEW m \in Nat, NEW r \in Nat,
                   x = v[i], w = v[j], b = B[i], c = B[j], p = P[i], m = M[i], r = R[i]
            PROVE  x <= b /\ (x = b \/ x >= p)
        <4>1. b = min(m, c + r) /\ r > 0 /\ x <= m /\ x <= w + r
          BY <2>4, <2>5, <3>1
        <4>2. x = m \/ x >= w + r \/ x >= p
          BY <2>5, <3>1
        <4>3. w <= c /\ (w = c \/ w >= x + r)
          BY <2>2, <2>8, <3>1
        <4> QED BY <4>1, <4>2, <4>3 DEF min
      <3> QED BY <2>3, <3>1
    <2> QED BY <2>9 DEF i
  <1>3. Nat \subseteq S
    <2>1. n - 0 = n
      OBVIOUS
    <2> HIDE DEF Fastest
    <2>2. 0 \in S /\ \A k \in Nat : k \in S => k + 1 \in S
      BY <1>1, <1>2, <2>1
    <2> HIDE DEF S
    <2> QED BY <2>2, Induction
  <1>4. ASSUME NEW i \in 1 .. n - 1
        PROVE  v[i] = min(B[i], P[i])
    <2>1. n - i \in Nat /\ n - i < n /\ n - (n - i) = i /\ i # n
      OBVIOUS
    <2>2. Fastest(i)
      <3> HIDE DEF Fastest
      <3> QED BY <1>3, <2>1
    <2>3. v[i] \in Nat /\ B[i] \in Nat /\ P[i] \in Nat
      OBVIOUS
    <2>4. v[i] <= P[i]
      BY DEF NoneRaised
    <2> QED BY <2>1, <2>2, <2>3, <2>4, Speeds
  <1> QED BY <1>4

LEMMA BestType ==
    ASSUME NEW n \in Nat, NEW M \in [0 .. n - 1 -> Nat], NEW R \in [0 .. n - 1 -> Nat], NEW B,
           Best(n, M, R, B)
    PROVE  \A i \in 0 .. n : B[i] \in Nat
  <1> DEFINE Typed(i) == B[i] \in Nat
             S == {k \in Nat : k <= n => Typed(n - k)}
  <1>1. Typed(n)
    BY DEF Best
  <1>2. ASSUME NEW k \in Nat, k + 1 <= n, Typed(n - k)
        PROVE  Typed(n - (k + 1))
    <2> DEFINE i == n - (k + 1)
    <2>1. i \in 0 .. n - 1 /\ i + 1 = n - k
      BY <1>2
    <2> HIDE DEF i
    <2>2. M[i] \in Nat /\ R[i] \in Nat /\ B[i + 1] \in Nat
      BY <1>2, <2>1
    <2>3. B[i] = min(M[i], B[i + 1] + R[i])
      BY <2>1 DEF Best
    <2>4. B[i + 1] + R[i] \in Nat
      BY <2>2, Speeds
    <2> QED BY <2>2, <2>3, <2>4 DEF min, i
  <1>3. Nat \subseteq S
    <2>1. n - 0 = n
      OBVIOUS
    <2> HIDE DEF Typed
    <2>2. 0 \in S /\ \A k \in Nat : k \in S => k + 1 \in S
      BY <1>1, <1>2, <2>1
    <2> HIDE DEF S
    <2> QED BY <2>2, Induction
  <1>4. ASSUME NEW i \in 0 .. n
        PROVE  Typed(i)
    <2> HIDE DEF Typed
    <2>1. n - i \in Nat /\ n - i <= n /\ n - (n - i) = i
      OBVIOUS
    <2> QED BY <1>3, <2>1
  <1> QED BY <1>4

(* What plan is, where none of the speeds v can be raised: Q is what the    *)
(* block before can end with.                                              *)
Paced(n, B, R, P, Q, v) ==
    \A i \in 1 .. n - 1 : /\ v[i] = min(B[i], Q[i])
                          /\ Q[i] = IF P[i] # -1 THEN P[i] ELSE v[i - 1] + R[i - 1]

LEMMA PlanIs ==
    ASSUME NEW n \in Nat, NEW B, NEW R, NEW P, NEW Q, NEW v, NEW f, NEW first,
           first = v[0], Plans(n, B, R, P, first, f), Paced(n, B, R, P, Q, v)
    PROVE  \A i \in 1 .. n - 1 : v[i] = f[i]
  <1> DEFINE Same(i) == f[i] = v[i]
             S == {k \in Nat : k < n => Same(k)}
  <1>1. Same(0)
    BY DEF Plans
  <1>2. ASSUME NEW k \in Nat, k + 1 < n, Same(k)
        PROVE  Same(k + 1)
    <2> DEFINE j == k + 1
    <2>1. j \in 1 .. n /\ j \in 1 .. n - 1 /\ j - 1 = k
      BY <1>2
    <2> HIDE DEF j
    <2>2. f[j] = IF P[j] # -1 THEN min(B[j], P[j]) ELSE min(B[j], f[j - 1] + R[j - 1])
      BY <2>1 DEF Plans, PlanOf
    <2>3. /\ v[j] = min(B[j], Q[j])
          /\ Q[j] = IF P[j] # -1 THEN P[j] ELSE v[j - 1] + R[j - 1]
      BY <2>1 DEF Paced
    <2>4. f[j] = v[j]
      BY <1>2, <2>1, <2>2, <2>3
    <2> QED BY <2>4 DEF j
  <1>3. Nat \subseteq S
    <2> HIDE DEF Same
    <2>1. 0 \in S /\ \A k \in Nat : k \in S => k + 1 \in S
      BY <1>1, <1>2
    <2> HIDE DEF S
    <2> QED BY <2>1, Induction
  <1>4. ASSUME NEW i \in 1 .. n - 1
        PROVE  Same(i)
    <2> HIDE DEF Same
    <2>1. i \in Nat /\ i < n
      OBVIOUS
    <2> QED BY <1>3, <2>1
  <1> QED BY <1>4

(* The queue from its tail on: the corners, reaches and speeds of its       *)
(* blocks, what an executing one ends with, and what each is left with.     *)
QueueCorners == [i \in 0 .. Count - 1 |-> Queued(i).max_entry]
QueueReaches == [i \in 0 .. Count - 1 |-> Queued(i).reach]
QueueSpeeds == [i \in 0 .. Count |-> IF i = Count THEN 0 ELSE Queued(i).initial]
QueueEnds == [i \in 1 .. Count |-> IF i = 1 /\ ticking THEN Queued(0).exit ELSE -1]
QueuePaces == [i \in 1 .. Count |-> IF QueueEnds[i] # -1 THEN QueueEnds[i]
                                    ELSE QueueSpeeds[i - 1] + QueueReaches[i - 1]]

LEMMA QueueTypes ==
    ASSUME TypeOK
    PROVE  /\ Count \in Nat
           /\ \A i \in 0 .. Count - 1 : Queued(i) \in Block
           /\ QueueCorners \in [0 .. Count - 1 -> Nat] /\ QueueReaches \in [0 .. Count - 1 -> Nat]
           /\ QueueSpeeds \in [0 .. Count -> Nat]
           /\ QueueEnds \in [1 .. Count -> Nat \cup {-1}]
           /\ QueuePaces \in [1 .. Count -> Nat]
  <1>1. Count \in Nat
    BY SizeAssumption DEF Count, TypeOK, Slots
  <1>2. ASSUME NEW i \in 0 .. Count - 1
        PROVE  Queued(i) \in Block
    <2>1. (m_rIndex + i) % Size \in Slots
      BY QueuedSlots DEF TypeOK
    <2> QED BY <2>1 DEF TypeOK, Queued
  <1>3. ASSUME NEW i \in 0 .. Count - 1
        PROVE  /\ Queued(i).max_entry \in Nat /\ Queued(i).reach \in Nat
               /\ Queued(i).initial \in Nat /\ Queued(i).exit \in Nat
    BY <1>2 DEF Block
  <1>4. QueueCorners \in [0 .. Count - 1 -> Nat] /\ QueueReaches \in [0 .. Count - 1 -> Nat]
    BY <1>3 DEF QueueCorners, QueueReaches
  <1>5. QueueSpeeds \in [0 .. Count -> Nat]
    <2>1. \A i \in 0 .. Count : i # Count => i \in 0 .. Count - 1
      BY <1>1
    <2> QED BY <1>3, <2>1 DEF QueueSpeeds
  <1>6. QueueEnds \in [1 .. Count -> Nat \cup {-1}]
    <2>1. \A i \in 1 .. Count : 0 \in 0 .. Count - 1
      BY <1>1
    <2> QED BY <1>3, <2>1 DEF QueueEnds
  <1>7. QueuePaces \in [1 .. Count -> Nat]
    <2> SUFFICES ASSUME NEW i \in 1 .. Count
                 PROVE  (IF QueueEnds[i] # -1 THEN QueueEnds[i]
                         ELSE QueueSpeeds[i - 1] + QueueReaches[i - 1]) \in Nat
      BY DEF QueuePaces
    <2>1. i - 1 \in 0 .. Count /\ i - 1 \in 0 .. Count - 1
      BY <1>1
    <2>2. QueueSpeeds[i - 1] \in Nat /\ QueueReaches[i - 1] \in Nat
      BY <1>4, <1>5, <2>1
    <2>3. QueueSpeeds[i - 1] + QueueReaches[i - 1] \in Nat
      BY <2>2, Speeds
    <2>4. QueueEnds[i] \in Nat \cup {-1}
      BY <1>6
    <2> QED BY <2>3, <2>4
  <1> QED BY <1>1, <1>2, <1>4, <1>5, <1>6, <1>7

LEMMA QueueIsFast ==
    ASSUME minimum_planner_speed = 0, TypeOK, TickingInv, FeasibleInv, JoinInv, FastInv,
           pc = "idle"
    PROVE  NoneRaised(Count, QueueCorners, QueueReaches, QueuePaces, QueueSpeeds)
  <1>0. /\ blocks \in [Slots -> Block] /\ m_rIndex \in Slots /\ m_wIndex \in Slots
        /\ Count \in Nat
    BY QueueTypes DEF TypeOK
  <1>1. QueueSpeeds[Count] = 0
    BY <1>0 DEF QueueSpeeds
  <1>2. ASSUME NEW i \in 1 .. Count - 1
        PROVE  /\ QueueReaches[i] > 0
               /\ QueueSpeeds[i] <= QueueCorners[i]
               /\ QueueSpeeds[i] <= QueueSpeeds[i + 1] + QueueReaches[i]
               /\ QueueSpeeds[i] <= QueuePaces[i]
               /\ \/ QueueSpeeds[i] = QueueCorners[i]
                  \/ QueueSpeeds[i] >= QueueSpeeds[i + 1] + QueueReaches[i]
                  \/ QueueSpeeds[i] >= QueuePaces[i]
               /\ i > 1 => QueuePaces[i] = QueueSpeeds[i - 1] + QueueReaches[i - 1]
    <2> DEFINE s == (m_rIndex + i) % Size
               t == (m_rIndex + (i - 1)) % Size
               b == blocks[s]
               a == blocks[t]
    <2>1. i \in 0 .. Count - 1 /\ i - 1 \in 0 .. Count - 1 /\ i \in 1 .. Count /\ i # Count
          /\ i \in 0 .. Count /\ i - 1 \in 0 .. Count /\ i + 1 \in 0 .. Count /\ i - 1 # Count
      BY <1>0
    <2>2. /\ s \in Slots /\ InQueue(s) /\ Behind(s) = Count - i
          /\ t \in Slots /\ InQueue(t) /\ Behind(t) = Count - (i - 1)
      BY <1>0, <2>1, QueuedSlots
    <2>3. i = 1 => t = m_rIndex
      BY <1>0, SizeAssumption DEF Slots
    <2>4. Queued(i) = b /\ Queued(i - 1) = a /\ a \in Block /\ b \in Block
      BY <1>0, <2>2 DEF Queued
    <2>5. i + 1 # Count => Queued(i + 1) = blocks[next(s)]
      <3>1. CASE i + 1 # Count
        <4> DEFINE r == (m_rIndex + (i + 1)) % Size
        <4>1. i + 1 \in 0 .. Count - 1
          BY <1>0, <3>1
        <4>2. r \in Slots /\ Behind(r) = Count - (i + 1)
          BY <1>0, <4>1, QueuedSlots
        <4>3. s # m_wIndex
          BY <1>0, <2>2, Distances
        <4>4. next(s) \in Slots /\ Behind(next(s)) = Count - (i + 1)
          BY <1>0, <2>2, <4>3, Distances, SlotsType
        <4>5. next(s) = r
          <5> HIDE DEF r, s
          <5> QED BY <1>0, <4>2, <4>4, OnePlace
        <4> QED BY <4>5 DEF Queued
      <3> QED BY <3>1
    <2>6. i + 1 = Count <=> next(s) = m_wIndex
      <3> HIDE DEF s
      <3>1. i + 1 = Count <=> Count - i = 1
        BY <1>0
      <3> QED BY <1>0, <2>2, <3>1, Distances
    <2>7. s # m_rIndex /\ prev(s) = t
      <3> HIDE DEF s, t
      <3>1. Behind(s) < Behind(m_rIndex)
        <4>1. Behind(m_rIndex) \in Nat
          BY <1>0, Distances, SizeAssumption
        <4> QED BY <1>0, <2>2, <4>1 DEF InQueue
      <3>2. s # m_rIndex
        <4>1. Behind(s) \in Nat
          BY <1>0, <2>2, Distances, SizeAssumption
        <4> QED BY <3>1, <4>1
      <3>3. prev(s) \in Slots /\ Behind(prev(s)) = Behind(s) + 1
        BY <1>0, <2>2, <3>2, BlockBefore
      <3>4. Behind(prev(s)) = Behind(t)
        BY <1>0, <2>2, <3>3
      <3> QED BY <1>0, <2>2, <3>2, <3>3, <3>4, OnePlace
    <2> HIDE DEF s, t, a, b
    <2>8. /\ QueueReaches[i] = b.reach /\ QueueCorners[i] = b.max_entry
          /\ QueueSpeeds[i] = b.initial
          /\ QueueSpeeds[i - 1] = a.initial /\ QueueReaches[i - 1] = a.reach
          /\ QueueSpeeds[i + 1] = IF next(s) = m_wIndex THEN 0 ELSE blocks[next(s)].initial
      <3>1. /\ QueueReaches[i] = b.reach /\ QueueCorners[i] = b.max_entry
            /\ QueueReaches[i - 1] = a.reach
        BY <2>1, <2>4 DEF QueueReaches, QueueCorners
      <3>2. QueueSpeeds[i] = b.initial /\ QueueSpeeds[i - 1] = a.initial
        BY <2>1, <2>4 DEF QueueSpeeds
      <3>3. QueueSpeeds[i + 1] = IF next(s) = m_wIndex THEN 0 ELSE blocks[next(s)].initial
        BY <2>1, <2>5, <2>6 DEF QueueSpeeds
      <3> QED BY <3>1, <3>2, <3>3
    <2>9. QueuePaces[i] = IF a.is_ticking THEN a.exit ELSE a.initial + a.reach
      <3>1. a.is_ticking <=> i = 1 /\ ticking
        <4>1. a.is_ticking => t = m_rIndex
          BY <2>2 DEF JoinInv, OnlyTailTicks, a
        <4>2. t = m_rIndex => i = 1
          <5>1. CASE i # 1
            <6>1. 0 \in 0 .. Count - 1 /\ (m_rIndex + 0) % Size = m_rIndex
              BY <1>0, SizeAssumption DEF Slots
            <6>2. Behind(m_rIndex) = Count - 0
              BY <1>0, <6>1, QueuedSlots
            <6> QED BY <1>0, <2>2, <5>1, <6>2
          <5> QED BY <5>1
        <4>3. a.is_ticking => ticking
          BY <2>2 DEF FastInv, NoneTicks, a
        <4>4. i = 1 /\ ticking => a.is_ticking
          BY <2>3 DEF TickingInv, a
        <4> QED BY <4>1, <4>2, <4>3, <4>4
      <3>2. QueueEnds[i] = IF a.is_ticking THEN a.exit ELSE -1
        <4>1. i = 1 => Queued(0) = a
          BY <2>4
        <4> QED BY <2>1, <3>1, <4>1 DEF QueueEnds
      <3>3. a.exit # -1
        BY <2>4 DEF Block
      <3> QED BY <2>1, <2>8, <3>2, <3>3 DEF QueuePaces
    <2>10. i > 1 => ~a.is_ticking
      <3>1. CASE a.is_ticking
        <4>1. t = m_rIndex
          BY <2>2, <3>1 DEF JoinInv, OnlyTailTicks, a
        <4>2. 0 \in 0 .. Count - 1 /\ (m_rIndex + 0) % Size = m_rIndex
          BY <1>0, SizeAssumption DEF Slots
        <4>3. Behind(m_rIndex) = Count - 0
          BY <1>0, <4>2, QueuedSlots
        <4> QED BY <1>0, <2>2, <4>1, <4>3
      <3> QED BY <3>1
    <2>11. ~b.is_ticking /\ b.entry = b.initial
      BY <2>2, <2>7 DEF JoinInv, OnlyTailTicks, Raised, b
    <2>12. ~a.is_ticking => a.entry = a.initial
      BY <2>2 DEF JoinInv, Raised, a
    <2>13. /\ b.exit = QueueSpeeds[i + 1]
           /\ a.exit = b.initial
      <3>1. b.exit = Begins(next(s)) /\ a.exit = Begins(next(t))
        BY <2>2 DEF JoinInv, JoinedAfter, Returning, a, b
      <3>2. next(t) = s /\ s # m_wIndex
        <4>1. next(prev(s)) = s
          BY <2>2, Neighbours
        <4>2. Behind(m_wIndex) = 0 /\ Behind(s) # 0
          BY <1>0, <2>2, Distances
        <4> QED BY <2>7, <4>1, <4>2
      <3> QED BY <2>8, <3>1, <3>2 DEF Begins, b
    <2>14. /\ b.exit <= b.initial + b.reach /\ b.initial <= b.exit + b.reach
           /\ b.initial <= b.max_entry
           /\ a.exit <= a.initial + a.reach
      BY <2>2 DEF FeasibleInv, QueueFits, Drives, a, b
    <2>15. b.reach > 0
      BY <2>2 DEF FastInv, Reaches, InPlan, b
    <2>16. \/ b.entry = b.max_entry
           \/ b.entry >= QueueSpeeds[i + 1] + b.reach
           \/ b.entry >= QueuePaces[i]
      <3>1. CASE b.recalculate
        <4>1. b.entry = b.max_entry \/ b.entry >= Following(s) + b.reach
          BY <2>2, <2>7, <3>1 DEF FastInv, AsFast, InPlan, b
        <4>2. Following(s) = QueueSpeeds[i + 1]
          <5>1. s # m_wIndex
            <6>1. Behind(m_wIndex) = 0 /\ Behind(s) # 0
              BY <1>0, <2>2, Distances
            <6> QED BY <6>1
          <5>2. CASE next(s) = m_wIndex
            BY <2>8, <5>1, <5>2 DEF Following, Unjoined
          <5>3. CASE next(s) # m_wIndex
            <6>1. next(s) \in Slots
              BY <2>2, SlotsType
            <6>2. InQueue(next(s)) /\ next(s) # m_rIndex
              <7>1. Behind(next(s)) = Behind(s) - 1 /\ Behind(next(s)) \in Nat
                    /\ Behind(next(s)) # 0 /\ Behind(m_rIndex) \in Nat
                BY <1>0, <2>2, <5>1, <5>3, <6>1, Distances, SizeAssumption
              <7> QED BY <1>0, <2>2, <7>1 DEF InQueue
            <6>3. blocks[next(s)].entry = blocks[next(s)].initial
              BY <6>1, <6>2 DEF JoinInv, OnlyTailTicks, Raised
            <6> QED BY <2>8, <5>1, <5>3, <6>3 DEF Following
          <5> QED BY <5>2, <5>3
        <4> QED BY <4>1, <4>2
      <3>2. CASE ~b.recalculate
        <4>1. b.entry = b.max_entry \/ b.entry >= Pace(t)
          BY <2>2, <2>7, <3>2 DEF FastInv, Limited, InPlan, b
        <4>2. Pace(t) = QueuePaces[i]
          BY <2>9, <2>12 DEF Pace, a
        <4> QED BY <4>1, <4>2
      <3> QED BY <3>1, <3>2
    <2>17. QueueSpeeds[i] <= QueuePaces[i]
      <3>1. CASE a.is_ticking
        <4>1. b.initial \in Nat
          BY <2>4 DEF Block
        <4> QED BY <2>8, <2>9, <2>13, <3>1, <4>1
      <3>2. CASE ~a.is_ticking
        BY <2>8, <2>9, <2>13, <2>14, <3>2
      <3> QED BY <3>1, <3>2
    <2>18. i > 1 => QueuePaces[i] = QueueSpeeds[i - 1] + QueueReaches[i - 1]
      BY <2>8, <2>9, <2>10
    <2> QED BY <2>8, <2>11, <2>13, <2>14, <2>15, <2>16, <2>17, <2>18
  <1> QED BY <1>1, <1>2 DEF NoneRaised

LEMMA FastSuffices ==
    ASSUME minimum_planner_speed = 0, TypeOK, TickingInv, FeasibleInv, JoinInv, FastInv
    PROVE  PlanIsOptimal
  <1> DEFINE n == Count
             BestIs(f) == f = [i \in 0 .. n |->
                                 IF i = n THEN minimum_planner_speed
                                 ELSE min(Queued(i).max_entry, f[i + 1] + Queued(i).reach)]
             best == CHOOSE f : BestIs(f)
             PlanIs1(f) == f = [i \in 0 .. n |->
                                 IF i = 0 THEN Queued(0).initial
                                 ELSE IF i = 1 /\ ticking THEN min(best[1], Queued(0).exit)
                                 ELSE min(best[i], f[i - 1] + Queued(i - 1).reach)]
             plan == CHOOSE f : PlanIs1(f)
  <1> SUFFICES ASSUME pc = "idle", n > 0
               PROVE  \A i \in 1 .. n - 1 : Queued(i).initial = plan[i]
    BY DEF PlanIsOptimal, Planned
  <1>1. /\ n \in Nat
        /\ QueueCorners \in [0 .. n - 1 -> Nat] /\ QueueReaches \in [0 .. n - 1 -> Nat]
        /\ QueueSpeeds \in [0 .. n -> Nat] /\ QueueEnds \in [1 .. n -> Nat \cup {-1}]
        /\ QueuePaces \in [1 .. n -> Nat]
    BY QueueTypes
  <1>2. \A i \in 0 .. n - 1 : Queued(i).max_entry = QueueCorners[i]
                               /\ Queued(i).reach = QueueReaches[i]
    BY DEF QueueCorners, QueueReaches
  <1>3. BestIs(best)
    <2>1. PICK f \in [0 .. n -> Nat] : Best(n, QueueCorners, QueueReaches, f)
      BY <1>1, BestExists
    <2>2. \A i \in 0 .. n : f[i] = IF i = n THEN minimum_planner_speed
                                   ELSE min(Queued(i).max_entry, f[i + 1] + Queued(i).reach)
      <3>1. \A i \in 0 .. n : i # n => i \in 0 .. n - 1
        BY <1>1
      <3> QED BY <1>2, <2>1, <3>1 DEF Best
    <2>3. BestIs(f)
      BY <2>1, <2>2
    <2> HIDE DEF BestIs
    <2> QED BY <2>3, Zenon
  <1> HIDE DEF best
  <1>4. Best(n, QueueCorners, QueueReaches, best)
    <2> DEFINE Value(i) == IF i = n THEN minimum_planner_speed
                           ELSE min(Queued(i).max_entry, best[i + 1] + Queued(i).reach)
    <2>1. \A i \in 0 .. n - 1 : i \in 0 .. n /\ i # n
      BY <1>1
    <2>2. \A i \in 0 .. n : best[i] = Value(i)
      <3> HIDE DEF n
      <3>1. best = [i \in 0 .. n |-> Value(i)]
        BY <1>3
      <3> HIDE DEF Value
      <3> QED BY <3>1
    <2>3. best[n] = 0
      BY <1>1, <2>2
    <2>4. \A i \in 0 .. n - 1 : best[i] = min(QueueCorners[i], best[i + 1] + QueueReaches[i])
      BY <1>2, <2>1, <2>2
    <2> QED BY <2>3, <2>4 DEF Best
  <1>5. best \in [0 .. n -> Nat]
    <2>1. \A i \in 0 .. n : best[i] \in Nat
      BY <1>1, <1>4, BestType
    <2> HIDE DEF n
    <2> QED BY <1>3, <2>1
  <1>6. \A i \in 1 .. n - 1 : QueueSpeeds[i] = min(best[i], QueuePaces[i])
    BY <1>1, <1>4, <1>5, QueueIsFast, NoneFaster
  <1>7. Paced(n, best, QueueReaches, QueueEnds, QueuePaces, QueueSpeeds)
    <2>1. \A i \in 1 .. n - 1 : i \in 1 .. n
      BY <1>1
    <2> QED BY <1>6, <2>1 DEF Paced, QueuePaces
  <1> DEFINE Plan(f, i) == IF i = 0 THEN Queued(0).initial
                          ELSE IF i = 1 /\ ticking THEN min(best[1], Queued(0).exit)
                          ELSE min(best[i], f[i - 1] + Queued(i - 1).reach)
  <1>8. /\ QueueSpeeds[0] = Queued(0).initial
        /\ \A f : \A i \in 1 .. n :
              Plan(f, i) = PlanOf(best, QueueReaches, QueueEnds, f, i)
    <2>1. QueueSpeeds[0] = Queued(0).initial
      BY <1>1 DEF QueueSpeeds
    <2>2. ASSUME NEW f, NEW i \in 1 .. n
          PROVE  Plan(f, i) = PlanOf(best, QueueReaches, QueueEnds, f, i)
      <3>1. QueueEnds[i] = IF i = 1 /\ ticking THEN Queued(0).exit ELSE -1
        BY DEF QueueEnds
      <3>2. Queued(i - 1).reach = QueueReaches[i - 1] /\ i # 0
        <4>1. i - 1 \in 0 .. n - 1 /\ i # 0
          BY <1>1
        <4> QED BY <1>2, <4>1
      <3>3. Queued(0).exit # -1
        <4>1. 0 \in 0 .. n - 1
          BY <1>1
        <4>2. Queued(0).exit \in Nat
          BY <4>1, QueueTypes DEF Block
        <4> QED BY <4>2
      <3> QED BY <3>1, <3>2, <3>3 DEF PlanOf
    <2> QED BY <2>1, <2>2
  <1>9. PlanIs1(plan)
    <2>1. QueueSpeeds[0] \in Nat
      BY <1>1
    <2>2. PICK f \in [0 .. n -> Nat] :
              Plans(n, best, QueueReaches, QueueEnds, QueueSpeeds[0], f)
      BY <1>1, <1>5, <2>1, PlanExists
    <2>3. \A i \in 0 .. n : f[i] = Plan(f, i)
      <3>1. \A i \in 0 .. n : i # 0 => i \in 1 .. n
        BY <1>1
      <3>2. f[0] = Plan(f, 0)
        BY <1>8, <2>2 DEF Plans
      <3>3. \A i \in 1 .. n : f[i] = Plan(f, i)
        <4> HIDE DEF Plan
        <4> QED BY <1>8, <2>2 DEF Plans
      <3> HIDE DEF Plan
      <3> QED BY <3>1, <3>2, <3>3
    <2>4. PlanIs1(f)
      BY <2>2, <2>3
    <2> HIDE DEF PlanIs1
    <2> QED BY <2>4, Zenon
  <1> HIDE DEF plan
  <1>10. Plans(n, best, QueueReaches, QueueEnds, QueueSpeeds[0], plan)
    <2>1. plan = [i \in 0 .. n |-> Plan(plan, i)]
      BY <1>9
    <2>2. Plan(plan, 0) = QueueSpeeds[0] /\ 0 \in 0 .. n
      BY <1>1, <1>8
    <2>3. \A i \in 1 .. n : i \in 0 .. n
      BY <1>1
    <2> HIDE DEF Plan
    <2>4. \A i \in 0 .. n : plan[i] = Plan(plan, i)
      BY <2>1
    <2> QED BY <1>8, <2>2, <2>3, <2>4 DEF Plans
  <1>11. \A i \in 1 .. n - 1 : QueueSpeeds[i] = plan[i]
    <2> DEFINE first == QueueSpeeds[0]
    <2>1. n \in Nat /\ first = QueueSpeeds[0]
          /\ Plans(n, best, QueueReaches, QueueEnds, first, plan)
      BY <1>1, <1>10
    <2> HIDE DEF n, first
    <2> QED BY <1>7, <2>1, PlanIs
  <1>12. \A i \in 1 .. n - 1 : QueueSpeeds[i] = Queued(i).initial
    <2>1. \A i \in 1 .. n - 1 : i \in 0 .. n /\ i # n
      BY <1>1
    <2> QED BY <2>1 DEF QueueSpeeds
  <1> QED BY <1>11, <1>12

(* With an interrupt that comes between two calls of append_block only, the *)
(* short cuts of the two walks lose nothing, for any ring and any moves,    *)
(* when no minimum speed is configured: the walk towards the tail may stop  *)
(* at the first block whose recalculate flag is lost, and the walk back     *)
(* start there, and still every queued block is entered as fast as a plan   *)
(* of the whole queue allows.                                              *)
THEOREM PlanIsTheFastest ==
    ASSUME minimum_planner_speed = 0
    PROVE  QuietSpec => []PlanIsOptimal
  <1>1. [QuietNext]_vars => [Next]_vars
    BY DEF QuietNext, Next
  <1>2. TypeOK /\ FeasibleInv /\ [Next]_vars => FeasibleInv'
    BY FeasibleNext
  <1>3. TypeOK /\ FeasibleInv /\ JoinInv /\ [QuietNext]_vars => JoinInv'
    BY JoinNext
  <1>4. TypeOK /\ FeasibleInv /\ JoinInv /\ FastInv /\ [QuietNext]_vars => FastInv'
    BY FastNext
  <1>5. Init => TickingInv
    BY DEF Init, TickingInv
  <1>6. TypeOK /\ TickingInv /\ FeasibleInv /\ JoinInv /\ FastInv => PlanIsOptimal
    BY FastSuffices
  <1> QED BY InitType, NextType, TickingNext, FeasibleInit, JoinInit, FastInit, <1>1, <1>2, <1>3,
             <1>4, <1>5, <1>6, PTL DEF QuietSpec, QuietNext
=============================================================================
