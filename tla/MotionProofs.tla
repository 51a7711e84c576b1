---------------------------- MODULE MotionProofs ----------------------------
(***************************************************************************)
(* Motion, proved for any motors, moves, length of the queue and number of *)
(* halts: the types and that no block without steps is queued, whatever is *)
(* halted and whoever does it; that the queue is the FIFO of BlockFifo;    *)
(* that the halt flags agree and the motors stop after a halt, if no two   *)
(* threads broadcast one at the same time and the flags of the conveyor    *)
(* are written in one piece; that an empty queue means that nothing moves, *)
(* until the first halt; that a halt by a command leaves the robot where   *)
(* it believes it is; and that without a halt no step is lost, which adds  *)
(* up what the blocks of the queue owe.                                    *)
(***************************************************************************)
EXTENDS Motion, SequenceTheorems, WellFoundedInduction, TLAPS

Blocks == [steps : [Motors -> Int], left : [Motors -> Nat]]

Places == {"idle", "wait", "wait_motors", "line", "milestone", "update", "recalculate",
           "queue", "stalled", "moved", "flush_wait", "reset"}

Flags == {NotHeld} \cup (BOOLEAN \X BOOLEAN \X BOOLEAN)

-----------------------------------------------------------------------------
(* The invariant.                                                          *)

QueueTypes == /\ queue \in Seq(Blocks)
              /\ Len(queue) <= Capacity

FlagTypes == /\ allow_fetch \in BOOLEAN
             /\ flush \in BOOLEAN
             /\ conveyor_halted \in BOOLEAN
             /\ held \in [Threads -> Flags]

TickTypes == /\ running \in BOOLEAN
             /\ moving \in [Motors -> BOOLEAN]
             /\ position \in [Motors -> Int]

ThreadTypes == /\ pc \in Places
               /\ homing \in BOOLEAN
               /\ target \in [Motors -> Int]
               /\ moved \in BOOLEAN
               /\ path \in Seq([Motors -> Int])
               /\ planned \in [Motors -> Int]
               /\ last_milestone \in [Motors -> Int]
               /\ machine_position \in [Motors -> Int]
               /\ compensated_machine_position \in [Motors -> Int]

HaltTypes == /\ module_halted \in BOOLEAN
             /\ robot_halted \in BOOLEAN
             /\ halting \in [Halters -> {"off", "conveyor", "robot", "resync"}]
             /\ flg \in [Halters -> BOOLEAN]

(* While a segment is being planned it is still on the path, and what is   *)
(* about to be queued has steps; what is being ticked is still queued.     *)
SegmentLeft == pc \in {"milestone", "update", "recalculate", "queue", "stalled", "moved"}
                   => path # <<>>

StepsPlanned == pc \in {"recalculate", "queue", "stalled"} => planned # AtRest

RunningIsQueued == running => queue # <<>>

Inv == /\ QueueTypes /\ FlagTypes /\ TickTypes /\ ThreadTypes /\ HaltTypes
       /\ SegmentLeft /\ StepsPlanned /\ RunningIsQueued /\ BlocksHaveSteps

-----------------------------------------------------------------------------
(* Positions and blocks.                                                   *)

LEMMA RoundType == \A n \in Int : Round(n) \in Int
BY DEF Round

LEMMA BlockOfSteps ==
    ASSUME NEW s \in [Motors -> Int]
    PROVE  /\ Block(s) \in Blocks
           /\ s # AtRest => Active(Block(s)) # {}
<1>1. Block(s) \in Blocks
  BY DEF Block, Blocks
<1>2. ASSUME s # AtRest PROVE Active(Block(s)) # {}
  <2>1. PICK m \in Motors : s[m] # 0
    BY <1>2 DEF AtRest
  <2>2. Block(s).left[m] # 0
    BY <2>1 DEF Block
  <2> QED BY <2>2 DEF Active
<1> QED BY <1>1, <1>2

(* A step of the interrupt between two blocks leaves the queue q as it is  *)
(* or empties it: it would drop a block without steps, but there is none.  *)
LEMMA NextBlock ==
    ASSUME NEW q \in Seq(Blocks), \A i \in DOMAIN q : Active(q[i]) # {},
           NEW mov \in [Motors -> BOOLEAN], NEW locked,
           flush \in BOOLEAN, module_halted \in BOOLEAN,
           get_next_block(q, mov, locked)
    PROVE  /\ queue' = q \/ queue' = <<>>
           /\ flush' \in BOOLEAN
           /\ running' \in BOOLEAN
           /\ moving' \in [Motors -> BOOLEAN]
           /\ running' => queue' = q /\ q # <<>>
<1>1. CASE FlushAll /\ running' = FALSE /\ moving' = mov
  BY <1>1 DEF FlushAll
<1>2. CASE NoBlock(q, locked) /\ running' = FALSE /\ moving' = mov
  BY <1>2 DEF NoBlock
<1>3. CASE StartBlock(q, mov)
  <2>1. q # <<>>
    BY <1>3 DEF StartBlock, HasBlock
  <2>2. Active(Head(q)) # {}
    BY <2>1, HeadTailProperties
  <2> QED BY <1>3, <2>1, <2>2 DEF StartBlock
<1> QED BY <1>1, <1>2, <1>3 DEF get_next_block

-----------------------------------------------------------------------------
LEMMA InitInv == Init => Inv
<1> SUFFICES ASSUME Init PROVE Inv
  OBVIOUS
<1>1. QueueTypes /\ BlocksHaveSteps
  BY CapacityAssumption DEF Init, QueueTypes, BlocksHaveSteps
<1>2. FlagTypes
  BY DEF Init, FlagTypes, Flags
<1>3. TickTypes /\ ThreadTypes /\ HaltTypes
  <2>1. Stopped \in [Motors -> BOOLEAN] /\ AtRest \in [Motors -> Int]
    BY DEF Stopped, AtRest
  <2>2. ThreadTypes
    <3>1. pc \in Places /\ homing \in BOOLEAN /\ moved \in BOOLEAN
      BY DEF Init, Places
    <3>2. path \in Seq([Motors -> Int])
      BY DEF Init
    <3> QED BY <2>1, <3>1, <3>2 DEF Init, ThreadTypes
  <2>3. TickTypes
    BY <2>1 DEF Init, TickTypes
  <2>4. HaltTypes
    <3>1. halting = [h \in Halters |-> "off"] /\ flg = [h \in Halters |-> FALSE]
      BY DEF Init
    <3> QED BY <3>1 DEF Init, HaltTypes
  <2> QED BY <2>2, <2>3, <2>4
<1>4. SegmentLeft /\ StepsPlanned /\ RunningIsQueued
  BY DEF Init, SegmentLeft, StepsPlanned, RunningIsQueued
<1> QED BY <1>1, <1>2, <1>3, <1>4 DEF Inv

(* A thread writes the flags of the conveyor.                              *)
LEMMA FlagsWritten ==
    ASSUME FlagTypes, NEW t \in Threads, NEW a \in BOOLEAN, NEW f \in BOOLEAN,
           NEW h \in BOOLEAN, WriteFlags(t, a, f, h)
    PROVE  FlagTypes'
<1>1. CASE AtomicFlags
  BY <1>1 DEF WriteFlags, FlagTypes
<1>2. CASE ~AtomicFlags
  <2>1. <<a, f, h>> \in Flags
    BY DEF Flags
  <2> QED BY <1>2, <2>1 DEF WriteFlags, FlagTypes, conveyorVars
<1> QED BY <1>1, <1>2

LEMMA QueueChecked ==
    ASSUME FlagTypes, NEW force, NEW waited, check_queue(force, waited)
    PROVE  FlagTypes'
<1>1. "command" \in Threads
  BY DEF Threads
<1>2. CASE WriteFlags("command", FALSE, flush, conveyor_halted)
  BY <1>1, <1>2, FlagsWritten DEF FlagTypes
<1>3. CASE WriteFlags("command", TRUE, flush, conveyor_halted)
  BY <1>1, <1>3, FlagsWritten DEF FlagTypes
<1>4. CASE UNCHANGED <<conveyorVars, held>>
  BY <1>4 DEF FlagTypes, conveyorVars
<1> QED BY <1>2, <1>3, <1>4 DEF check_queue

-----------------------------------------------------------------------------
(* The command thread.                                                     *)

(* An action that touches neither the queue, nor the motors, nor the halt. *)
LEMMA CommandOnly ==
    ASSUME Inv, UNCHANGED <<queue, module_halted, running, moving, position, haltVars>>,
           FlagTypes', ThreadTypes', SegmentLeft', StepsPlanned'
    PROVE  Inv'
BY DEF Inv, haltVars, QueueTypes, TickTypes, HaltTypes, RunningIsQueued, BlocksHaveSteps, Active

(* An action that leaves the flags alone, too.                             *)
LEMMA ThreadOnly ==
    ASSUME Inv, UNCHANGED <<tickerVars, haltVars, held>>,
           ThreadTypes', SegmentLeft', StepsPlanned'
    PROVE  Inv'
<1>1. FlagTypes'
  BY DEF Inv, tickerVars, FlagTypes
<1> QED BY <1>1, CommandOnly DEF tickerVars

LEMMA ConveyorInv ==
    ASSUME Inv, CommandLoop \/ WaitQueue \/ StallRetried \/ FlushQueue \/ FlushWait \/ Flushed
    PROVE  Inv'
<1> USE DEF Inv
<1>1. CASE CommandLoop
  <2>1. FlagTypes'
    BY <1>1, QueueChecked DEF CommandLoop
  <2>2. ThreadTypes' /\ SegmentLeft' /\ StepsPlanned'
    BY <1>1 DEF CommandLoop, threadVars, lineVars, positions, ThreadTypes, SegmentLeft, StepsPlanned
  <2> QED BY <1>1, <2>1, <2>2, CommandOnly DEF CommandLoop
<1>2. CASE WaitQueue
  <2>1. FlagTypes'
    BY <1>2, QueueChecked DEF WaitQueue, FlagTypes, conveyorVars
  <2>2. ThreadTypes' /\ SegmentLeft' /\ StepsPlanned'
    BY <1>2 DEF WaitQueue, lineVars, positions, ThreadTypes, SegmentLeft, StepsPlanned, Places
  <2> QED BY <1>2, <2>1, <2>2, CommandOnly DEF WaitQueue
<1>3. CASE StallRetried
  <2>1. FlagTypes'
    BY <1>3, QueueChecked DEF StallRetried
  <2>2. ThreadTypes' /\ SegmentLeft' /\ StepsPlanned'
    BY <1>3 DEF StallRetried, lineVars, positions, ThreadTypes, SegmentLeft, StepsPlanned, Places
  <2> QED BY <1>3, <2>1, <2>2, CommandOnly DEF StallRetried
<1>4. CASE FlushQueue \/ Flushed
  <2>1. FlagTypes'
    <3>1. "command" \in Threads
      BY DEF Threads
    <3> QED BY <1>4, <3>1, FlagsWritten DEF FlushQueue, Flushed, FlagTypes
  <2>2. ThreadTypes' /\ SegmentLeft' /\ StepsPlanned'
    BY <1>4 DEF FlushQueue, Flushed, lineVars, positions, ThreadTypes, SegmentLeft, StepsPlanned, Places
  <2> QED BY <1>4, <2>1, <2>2, CommandOnly DEF FlushQueue, Flushed
<1>5. CASE FlushWait
  <2>1. FlagTypes'
    BY <1>5, QueueChecked DEF FlushWait
  <2>2. ThreadTypes' /\ SegmentLeft' /\ StepsPlanned'
    BY <1>5 DEF FlushWait, threadVars, lineVars, positions, ThreadTypes, SegmentLeft, StepsPlanned
  <2> QED BY <1>5, <2>1, <2>2, CommandOnly DEF FlushWait
<1> QED BY <1>1, <1>2, <1>3, <1>4, <1>5

(* A position is a target, and the steps to it are steps.                  *)
LEMMA StepsToTarget ==
    ASSUME ThreadTypes, NEW end \in [Motors -> Int]
    PROVE  steps_to_target(end) \in [Motors -> Int]
BY RoundType DEF steps_to_target, ThreadTypes

LEMMA PositionReset ==
    ASSUME TickTypes, reset_position
    PROVE  /\ last_milestone' \in [Motors -> Int]
           /\ machine_position' \in [Motors -> Int]
           /\ compensated_machine_position' \in [Motors -> Int]
BY DEF TickTypes, reset_position, Millimeters

LEMMA RobotInv ==
    ASSUME Inv,
           \/ WaitForIdle \/ WaitMotors \/ \E line \in Lines : Dispatch(line)
           \/ append_line \/ append_milestone \/ update_last_milestones
           \/ recalculate \/ StallAborted \/ Moved \/ ResetPosition
    PROVE  Inv'
<1> USE DEF Inv
<1>1. CASE WaitForIdle \/ WaitMotors \/ recalculate
  <2>1. ThreadTypes' /\ SegmentLeft' /\ StepsPlanned'
    BY <1>1 DEF WaitForIdle, WaitMotors, recalculate, lineVars, positions, ThreadTypes, SegmentLeft,
                StepsPlanned, Places, HaltTypes
  <2> QED BY <1>1, <2>1, ThreadOnly DEF WaitForIdle, WaitMotors, recalculate
<1>2. ASSUME NEW line \in Lines, Dispatch(line) PROVE Inv'
  <2>1. line \in Seq([Motors -> Int])
    BY LinesAssumption
  <2>2. homing' \in BOOLEAN /\ path' = line /\ target' = line[Len(line)] /\ pc' = "line"
    BY <1>2 DEF Dispatch
  <2>3. UNCHANGED <<tickerVars, moved, planned, last_milestone, positions, haltVars, held>>
    BY <1>2 DEF Dispatch
  <2>4. ThreadTypes'
    <3>1. line[Len(line)] \in [Motors -> Int]
      BY <2>1, LinesAssumption, EmptySeq, LenProperties
    <3> QED BY <2>1, <2>2, <2>3, <3>1 DEF positions, ThreadTypes, Places
  <2>5. SegmentLeft' /\ StepsPlanned'
    BY <2>2 DEF SegmentLeft, StepsPlanned
  <2> QED BY <2>3, <2>4, <2>5, ThreadOnly
<1>3. CASE append_line
  <2>1. \/ pc' \in {"idle", "wait"} /\ path' = <<>>
        \/ pc' = "milestone" /\ path # <<>> /\ UNCHANGED path
    BY <1>3 DEF append_line
  <2>2. ThreadTypes'
    <3>1. path' \in Seq([Motors -> Int])
      <4>1. <<>> \in Seq([Motors -> Int])
        OBVIOUS
      <4>2. path \in Seq([Motors -> Int])
        BY DEF ThreadTypes
      <4> QED BY <2>1, <4>1, <4>2
    <3>2. pc' \in Places
      BY <2>1 DEF Places
    <3>3. AtRest \in [Motors -> Int] /\ machine_position' \in {target, machine_position}
      BY <1>3 DEF append_line, AtRest
    <3> QED BY <1>3, <3>1, <3>2, <3>3 DEF append_line, ThreadTypes
  <2>3. SegmentLeft' /\ StepsPlanned'
    BY <2>1 DEF SegmentLeft, StepsPlanned
  <2> QED BY <1>3, <2>2, <2>3, ThreadOnly DEF append_line
<1>4. CASE append_milestone
  <2>1. path # <<>>
    BY <1>4 DEF append_milestone, SegmentLeft
  <2>2. Head(path) \in [Motors -> Int] /\ Tail(path) \in Seq([Motors -> Int])
    BY <2>1, HeadTailProperties DEF ThreadTypes
  <2>3. steps_to_target(Head(path)) \in [Motors -> Int]
    BY <2>2, StepsToTarget
  <2>4. ThreadTypes' /\ SegmentLeft' /\ StepsPlanned'
    BY <1>4, <2>1, <2>2, <2>3
       DEF append_milestone, lineVars, positions, ThreadTypes, SegmentLeft, StepsPlanned, Places
  <2> QED BY <1>4, <2>4, ThreadOnly DEF append_milestone
<1>5. CASE update_last_milestones
  <2>1. ThreadTypes' /\ SegmentLeft' /\ StepsPlanned'
    BY <1>5 DEF update_last_milestones, lineVars, positions, ThreadTypes, SegmentLeft, StepsPlanned, Places
  <2> QED BY <1>5, <2>1, ThreadOnly DEF update_last_milestones
<1>6. CASE StallAborted \/ Moved
  <2>1. path # <<>>
    BY <1>6 DEF StallAborted, Moved, SegmentLeft
  <2>2. Head(path) \in [Motors -> Int] /\ Tail(path) \in Seq([Motors -> Int])
    BY <2>1, HeadTailProperties DEF ThreadTypes
  <2>3. AtRest \in [Motors -> Int]
    BY DEF AtRest
  <2>4. ThreadTypes' /\ SegmentLeft' /\ StepsPlanned'
    BY <1>6, <2>2, <2>3
       DEF StallAborted, Moved, lineVars, positions, ThreadTypes, SegmentLeft, StepsPlanned, Places
  <2> QED BY <1>6, <2>4, ThreadOnly DEF StallAborted, Moved
<1>7. CASE ResetPosition
  <2>1. /\ last_milestone' \in [Motors -> Int]
        /\ machine_position' \in [Motors -> Int]
        /\ compensated_machine_position' \in [Motors -> Int]
    BY <1>7, PositionReset DEF ResetPosition
  <2>2. ThreadTypes' /\ SegmentLeft' /\ StepsPlanned'
    BY <1>7, <2>1 DEF ResetPosition, lineVars, positions, ThreadTypes, SegmentLeft, StepsPlanned, Places
  <2> QED BY <1>7, <2>2, ThreadOnly DEF ResetPosition
<1> QED BY <1>1, <1>2, <1>3, <1>4, <1>5, <1>6, <1>7

(* What queue_head commits has steps, and there is room for it.            *)
LEMMA CommitInv == ASSUME Inv, queue_head PROVE Inv'
<1> USE DEF Inv
<1>1. CASE full
  <2>1. ThreadTypes' /\ SegmentLeft' /\ StepsPlanned' /\ UNCHANGED <<tickerVars, haltVars, held>>
    BY <1>1 DEF queue_head, lineVars, positions, ThreadTypes, SegmentLeft, StepsPlanned, Places, tickerVars
  <2> QED BY <2>1, ThreadOnly
<1>2. CASE ~full
  <2>1. queue' = Append(queue, Block(planned)) /\ pc' = "moved" /\ planned' = AtRest
    BY <1>2 DEF queue_head
  <2>2. Block(planned) \in Blocks /\ Active(Block(planned)) # {}
    BY BlockOfSteps DEF queue_head, lineVars, positions, ThreadTypes, StepsPlanned
  <2>3. QueueTypes'
    <3>1. Len(queue) \in Nat /\ Len(queue) # Capacity
      BY <1>2 DEF full, QueueTypes
    <3> QED BY <2>1, <2>2, <3>1, CapacityAssumption, AppendProperties DEF QueueTypes
  <2>4. BlocksHaveSteps'
    <3> SUFFICES ASSUME NEW i \in DOMAIN queue' PROVE Active(queue'[i]) # {}
      BY DEF BlocksHaveSteps, Active
    <3>1. CASE i \in DOMAIN queue
      BY <2>1, <2>2, <3>1, AppendProperties DEF QueueTypes, BlocksHaveSteps
    <3>2. CASE i \notin DOMAIN queue
      BY <2>1, <2>2, <3>2, AppendProperties DEF QueueTypes
    <3> QED BY <3>1, <3>2
  <2>5. FlagTypes' /\ TickTypes' /\ HaltTypes' /\ RunningIsQueued'
    BY <2>1, <2>2, AppendProperties
       DEF queue_head, FlagTypes, TickTypes, HaltTypes, haltVars, RunningIsQueued, QueueTypes
  <2>6. ThreadTypes' /\ SegmentLeft' /\ StepsPlanned'
    <3>1. AtRest \in [Motors -> Int]
      BY DEF AtRest
    <3> QED BY <2>1, <3>1
            DEF queue_head, lineVars, positions, ThreadTypes, SegmentLeft, StepsPlanned, Places
  <2> QED BY <2>3, <2>4, <2>5, <2>6
<1> QED BY <1>1, <1>2

LEMMA CommandInv == Inv /\ Command => Inv'
BY ConveyorInv, RobotInv, CommitInv DEF Command

-----------------------------------------------------------------------------
(* A thread writes the flags back, and the broadcast of a halt.            *)

LEMMA WriteBackInv == ASSUME Inv, NEW t \in Threads, WriteBack(t) PROVE Inv'
<1> USE DEF Inv
<1>1. held[t] \in BOOLEAN \X BOOLEAN \X BOOLEAN
  BY DEF WriteBack, FlagTypes, Flags
<1>2. FlagTypes'
  BY <1>1 DEF WriteBack, FlagTypes, Flags
<1>3. ThreadTypes' /\ SegmentLeft' /\ StepsPlanned'
  BY DEF WriteBack, threadVars, lineVars, positions, ThreadTypes, SegmentLeft, StepsPlanned
<1> QED BY <1>2, <1>3, CommandOnly DEF WriteBack

LEMMA BroadcastInv ==
    ASSUME Inv, NEW h \in Halters,
           Broadcast(h) \/ \E on \in BOOLEAN : BroadcastHalt(h, on)
    PROVE  Inv'
<1> USE DEF Inv
<1>1. ASSUME NEW on \in BOOLEAN, BroadcastHalt(h, on) PROVE Inv'
  <2>1. HaltTypes'
    BY <1>1 DEF BroadcastHalt, HaltTypes
  <2>2. QueueTypes' /\ FlagTypes' /\ TickTypes' /\ RunningIsQueued' /\ BlocksHaveSteps'
    BY <1>1 DEF BroadcastHalt, QueueTypes, FlagTypes, TickTypes, RunningIsQueued,
                BlocksHaveSteps, Active
  <2>3. ThreadTypes' /\ SegmentLeft' /\ StepsPlanned'
    BY <1>1 DEF BroadcastHalt, threadVars, lineVars, positions, ThreadTypes, SegmentLeft, StepsPlanned
  <2> QED BY <2>1, <2>2, <2>3
<1>2. CASE Conveyor_on_halt(h)
  <2>1. flg[h] \in BOOLEAN /\ (flush \/ flg[h]) \in BOOLEAN /\ h \in Threads
    BY DEF HaltTypes, FlagTypes, Threads
  <2>2. FlagTypes'
    BY <1>2, <2>1, FlagsWritten DEF Conveyor_on_halt, FlagTypes
  <2>3. HaltTypes'
    BY <1>2 DEF Conveyor_on_halt, HaltTypes
  <2>4. QueueTypes' /\ TickTypes' /\ RunningIsQueued' /\ BlocksHaveSteps'
    BY <1>2 DEF Conveyor_on_halt, QueueTypes, TickTypes, RunningIsQueued,
                BlocksHaveSteps, Active
  <2>5. ThreadTypes' /\ SegmentLeft' /\ StepsPlanned'
    BY <1>2 DEF Conveyor_on_halt, threadVars, lineVars, positions, ThreadTypes, SegmentLeft, StepsPlanned
  <2> QED BY <2>2, <2>3, <2>4, <2>5
<1>3. CASE Robot_on_halt(h)
  <2>1. HaltTypes'
    BY <1>3 DEF Robot_on_halt, HaltTypes
  <2>2. moving' \in [Motors -> BOOLEAN]
    BY <1>3 DEF Robot_on_halt, TickTypes, Stopped
  <2>3. QueueTypes' /\ FlagTypes' /\ TickTypes' /\ RunningIsQueued' /\ BlocksHaveSteps'
    BY <1>3, <2>2 DEF Robot_on_halt, QueueTypes, FlagTypes, TickTypes, RunningIsQueued,
                      BlocksHaveSteps, Active
  <2>4. ThreadTypes' /\ SegmentLeft' /\ StepsPlanned'
    BY <1>3 DEF Robot_on_halt, threadVars, lineVars, positions, ThreadTypes, SegmentLeft, StepsPlanned
  <2> QED BY <2>1, <2>3, <2>4
<1>4. CASE Resync(h)
  <2>1. /\ last_milestone' \in [Motors -> Int]
        /\ machine_position' \in [Motors -> Int]
        /\ compensated_machine_position' \in [Motors -> Int]
    BY <1>4, PositionReset DEF Resync, positions, ThreadTypes
  <2>2. HaltTypes'
    BY <1>4 DEF Resync, HaltTypes, tickerVars
  <2>3. QueueTypes' /\ FlagTypes' /\ TickTypes' /\ RunningIsQueued' /\ BlocksHaveSteps'
    BY <1>4 DEF Resync, tickerVars, QueueTypes, FlagTypes, TickTypes, RunningIsQueued,
                BlocksHaveSteps, Active
  <2>4. ThreadTypes' /\ SegmentLeft' /\ StepsPlanned'
    BY <1>4, <2>1 DEF Resync, lineVars, positions, ThreadTypes, SegmentLeft, StepsPlanned
  <2> QED BY <2>2, <2>3, <2>4
<1> QED BY <1>1, <1>2, <1>3, <1>4 DEF Broadcast

-----------------------------------------------------------------------------
(* The interrupt.                                                          *)

(* It keeps what is left of the queue, or drops it all.                    *)
LEMMA QueueKept ==
    ASSUME NEW q \in Seq(Blocks), Len(q) <= Capacity, \A i \in DOMAIN q : Active(q[i]) # {},
           queue' = q \/ queue' = <<>>, running' => queue' # <<>>
    PROVE  QueueTypes' /\ RunningIsQueued' /\ BlocksHaveSteps'
<1>1. CASE queue' = q
  BY <1>1 DEF QueueTypes, RunningIsQueued, BlocksHaveSteps, Active
<1>2. CASE queue' = <<>>
  BY <1>2, EmptySeq, CapacityAssumption DEF QueueTypes, RunningIsQueued, BlocksHaveSteps
<1> QED BY <1>1, <1>2

(* Names for what one tick computes: see MotorTick.                        *)
finished(S, m) == m \in S /\ (~moving[m] \/ Head(queue).left[m] = 1)

leftAfter(S) == [m \in Motors |-> IF finished(S, m) THEN 0
                                  ELSE IF m \in S THEN Head(queue).left[m] - 1
                                  ELSE Head(queue).left[m]]

movingAfter(S) == [m \in Motors |-> moving[m] /\ ~finished(S, m)]

stillMoving(S) == \E m \in Active(Head(queue)) : movingAfter(S)[m]

LEMMA MotorTickCases ==
    ASSUME NEW S, NEW locked, MotorTick(S, locked)
    PROVE  /\ running
           /\ ~module_halted
           /\ S \subseteq Active(Head(queue))
           /\ \/ /\ stillMoving(S)
                 /\ queue' = [queue EXCEPT ![1].left = leftAfter(S)]
                 /\ moving' = movingAfter(S)
                 /\ UNCHANGED <<flush, running>>
              \/ /\ ~stillMoving(S)
                 /\ get_next_block(Tail(queue), movingAfter(S), locked)
           /\ UNCHANGED <<allow_fetch, conveyor_halted, module_halted>>
           /\ position' = [m \in Motors |-> IF m \in S
                                            THEN position[m] + Direction(Head(queue), m)
                                            ELSE position[m]]
BY DEF MotorTick, stillMoving, movingAfter, leftAfter, finished

(* After a tick the steps left are natural numbers, and a motor that still *)
(* moves has some.                                                         *)
LEMMA StepsLeft ==
    ASSUME Inv, running, NEW S, S \subseteq Active(Head(queue))
    PROVE  /\ Head(queue) \in Blocks
           /\ leftAfter(S) \in [Motors -> Nat]
           /\ movingAfter(S) \in [Motors -> BOOLEAN]
           /\ \A m \in Active(Head(queue)) : movingAfter(S)[m] => leftAfter(S)[m] # 0
<1>1. Head(queue) \in Blocks
  BY HeadTailProperties DEF Inv, QueueTypes, RunningIsQueued
<1>2. Head(queue).left \in [Motors -> Nat]
  BY <1>1 DEF Blocks
<1>3. \A m \in S : m \in Motors /\ Head(queue).left[m] \in Nat \ {0}
  BY <1>2 DEF Active
<1>4. leftAfter(S) \in [Motors -> Nat]
  BY <1>2, <1>3 DEF leftAfter
<1>5. movingAfter(S) \in [Motors -> BOOLEAN]
  BY DEF movingAfter
<1>6. ASSUME NEW m \in Active(Head(queue)), movingAfter(S)[m] PROVE leftAfter(S)[m] # 0
  <2>1. m \in Motors /\ Head(queue).left[m] \in Nat \ {0}
    BY <1>2 DEF Active
  <2>2. ~finished(S, m)
    BY <1>6, <2>1 DEF movingAfter
  <2>3. m \in S => Head(queue).left[m] # 1
    BY <2>2 DEF finished
  <2> QED BY <2>1, <2>2, <2>3 DEF leftAfter
<1> QED BY <1>1, <1>4, <1>5, <1>6

LEMMA MotorTickInv ==
    ASSUME Inv, NEW S, NEW locked, MotorTick(S, locked), UNCHANGED <<threadVars, haltVars, held>>
    PROVE  Inv'
<1> USE DEF Inv
<1>1. running /\ S \subseteq Active(Head(queue)) /\ ~module_halted
  BY MotorTickCases
<1>2. queue # <<>> /\ queue \in Seq(Blocks) /\ 1 \in 1 .. Len(queue) /\ Head(queue) = queue[1]
  BY <1>1, LenProperties, EmptySeq DEF RunningIsQueued, QueueTypes
<1>3. position' \in [Motors -> Int]
  <2>1. \A m \in Motors : Direction(Head(queue), m) \in Int
    BY DEF Direction
  <2> QED BY <2>1, MotorTickCases DEF TickTypes
<1>4. ThreadTypes' /\ SegmentLeft' /\ StepsPlanned'
  BY DEF threadVars, lineVars, positions, ThreadTypes, SegmentLeft, StepsPlanned
<1>5. HaltTypes'
  BY MotorTickCases DEF haltVars, HaltTypes
<1>6. CASE stillMoving(S)
  <2> DEFINE b == [queue[1] EXCEPT !.left = leftAfter(S)]
  <2>1. queue' = [queue EXCEPT ![1] = b] /\ moving' = movingAfter(S) /\ UNCHANGED <<flush, running>>
    BY <1>6, MotorTickCases
  <2>2. b \in Blocks /\ b.left = leftAfter(S)
    BY <1>1, <1>2, StepsLeft DEF Blocks
  <2>3. Active(b) # {}
    <3>1. PICK m \in Active(Head(queue)) : movingAfter(S)[m]
      BY <1>6 DEF stillMoving
    <3>2. m \in Motors /\ b.left[m] # 0
      BY <1>1, <2>2, <3>1, StepsLeft DEF Active
    <3> QED BY <3>2 DEF Active
  <2> HIDE DEF b
  <2>4. /\ queue' \in Seq(Blocks)
        /\ Len(queue') = Len(queue)
        /\ \A j \in 1 .. Len(queue) : queue'[j] = IF j = 1 THEN b ELSE queue[j]
    BY <1>2, <2>1, <2>2, ExceptSeq
  <2>5. QueueTypes' /\ RunningIsQueued'
    BY <1>2, <2>4, EmptySeq DEF QueueTypes, RunningIsQueued
  <2>6. BlocksHaveSteps'
    <3>1. \A i \in 1 .. Len(queue) : Active(queue'[i]) # {}
      BY <1>2, <2>3, <2>4 DEF BlocksHaveSteps
    <3> QED BY <2>4, <3>1 DEF BlocksHaveSteps, Active
  <2>7. FlagTypes' /\ TickTypes'
    BY <1>1, <1>3, <2>1, MotorTickCases, StepsLeft DEF FlagTypes, TickTypes
  <2> QED BY <1>4, <1>5, <2>5, <2>6, <2>7
<1>7. CASE ~stillMoving(S)
  <2>1. get_next_block(Tail(queue), movingAfter(S), locked)
    BY <1>7, MotorTickCases
  <2>2. /\ Tail(queue) \in Seq(Blocks)
        /\ Len(Tail(queue)) = Len(queue) - 1
        /\ \A i \in DOMAIN Tail(queue) : Active(Tail(queue)[i]) # {}
    <3>1. /\ Tail(queue) \in Seq(Blocks)
          /\ Len(Tail(queue)) = Len(queue) - 1
          /\ \A i \in 1 .. Len(Tail(queue)) : Tail(queue)[i] = queue[i + 1]
      BY <1>2, HeadTailProperties
    <3>2. \A i \in 1 .. Len(Tail(queue)) : i + 1 \in DOMAIN queue
      BY <1>2, <3>1
    <3> QED BY <3>1, <3>2 DEF BlocksHaveSteps
  <2>3. movingAfter(S) \in [Motors -> BOOLEAN] /\ flush \in BOOLEAN /\ module_halted \in BOOLEAN
    BY <1>1, StepsLeft DEF FlagTypes, HaltTypes
  <2>4. /\ queue' = Tail(queue) \/ queue' = <<>>
        /\ flush' \in BOOLEAN
        /\ running' \in BOOLEAN
        /\ moving' \in [Motors -> BOOLEAN]
        /\ running' => queue' # <<>>
    BY <2>1, <2>2, <2>3, NextBlock DEF get_next_block, FlushAll, NoBlock, StartBlock, HasBlock
  <2>5. QueueTypes' /\ RunningIsQueued' /\ BlocksHaveSteps'
    <3>1. Len(Tail(queue)) <= Capacity
      BY <1>2, <2>2, LenProperties, CapacityAssumption DEF QueueTypes
    <3> QED BY <2>2, <2>4, <3>1, QueueKept
  <2>6. FlagTypes' /\ TickTypes'
    BY <1>3, <2>4, MotorTickCases DEF FlagTypes, TickTypes
  <2> QED BY <1>4, <1>5, <2>5, <2>6
<1> QED BY <1>6, <1>7

LEMMA TickInv == ASSUME Inv, Tick PROVE Inv'
<1> USE DEF Inv
<1>1. CASE TickIdle
  <2>1. /\ get_next_block(queue, moving, MayBeLocked)
        /\ \A i \in DOMAIN queue : Active(queue[i]) # {}
    BY <1>1 DEF TickIdle, IdleTick, BlocksHaveSteps
  <2>2. /\ queue' = queue \/ queue' = <<>>
        /\ flush' \in BOOLEAN
        /\ running' \in BOOLEAN
        /\ moving' \in [Motors -> BOOLEAN]
        /\ running' => queue' # <<>>
    <3>1. queue \in Seq(Blocks) /\ moving \in [Motors -> BOOLEAN] /\ flush \in BOOLEAN
          /\ module_halted \in BOOLEAN
      BY DEF QueueTypes, TickTypes, FlagTypes, HaltTypes
    <3> QED BY <2>1, <3>1, NextBlock DEF get_next_block, FlushAll, NoBlock, StartBlock, HasBlock
  <2>3. QueueTypes' /\ RunningIsQueued' /\ BlocksHaveSteps'
    BY <2>1, <2>2, QueueKept DEF QueueTypes
  <2>4. FlagTypes' /\ TickTypes' /\ HaltTypes'
    BY <1>1, <2>2 DEF TickIdle, IdleTick, haltVars, FlagTypes, TickTypes, HaltTypes
  <2>5. ThreadTypes' /\ SegmentLeft' /\ StepsPlanned'
    BY <1>1 DEF TickIdle, threadVars, lineVars, positions, ThreadTypes, SegmentLeft, StepsPlanned
  <2> QED BY <2>3, <2>4, <2>5
<1>2. CASE TickHalted
  <2>1. QueueTypes' /\ FlagTypes' /\ TickTypes' /\ HaltTypes' /\ RunningIsQueued' /\ BlocksHaveSteps'
    BY <1>2 DEF TickHalted, HaltedTick, haltVars, QueueTypes, FlagTypes, TickTypes, HaltTypes,
                RunningIsQueued, BlocksHaveSteps, Active
  <2>2. ThreadTypes' /\ SegmentLeft' /\ StepsPlanned'
    BY <1>2 DEF TickHalted, threadVars, lineVars, positions, ThreadTypes, SegmentLeft, StepsPlanned
  <2> QED BY <2>1, <2>2
<1>3. CASE TickMotors
  BY <1>3, MotorTickInv DEF TickMotors
<1> QED BY <1>1, <1>2, <1>3 DEF Tick

(* An endstop stops a motor.                                               *)
LEMMA StopMotorInv == ASSUME Inv, NEW m \in Stoppable, StopMotor(m) PROVE Inv'
<1> USE DEF Inv
<1>1. QueueTypes' /\ FlagTypes' /\ TickTypes' /\ HaltTypes' /\ RunningIsQueued' /\ BlocksHaveSteps'
  BY DEF StopMotor, haltVars, QueueTypes, FlagTypes, TickTypes, HaltTypes,
         RunningIsQueued, BlocksHaveSteps, Active
<1>2. ThreadTypes' /\ SegmentLeft' /\ StepsPlanned'
  BY DEF StopMotor, threadVars, lineVars, positions, ThreadTypes, SegmentLeft, StepsPlanned
<1> QED BY <1>1, <1>2

LEMMA NextInv == Inv /\ [Next]_vars => Inv'
<1> SUFFICES ASSUME Inv, [Next]_vars PROVE Inv'
  OBVIOUS
<1>1. CASE UNCHANGED vars
  <2>1. UNCHANGED <<tickerVars, haltVars, held>> /\ ThreadTypes' /\ SegmentLeft' /\ StepsPlanned'
    BY <1>1 DEF vars, threadVars, lineVars, positions, Inv, ThreadTypes, SegmentLeft, StepsPlanned
  <2> QED BY <2>1, ThreadOnly
<1>2. CASE Next
  BY <1>2, CommandInv, WriteBackInv, BroadcastInv, TickInv, StopMotorInv
     DEF Next, Proceed, NewBroadcast
<1> QED BY <1>1, <1>2

THEOREM Invariance == Spec => []Inv
BY InitInv, NextInv, PTL DEF Spec

(* Motion keeps its types: the queue never holds more than it can, and the *)
(* command thread never plans a segment that is not there.                 *)
THEOREM TypeCorrect == Spec => []TypeOK
<1>1. Inv => TypeOK
  <2> SUFFICES ASSUME Inv PROVE TypeOK
    OBVIOUS
  <2>1. \A i \in DOMAIN queue : queue[i].steps \in [Motors -> Int] /\ queue[i].left \in [Motors -> Nat]
    <3>1. \A i \in DOMAIN queue : queue[i] \in Blocks
      BY DEF Inv, QueueTypes
    <3> QED BY <3>1 DEF Blocks
  <2>2. /\ {allow_fetch, flush, conveyor_halted, module_halted, robot_halted, running, homing,
            moved} \subseteq BOOLEAN
        /\ {position, planned, last_milestone, target, machine_position,
            compensated_machine_position} \subseteq [Motors -> Int]
    BY DEF Inv, FlagTypes, HaltTypes, TickTypes, ThreadTypes
  <2> QED BY <2>1, <2>2
          DEF Inv, TypeOK, QueueTypes, FlagTypes, Flags, TickTypes, ThreadTypes, Places, HaltTypes
<1> QED BY <1>1, Invariance, PTL

(* Whatever is halted, aborted or stopped, and whoever halts it, no block  *)
(* without steps gets into the queue or is left in it: start_next_block    *)
(* always finds a motor to start.                                          *)
THEOREM QueuedBlocksHaveSteps == Spec => []BlocksHaveSteps
BY Invariance, PTL DEF Inv

-----------------------------------------------------------------------------
(* The queue and BlockFifo.                                                *)

(* What the interrupt is to execute of the blocks of q, with steps in all. *)
Contents(q) == [i \in 1 .. Len(q) |-> q[i].steps]
Moves == [Motors -> Int] \ {AtRest}

Fifo == INSTANCE BlockFifo WITH fifo <- Contents(queue), Blocks <- Moves

LEMMA ContentsOf ==
    ASSUME NEW q \in Seq(Blocks)
    PROVE  /\ Contents(q) \in Seq([Motors -> Int])
           /\ Len(Contents(q)) = Len(q)
           /\ \A i \in 1 .. Len(q) : Contents(q)[i] = q[i].steps
           /\ Contents(q) = <<>> <=> q = <<>>
<1>1. Len(q) \in Nat /\ \A i \in 1 .. Len(q) : q[i] \in Blocks
  OBVIOUS
<1>2. \A i \in 1 .. Len(q) : q[i].steps \in [Motors -> Int]
  BY <1>1 DEF Blocks
<1>3. Contents(q) \in Seq([Motors -> Int]) /\ Len(Contents(q)) = Len(q)
  BY <1>1, <1>2, SeqDef, LenProperties DEF Contents
<1> QED BY <1>1, <1>3, EmptySeq DEF Contents

LEMMA ContentsOfTail ==
    ASSUME NEW q \in Seq(Blocks), q # <<>>
    PROVE  Contents(Tail(q)) = Tail(Contents(q)) /\ Contents(q) # <<>>
<1>1. /\ Tail(q) \in Seq(Blocks)
      /\ Len(Tail(q)) = Len(q) - 1
      /\ \A i \in 1 .. Len(Tail(q)) : Tail(q)[i] = q[i + 1]
  BY HeadTailProperties
<1>2. /\ Contents(q) \in Seq([Motors -> Int]) /\ Contents(q) # <<>>
      /\ Len(Contents(q)) = Len(q) /\ Len(q) \in Nat
      /\ \A i \in 1 .. Len(q) : Contents(q)[i] = q[i].steps
  BY ContentsOf
<1>3. /\ Tail(Contents(q)) \in Seq([Motors -> Int])
      /\ Len(Tail(Contents(q))) = Len(q) - 1
      /\ \A i \in 1 .. Len(q) - 1 : Tail(Contents(q))[i] = Contents(q)[i + 1]
  BY <1>2, HeadTailProperties
<1>4. /\ Contents(Tail(q)) \in Seq([Motors -> Int])
      /\ Len(Contents(Tail(q))) = Len(q) - 1
      /\ \A i \in 1 .. Len(q) - 1 : Contents(Tail(q))[i] = Tail(q)[i].steps
  BY <1>1, ContentsOf
<1>5. \A i \in 1 .. Len(q) - 1 : i + 1 \in 1 .. Len(q)
  BY <1>2
<1>6. \A i \in 1 .. Len(q) - 1 : Contents(Tail(q))[i] = Tail(Contents(q))[i]
  BY <1>1, <1>2, <1>3, <1>4, <1>5
<1> QED BY <1>2, <1>3, <1>4, <1>6, SeqEqual

LEMMA ContentsOfAppend ==
    ASSUME NEW q \in Seq(Blocks), NEW b \in Blocks
    PROVE  Contents(Append(q, b)) = Append(Contents(q), b.steps)
<1>1. /\ Append(q, b) \in Seq(Blocks)
      /\ Len(Append(q, b)) = Len(q) + 1
      /\ \A i \in 1 .. Len(q) : Append(q, b)[i] = q[i]
      /\ Append(q, b)[Len(q) + 1] = b
  BY AppendProperties
<1>2. /\ Contents(q) \in Seq([Motors -> Int])
      /\ Len(Contents(q)) = Len(q) /\ Len(q) \in Nat
      /\ \A i \in 1 .. Len(q) : Contents(q)[i] = q[i].steps
  BY ContentsOf
<1>3. b.steps \in [Motors -> Int]
  BY DEF Blocks
<1>4. /\ Append(Contents(q), b.steps) \in Seq([Motors -> Int])
      /\ Len(Append(Contents(q), b.steps)) = Len(q) + 1
      /\ \A i \in 1 .. Len(q) : Append(Contents(q), b.steps)[i] = q[i].steps
      /\ Append(Contents(q), b.steps)[Len(q) + 1] = b.steps
  BY <1>2, <1>3, AppendProperties
<1>5. /\ Contents(Append(q, b)) \in Seq([Motors -> Int])
      /\ Len(Contents(Append(q, b))) = Len(q) + 1
      /\ \A i \in 1 .. Len(q) + 1 : Contents(Append(q, b))[i] = Append(q, b)[i].steps
  BY <1>1, ContentsOf
<1>6. \A i \in 1 .. Len(q) + 1 : i \in 1 .. Len(q) \/ i = Len(q) + 1
  BY <1>2
<1>7. \A i \in 1 .. Len(q) + 1 : Contents(Append(q, b))[i] = Append(Contents(q), b.steps)[i]
  BY <1>1, <1>4, <1>5, <1>6
<1> QED BY <1>4, <1>5, <1>7, SeqEqual

(* append_block appends the block that was planned, whole.                 *)
LEMMA QueueHeadCommits ==
    ASSUME Inv, queue_head
    PROVE  [Fifo!Next]_(Contents(queue))
<1>1. /\ queue \in Seq(Blocks) /\ Len(queue) \in Nat /\ Len(queue) <= Capacity
      /\ planned \in Moves
  BY DEF Inv, QueueTypes, ThreadTypes, StepsPlanned, Moves, queue_head
<1>2. CASE full
  BY <1>2 DEF queue_head, Contents
<1>3. CASE ~full
  <2>1. queue' = Append(queue, Block(planned)) /\ Block(planned) \in Blocks
        /\ Block(planned).steps = planned
    BY <1>1, <1>3, BlockOfSteps DEF queue_head, Moves, Block
  <2>2. Contents(queue') = Append(Contents(queue), planned)
    BY <1>1, <2>1, ContentsOfAppend
  <2>3. Len(Contents(queue)) < Capacity
    BY <1>1, <1>3, ContentsOf, CapacityAssumption DEF full
  <2>4. Contents(queue)' = Append(Contents(queue), planned)
    BY <2>2 DEF Contents
  <2> QED BY <1>1, <2>3, <2>4 DEF Fifo!Next, Fifo!Commit
<1> QED BY <1>2, <1>3

(* A tick that ends a block removes that one, or all; one that does not    *)
(* leaves what the blocks are, and only counts their steps down.           *)
LEMMA TickReleases ==
    ASSUME Inv, Tick
    PROVE  [Fifo!Next]_(Contents(queue))
<1>1. queue \in Seq(Blocks) /\ Len(queue) \in Nat
      /\ \A i \in DOMAIN queue : Active(queue[i]) # {}
  BY DEF Inv, QueueTypes, BlocksHaveSteps
<1>2. moving \in [Motors -> BOOLEAN] /\ flush \in BOOLEAN /\ module_halted \in BOOLEAN
  BY DEF Inv, TickTypes, FlagTypes, HaltTypes
<1>3. ASSUME queue' = <<>> PROVE [Fifo!Next]_(Contents(queue))
  <2>1. Contents(queue)' = <<>>
    BY <1>3, EmptySeq DEF Contents
  <2> QED BY <2>1 DEF Fifo!Next, Fifo!Discard
<1>4. ASSUME queue' = queue PROVE [Fifo!Next]_(Contents(queue))
  BY <1>4 DEF Contents
<1>5. CASE TickIdle
  <2>1. get_next_block(queue, moving, MayBeLocked)
    BY <1>5 DEF TickIdle, IdleTick
  <2>2. queue' = queue \/ queue' = <<>>
    BY <1>1, <1>2, <2>1, NextBlock DEF get_next_block, FlushAll, NoBlock, StartBlock
  <2> QED BY <1>3, <1>4, <2>2
<1>6. CASE TickHalted
  BY <1>4, <1>6 DEF TickHalted, HaltedTick
<1>7. ASSUME NEW S \in SUBSET Motors, MotorTick(S, MayBeLocked)
      PROVE  [Fifo!Next]_(Contents(queue))
  <2>1. queue # <<>> /\ running /\ S \subseteq Active(Head(queue))
    BY <1>7, MotorTickCases DEF Inv, RunningIsQueued
  <2>2. CASE stillMoving(S)
    <3>1. queue' = [queue EXCEPT ![1].left = leftAfter(S)]
      BY <1>7, <2>2, MotorTickCases
    <3>2. Len(queue') = Len(queue) /\ \A i \in 1 .. Len(queue) : queue'[i].steps = queue[i].steps
      BY <1>1, <3>1 DEF Blocks
    <3>3. Contents(queue)' = Contents(queue)
      BY <3>2 DEF Contents
    <3> QED BY <3>3
  <2>3. CASE ~stillMoving(S)
    <3>1. get_next_block(Tail(queue), movingAfter(S), MayBeLocked)
      BY <1>7, <2>3, MotorTickCases
    <3>2. movingAfter(S) \in [Motors -> BOOLEAN]
      BY <2>1, StepsLeft
    <3>3. /\ Tail(queue) \in Seq(Blocks)
          /\ \A i \in DOMAIN Tail(queue) : Active(Tail(queue)[i]) # {}
      <4>1. /\ Tail(queue) \in Seq(Blocks)
            /\ Len(Tail(queue)) = Len(queue) - 1
            /\ \A i \in 1 .. Len(Tail(queue)) : Tail(queue)[i] = queue[i + 1]
        BY <1>1, <2>1, HeadTailProperties
      <4>2. \A i \in 1 .. Len(Tail(queue)) : i + 1 \in DOMAIN queue
        BY <1>1, <4>1
      <4> QED BY <1>1, <4>1, <4>2
    <3>4. queue' = Tail(queue) \/ queue' = <<>>
      BY <1>2, <3>1, <3>2, <3>3, NextBlock DEF get_next_block, FlushAll, NoBlock, StartBlock
    <3>5. ASSUME queue' = Tail(queue) PROVE [Fifo!Next]_(Contents(queue))
      <4>1. Contents(queue') = Tail(Contents(queue)) /\ Contents(queue) # <<>>
        BY <1>1, <2>1, <3>5, ContentsOfTail
      <4>2. Contents(queue)' = Tail(Contents(queue))
        BY <4>1 DEF Contents
      <4> QED BY <4>1, <4>2 DEF Fifo!Next, Fifo!Release
    <3> QED BY <1>3, <3>4, <3>5
  <2> QED BY <2>2, <2>3
<1> QED BY <1>5, <1>6, <1>7 DEF Tick, TickMotors

(* The queue is the FIFO of BlockFifo, which PlannerQueue shows the ring    *)
(* to be, whatever moves, aborts, homings, stalls, halts and torn flag     *)
(* writes come together: each block that was committed is executed with    *)
(* the steps it was planned with, in order, or dropped with all behind it;  *)
(* no tick releases two blocks, and none releases what is not there.       *)
THEOREM QueueIsFifo == Spec => Fifo!Spec
<1>1. Init => Fifo!Init
  BY EmptySeq DEF Init, Fifo!Init, Contents
<1>2. Inv /\ [Next]_vars => [Fifo!Next]_(Contents(queue))
  <2> SUFFICES ASSUME Inv, [Next]_vars PROVE [Fifo!Next]_(Contents(queue))
    OBVIOUS
  <2>1. ASSUME queue' = queue PROVE [Fifo!Next]_(Contents(queue))
    BY <2>1 DEF Contents
  <2>2. ASSUME Command, ~queue_head PROVE queue' = queue
    BY <2>2 DEF Command, CommandLoop, WaitForIdle, WaitQueue, WaitMotors, Dispatch, append_line,
       append_milestone, update_last_milestones, recalculate, StallAborted, StallRetried, Moved,
       FlushQueue, FlushWait, Flushed, ResetPosition, tickerVars
  <2>3. ASSUME NEW t \in Threads, WriteBack(t) PROVE queue' = queue
    BY <2>3 DEF WriteBack
  <2>4. ASSUME NEW h \in Halters, Broadcast(h) PROVE queue' = queue
    BY <2>4 DEF Broadcast, Conveyor_on_halt, Robot_on_halt, Resync, tickerVars
  <2>5. ASSUME NEW m \in Stoppable, StopMotor(m) PROVE queue' = queue
    BY <2>5 DEF StopMotor
  <2>6. ASSUME NewBroadcast PROVE queue' = queue
    BY <2>6 DEF NewBroadcast, BroadcastHalt
  <2>7. ASSUME UNCHANGED vars PROVE queue' = queue
    BY <2>7 DEF vars, tickerVars
  <2> QED BY <2>1, <2>2, <2>3, <2>4, <2>5, <2>6, <2>7, QueueHeadCommits, TickReleases
          DEF Next, Proceed
<1> QED BY <1>1, <1>2, Invariance, PTL DEF Spec, Fifo!Spec

-----------------------------------------------------------------------------
(* Halts, broadcast by any of the threads but by one at a time, and with   *)
(* the flags of the conveyor written in one piece.                         *)

OneAtATime == \A g, h \in Halters : halting[g] # "off" /\ halting[h] # "off" => g = h

(* The modules that were told already have the flag, and once all that     *)
(* move motors were told, none moves.                                      *)
Told == \A h \in Halters :
            /\ halting[h] # "off" => module_halted = flg[h]
            /\ halting[h] \in {"robot", "resync"} => conveyor_halted = flg[h]
            /\ halting[h] = "resync" => robot_halted = flg[h]

AllTold == \A h \in Halters : halting[h] \in {"off", "resync"}

MotorsStopped == AllTold /\ module_halted => conveyor_halted /\ moving = Stopped

NothingHeld == held = [t \in Threads |-> NotHeld]

HaltInv == OneAtATime /\ HaltAgreed /\ Told /\ MotorsStopped /\ NothingHeld

LEMMA InitHaltInv == Init => HaltInv
BY DEF Init, HaltInv, OneAtATime, HaltAgreed, Told, MotorsStopped, NothingHeld

(* Written in one piece, only on_halt changes the halt flag.               *)
LEMMA HaltFlagKept ==
    ASSUME AtomicFlags, Command
    PROVE  UNCHANGED <<module_halted, conveyor_halted, moving, haltVars, held>>
<1>1. CASE CommandLoop \/ WaitQueue \/ StallRetried \/ FlushWait
  BY <1>1 DEF CommandLoop, WaitQueue, StallRetried, FlushWait, check_queue, WriteFlags, conveyorVars
<1>2. CASE FlushQueue \/ Flushed
  BY <1>2 DEF FlushQueue, Flushed, WriteFlags
<1>3. CASE queue_head
  BY <1>3 DEF queue_head, tickerVars
<1>4. CASE WaitForIdle \/ WaitMotors \/ append_line \/ append_milestone
  BY <1>4 DEF WaitForIdle, WaitMotors, append_line, append_milestone, tickerVars
<1>5. CASE update_last_milestones \/ recalculate \/ StallAborted \/ Moved \/ ResetPosition
  BY <1>5 DEF update_last_milestones, recalculate, StallAborted, Moved, ResetPosition, tickerVars
<1>6. ASSUME NEW line \in Lines, Dispatch(line)
      PROVE  UNCHANGED <<module_halted, conveyor_halted, moving, haltVars, held>>
  BY <1>6 DEF Dispatch, tickerVars
<1> QED BY <1>1, <1>2, <1>3, <1>4, <1>5, <1>6 DEF Command

LEMMA BroadcastHaltInv ==
    ASSUME AtomicFlags, Inv, HaltInv, OneAtATime', NEW h \in Halters,
           Broadcast(h) \/ \E on \in BOOLEAN : BroadcastHalt(h, on)
    PROVE  HaltInv'
<1> USE DEF HaltInv
<1>1. /\ halting \in [Halters -> {"off", "conveyor", "robot", "resync"}]
      /\ flg \in [Halters -> BOOLEAN]
  BY DEF Inv, HaltTypes
<1>2. ASSUME NEW on \in BOOLEAN, BroadcastHalt(h, on) PROVE HaltInv'
  <2>1. /\ halting' = [halting EXCEPT ![h] = "conveyor"]
        /\ flg' = [flg EXCEPT ![h] = on]
        /\ module_halted' = on
        /\ UNCHANGED held
    BY <1>2 DEF BroadcastHalt
  <2>2. halting'[h] = "conveyor" /\ flg'[h] = on
    BY <1>1, <2>1
  <2>3. \A g \in Halters : g # h => halting'[g] = "off"
    BY <2>2 DEF OneAtATime
  <2>4. HaltAgreed' /\ Told' /\ MotorsStopped'
    BY <2>1, <2>2, <2>3 DEF HaltAgreed, NoBroadcast, Told, MotorsStopped, AllTold
  <2> QED BY <2>1, <2>4 DEF NothingHeld
<1>3. CASE Conveyor_on_halt(h)
  <2>1. /\ halting'[h] = "robot" /\ flg' = flg /\ conveyor_halted' = flg[h]
        /\ halting[h] = "conveyor" /\ module_halted' = module_halted /\ UNCHANGED held
    BY <1>1, <1>3 DEF Conveyor_on_halt, WriteFlags
  <2>2. \A g \in Halters : g # h => halting'[g] = "off"
    BY <2>1 DEF OneAtATime
  <2>3. HaltAgreed' /\ Told' /\ MotorsStopped'
    BY <2>1, <2>2 DEF HaltAgreed, NoBroadcast, Told, MotorsStopped, AllTold
  <2> QED BY <2>1, <2>3 DEF NothingHeld
<1>4. CASE Robot_on_halt(h)
  <2>1. /\ halting'[h] = "resync" /\ robot_halted' = flg[h]
        /\ flg[h] => moving' = Stopped
        /\ halting[h] = "robot"
        /\ UNCHANGED <<flg, module_halted, conveyor_halted, held>>
    BY <1>1, <1>4 DEF Robot_on_halt
  <2>2. \A g \in Halters : g # h => halting'[g] = "off"
    BY <2>1 DEF OneAtATime
  <2>3. HaltAgreed' /\ Told'
    BY <2>1, <2>2 DEF HaltAgreed, NoBroadcast, Told
  <2>4. MotorsStopped'
    <3>1. module_halted' => flg[h] /\ conveyor_halted'
      BY <2>1 DEF Told
    <3> QED BY <2>1, <3>1 DEF MotorsStopped, Stopped
  <2> QED BY <2>1, <2>3, <2>4 DEF NothingHeld
<1>5. CASE Resync(h)
  <2>1. /\ halting'[h] = "off" /\ halting[h] = "resync"
        /\ \A g \in Halters : g # h => halting'[g] = halting[g]
        /\ UNCHANGED <<robot_halted, flg, module_halted, conveyor_halted, moving, held>>
    BY <1>1, <1>5 DEF Resync, tickerVars
  <2>2. \A g \in Halters : g # h => halting[g] = "off"
    BY <2>1 DEF OneAtATime
  <2>3. module_halted = conveyor_halted /\ module_halted = robot_halted
    BY <2>1 DEF Told
  <2>4. HaltAgreed' /\ Told'
    BY <2>1, <2>2, <2>3 DEF HaltAgreed, Told
  <2>5. MotorsStopped'
    <3>1. AllTold
      BY <2>1, <2>2 DEF AllTold
    <3> QED BY <2>1, <3>1 DEF MotorsStopped, Stopped
  <2> QED BY <2>1, <2>4, <2>5 DEF NothingHeld
<1> QED BY <1>2, <1>3, <1>4, <1>5 DEF Broadcast

(* An interrupt does not start a motor once the conveyor is halted.        *)
LEMMA TickHaltInv ==
    ASSUME Inv, HaltInv, OneAtATime', Tick
    PROVE  HaltInv'
<1> USE DEF HaltInv
<1>1. UNCHANGED <<module_halted, conveyor_halted, haltVars, held>>
  <2>1. CASE TickMotors
    BY <2>1 DEF TickMotors, MotorTick
  <2> QED BY <2>1 DEF Tick, TickIdle, IdleTick, TickHalted, HaltedTick
<1>2. HaltAgreed' /\ Told' /\ NothingHeld'
  BY <1>1 DEF haltVars, HaltAgreed, NoBroadcast, Told, NothingHeld
<1>3. AllTold' => AllTold
  BY <1>1 DEF haltVars, AllTold
<1>4. MotorsStopped'
  <2>1. CASE TickIdle
    <3>1. conveyor_halted => moving' = moving
      BY <2>1 DEF TickIdle, IdleTick, get_next_block, StartBlock, HasBlock
    <3> QED BY <1>1, <1>3, <3>1 DEF MotorsStopped, Stopped
  <2>2. CASE TickHalted
    BY <1>1, <1>3, <2>2 DEF TickHalted, HaltedTick, MotorsStopped, Stopped
  <2>3. CASE TickMotors
    BY <1>1, <2>3 DEF TickMotors, MotorTick, MotorsStopped
  <2> QED BY <2>1, <2>2, <2>3 DEF Tick
<1> QED BY <1>2, <1>4

LEMMA HaltVarsKept ==
    ASSUME \/ Command \/ Tick \/ UNCHANGED vars
           \/ \E t \in Threads : WriteBack(t)
           \/ \E m \in Stoppable : StopMotor(m)
    PROVE  UNCHANGED haltVars
<1>1. CASE Command
  BY <1>1 DEF Command, CommandLoop, WaitForIdle, WaitQueue, WaitMotors, Dispatch,
     append_line, append_milestone, update_last_milestones, recalculate, queue_head,
     StallAborted, StallRetried, Moved, FlushQueue, FlushWait, Flushed, ResetPosition,
     haltVars
<1>2. CASE \/ Tick \/ UNCHANGED vars
           \/ \E t \in Threads : WriteBack(t)
           \/ \E m \in Stoppable : StopMotor(m)
  BY <1>2 DEF Tick, TickIdle, TickHalted, TickMotors, WriteBack, StopMotor, vars
<1> QED BY <1>1, <1>2

LEMMA StaysOneAtATime ==
    ASSUME Inv, OneAtATime, [SerialNext]_vars
    PROVE  OneAtATime'
<1>1. halting \in [Halters -> {"off", "conveyor", "robot", "resync"}]
  BY DEF Inv, HaltTypes
<1>2. ASSUME NEW h \in Halters, Broadcast(h) PROVE OneAtATime'
  <2>1. halting[h] # "off" /\ \E to : halting' = [halting EXCEPT ![h] = to]
    BY <1>2 DEF Broadcast, Conveyor_on_halt, Robot_on_halt, Resync
  <2> QED BY <1>1, <2>1 DEF OneAtATime
<1>3. ASSUME NoBroadcast, NEW h \in Halters, NEW on \in BOOLEAN, BroadcastHalt(h, on)
      PROVE  OneAtATime'
  <2>1. halting' = [halting EXCEPT ![h] = "conveyor"]
    BY <1>3 DEF BroadcastHalt
  <2> QED BY <1>1, <1>3, <2>1 DEF OneAtATime, NoBroadcast
<1>4. ASSUME UNCHANGED haltVars PROVE OneAtATime'
  BY <1>4 DEF haltVars, OneAtATime
<1> QED BY <1>2, <1>3, <1>4, HaltVarsKept DEF SerialNext, Proceed, NewBroadcast

LEMMA NextHaltInv ==
    ASSUME AtomicFlags, Inv, HaltInv, [SerialNext]_vars
    PROVE  HaltInv'
<1> USE DEF HaltInv
<1>0. OneAtATime'
  BY StaysOneAtATime
<1>1. ASSUME UNCHANGED <<module_halted, conveyor_halted, moving, haltVars, held>>
      PROVE  HaltInv'
  BY <1>1 DEF haltVars, OneAtATime, HaltAgreed, NoBroadcast, Told, MotorsStopped, AllTold, Stopped, NothingHeld
<1>2. CASE Command
  BY <1>1, <1>2, HaltFlagKept
<1>3. ASSUME NEW t \in Threads, WriteBack(t) PROVE FALSE
  BY <1>3 DEF WriteBack, NothingHeld
<1>4. ASSUME NEW m \in Stoppable, StopMotor(m) PROVE HaltInv'
  <2>1. ~(AllTold /\ module_halted)
    <3>1. moving[m] /\ m \in Motors
      BY <1>4, StoppableAssumption DEF StopMotor
    <3> QED BY <3>1 DEF MotorsStopped, Stopped
  <2>2. UNCHANGED <<module_halted, conveyor_halted, haltVars, held>>
    BY <1>4 DEF StopMotor
  <2> QED BY <2>1, <2>2
          DEF haltVars, OneAtATime, HaltAgreed, NoBroadcast, Told, MotorsStopped, AllTold, NothingHeld
<1>5. CASE UNCHANGED vars
  BY <1>1, <1>5 DEF vars, tickerVars
<1> QED BY <1>0, <1>2, <1>3, <1>4, <1>5, BroadcastHaltInv, TickHaltInv
        DEF SerialNext, Proceed, NewBroadcast

LEMMA HaltInvariance == ASSUME AtomicFlags PROVE SerialSpec => []HaltInv
<1>1. SerialSpec => Spec
  <2>1. [SerialNext]_vars => [Next]_vars
    BY DEF SerialNext, Next
  <2> QED BY <2>1, PTL DEF SerialSpec, Spec
<1>2. Inv /\ HaltInv /\ [SerialNext]_vars => HaltInv'
  BY NextHaltInv
<1> QED BY <1>1, <1>2, InitHaltInv, Invariance, PTL DEF SerialSpec

(* When nobody is broadcasting a halt, the copies of the halt flag agree,  *)
(* for any queue and any moves: what Module::is_halted answers is what     *)
(* the conveyor and the robot go by.                                       *)
THEOREM FlagsAgree == ASSUME AtomicFlags PROVE SerialSpec => []HaltAgreed
BY HaltInvariance, PTL DEF HaltInv

(* After a halt has been broadcast no motor moves until it is lifted: the  *)
(* conveyor is told before the robot is, so that no interrupt can start a  *)
(* motor again that the robot has stopped.                                 *)
THEOREM MotorsStay == ASSUME AtomicFlags PROVE SerialSpec => []HaltStopsMotors
<1>1. HaltInv => HaltStopsMotors
  BY DEF HaltInv, MotorsStopped, AllTold, HaltStopsMotors, NoBroadcast
<1> QED BY <1>1, HaltInvariance, PTL

-----------------------------------------------------------------------------
(* Without halts.                                                          *)

(* A motor that moves has steps to make in the block that is being ticked. *)
MovingIsTicked ==
    /\ ~module_halted
    /\ \A m \in Motors : moving[m] => running /\ m \in Active(Head(queue))

LEMMA InitMoving == Init => MovingIsTicked
BY DEF Init, MovingIsTicked, Stopped

(* What the command thread does, and the writing back of flags.            *)
LEMMA CommandMoving ==
    ASSUME Inv, MovingIsTicked, Command \/ \E t \in Threads : WriteBack(t)
    PROVE  MovingIsTicked'
<1>1. ASSUME UNCHANGED <<module_halted, moving, running, queue>>
      PROVE  MovingIsTicked'
  BY <1>1 DEF MovingIsTicked, Active
<1>2. CASE CommandLoop \/ WaitQueue \/ StallRetried \/ FlushQueue \/ FlushWait \/ Flushed
  BY <1>1, <1>2 DEF CommandLoop, WaitQueue, StallRetried, FlushQueue, FlushWait, Flushed
<1>3. CASE WaitForIdle \/ WaitMotors \/ append_line \/ append_milestone
  BY <1>1, <1>3 DEF WaitForIdle, WaitMotors, append_line, append_milestone, tickerVars
<1>4. CASE update_last_milestones \/ recalculate \/ StallAborted \/ Moved \/ ResetPosition
  BY <1>1, <1>4
     DEF update_last_milestones, recalculate, StallAborted, Moved, ResetPosition, tickerVars
<1>5. ASSUME NEW line \in Lines, Dispatch(line) PROVE MovingIsTicked'
  BY <1>1, <1>5 DEF Dispatch, tickerVars
<1>6. ASSUME NEW t \in Threads, WriteBack(t) PROVE MovingIsTicked'
  BY <1>1, <1>6 DEF WriteBack
<1>7. CASE queue_head
  <2>1. CASE full
    BY <1>1, <1>7, <2>1 DEF queue_head
  <2>2. CASE ~full
    <3>1. queue' = Append(queue, Block(planned)) /\ UNCHANGED <<module_halted, moving, running>>
      BY <1>7, <2>2 DEF queue_head
    <3>2. running => Head(queue') = Head(queue)
      <4>1. queue \in Seq(Blocks) /\ Block(planned) \in Blocks
        BY BlockOfSteps DEF Inv, QueueTypes, ThreadTypes
      <4>2. running => Len(queue) \in Nat \ {0}
        BY <4>1, EmptySeq DEF Inv, RunningIsQueued
      <4>3. running => Append(queue, Block(planned))[1] = queue[1]
        BY <4>1, <4>2, AppendProperties
      <4>4. Append(queue, Block(planned)) # <<>> /\ Append(queue, Block(planned)) \in Seq(Blocks)
        BY <4>1, AppendProperties
      <4> QED BY <3>1, <4>1, <4>2, <4>3, <4>4
    <3> QED BY <3>1, <3>2 DEF MovingIsTicked, Active
  <2> QED BY <2>1, <2>2
<1> QED BY <1>2, <1>3, <1>4, <1>5, <1>6, <1>7 DEF Command

(* The block that is started next, of a queue q with nothing moving.       *)
LEMMA NextBlockMoving ==
    ASSUME NEW q \in Seq(Blocks), NEW mov, NEW locked,
           \A i \in DOMAIN q : Active(q[i]) # {},
           \A m \in Motors : ~mov[m], ~module_halted,
           get_next_block(q, mov, locked), mov \in [Motors -> BOOLEAN]
    PROVE  \A m \in Motors : moving'[m] => running' /\ m \in Active(Head(queue'))
<1>1. CASE moving' = mov
  BY <1>1
<1>2. CASE moving' # mov
  <2>1. q # <<>> /\ StartBlock(q, mov)
    BY <1>2 DEF get_next_block, StartBlock, HasBlock
  <2>2. Active(Head(q)) # {}
    BY <2>1, HeadTailProperties
  <2>3. queue' = q /\ running' /\ moving' = [m \in Motors |-> mov[m] \/ m \in Active(Head(q))]
    BY <2>1, <2>2 DEF StartBlock
  <2> QED BY <2>3
<1> QED BY <1>1, <1>2

LEMMA TickMoving ==
    ASSUME Inv, MovingIsTicked, Tick
    PROVE  MovingIsTicked'
<1>1. ~module_halted /\ ~module_halted'
  <2>1. CASE TickMotors
    BY <2>1 DEF MovingIsTicked, TickMotors, MotorTick
  <2> QED BY <2>1 DEF MovingIsTicked, Tick, TickIdle, IdleTick, TickHalted, HaltedTick
<1>2. queue \in Seq(Blocks) /\ moving \in [Motors -> BOOLEAN]
      /\ \A i \in DOMAIN queue : Active(queue[i]) # {}
  BY DEF Inv, QueueTypes, TickTypes, BlocksHaveSteps
<1>3. CASE TickIdle
  <2>1. get_next_block(queue, moving, MayBeLocked) /\ \A m \in Motors : ~moving[m]
    BY <1>3 DEF TickIdle, IdleTick, MovingIsTicked
  <2>2. \A m \in Motors : moving'[m] => running' /\ m \in Active(Head(queue'))
    BY <1>1, <1>2, <2>1, NextBlockMoving
       DEF get_next_block, FlushAll, NoBlock, StartBlock, HasBlock
  <2> QED BY <1>1, <2>2 DEF MovingIsTicked, Active
<1>4. ASSUME NEW S, MotorTick(S, MayBeLocked) PROVE MovingIsTicked'
  <2>1. running /\ S \subseteq Active(Head(queue))
    BY <1>4, MotorTickCases DEF MotorTick
  <2>2. queue # <<>> /\ 1 \in 1 .. Len(queue) /\ Head(queue) = queue[1]
    BY <1>2, <2>1, LenProperties, EmptySeq DEF Inv, RunningIsQueued
  <2>3. \A m \in Motors : movingAfter(S)[m] => m \in Active(Head(queue))
    BY DEF movingAfter, MovingIsTicked
  <2>4. CASE stillMoving(S)
    <3> DEFINE b == [queue[1] EXCEPT !.left = leftAfter(S)]
    <3>1. queue' = [queue EXCEPT ![1] = b] /\ moving' = movingAfter(S) /\ running'
      BY <1>4, <2>1, <2>4 DEF MotorTick, stillMoving, movingAfter, leftAfter, finished
    <3>2. b \in Blocks /\ b.left = leftAfter(S)
      BY <2>1, <2>2, StepsLeft DEF Blocks
    <3>3. \A m \in Motors : movingAfter(S)[m] => m \in Active(b)
      BY <2>1, <2>3, <3>2, StepsLeft DEF Active
    <3> HIDE DEF b
    <3>4. Head(queue') = b
      BY <1>2, <2>2, <3>1, <3>2, ExceptSeq
    <3>5. \A m \in Motors : moving'[m] => running' /\ m \in Active(Head(queue'))
      BY <3>1, <3>3, <3>4
    <3> QED BY <1>1, <3>5 DEF MovingIsTicked, Active
  <2>5. CASE ~stillMoving(S)
    <3>1. get_next_block(Tail(queue), movingAfter(S), MayBeLocked)
      BY <1>4, <2>5 DEF MotorTick, stillMoving, movingAfter, leftAfter, finished
    <3>2. \A m \in Motors : ~movingAfter(S)[m]
      BY <2>3, <2>5 DEF stillMoving
    <3>3. Tail(queue) \in Seq(Blocks) /\ \A i \in DOMAIN Tail(queue) : Active(Tail(queue)[i]) # {}
      <4>1. /\ Tail(queue) \in Seq(Blocks)
            /\ Len(Tail(queue)) = Len(queue) - 1
            /\ \A i \in 1 .. Len(Tail(queue)) : Tail(queue)[i] = queue[i + 1]
        BY <1>2, <2>2, HeadTailProperties
      <4>2. \A i \in 1 .. Len(Tail(queue)) : i + 1 \in DOMAIN queue
        BY <1>2, <4>1
      <4> QED BY <1>2, <4>1, <4>2
    <3>4. movingAfter(S) \in [Motors -> BOOLEAN]
      BY DEF movingAfter
    <3>5. \A m \in Motors : moving'[m] => running' /\ m \in Active(Head(queue'))
      BY <1>1, <3>1, <3>2, <3>3, <3>4, NextBlockMoving
         DEF get_next_block, FlushAll, NoBlock, StartBlock, HasBlock
    <3> QED BY <1>1, <3>5 DEF MovingIsTicked, Active
  <2> QED BY <2>4, <2>5
<1> QED BY <1>1, <1>3, <1>4 DEF Tick, TickMotors, TickHalted, HaltedTick

LEMMA NextMoving ==
    ASSUME Inv, MovingIsTicked,
           \/ Command \/ Tick \/ UNCHANGED vars
           \/ \E t \in Threads : WriteBack(t)
           \/ \E m \in Stoppable : StopMotor(m)
    PROVE  MovingIsTicked'
<1>1. ASSUME NEW m \in Stoppable, StopMotor(m) PROVE MovingIsTicked'
  BY <1>1, StoppableAssumption DEF StopMotor, MovingIsTicked, Active, Inv, TickTypes
<1>2. CASE UNCHANGED vars
  BY <1>2 DEF vars, tickerVars, MovingIsTicked, Active
<1> QED BY <1>1, <1>2, CommandMoving, TickMoving

(* Until the first halt a motor that moves has steps left in the block     *)
(* that is being ticked, and nobody is in the middle of a broadcast.       *)
MovingUntilHalt == /\ halts \in Nat
                   /\ HaltFree => MovingIsTicked /\ NoBroadcast

LEMMA NextUntilHalt ==
    ASSUME Inv, MovingUntilHalt, [Next]_vars
    PROVE  MovingUntilHalt'
<1>1. ASSUME NEW h \in Halters, NEW on \in BOOLEAN, BroadcastHalt(h, on)
      PROVE  MovingUntilHalt'
  BY <1>1 DEF BroadcastHalt, MovingUntilHalt, HaltFree
<1>2. ASSUME NEW h \in Halters, Broadcast(h) PROVE MovingUntilHalt'
  <2>1. halting[h] # "off" /\ halts' = halts
    BY <1>2 DEF Broadcast, Conveyor_on_halt, Robot_on_halt, Resync
  <2> QED BY <2>1 DEF MovingUntilHalt, HaltFree, NoBroadcast
<1>3. ASSUME \/ Command \/ Tick \/ UNCHANGED vars
             \/ \E t \in Threads : WriteBack(t)
             \/ \E m \in Stoppable : StopMotor(m)
      PROVE  MovingUntilHalt'
  <2>1. UNCHANGED haltVars
    BY <1>3, HaltVarsKept
  <2>2. MovingIsTicked => MovingIsTicked'
    BY <1>3, NextMoving
  <2> QED BY <2>1, <2>2 DEF MovingUntilHalt, HaltFree, NoBroadcast, haltVars
<1> QED BY <1>1, <1>2, <1>3 DEF Next, Proceed, NewBroadcast

(* Until the first halt nothing moves once the queue is empty, wherever    *)
(* the motors stopped: by the step they had left, or at an endstop or a    *)
(* probe.  So flush_queue, which waits for the queue only, may go by the   *)
(* position of the actuators.                                              *)
THEOREM EmptyQueueIsStopped == Spec => []EmptyMeansStopped
<1>1. Init => MovingUntilHalt
  BY InitMoving DEF MovingUntilHalt, Init, NoBroadcast
<1>2. Spec => []MovingUntilHalt
  BY <1>1, NextUntilHalt, Invariance, PTL DEF Spec
<1>3. Inv /\ MovingUntilHalt => EmptyMeansStopped
  BY DEF Inv, TickTypes, RunningIsQueued, MovingUntilHalt, MovingIsTicked, EmptyMeansStopped, Stopped
<1> QED BY <1>2, <1>3, Invariance, PTL

-----------------------------------------------------------------------------
(* A halt by the command thread.                                           *)

InStep == /\ last_milestone = position
          /\ machine_position = Millimeters(position)
          /\ compensated_machine_position = machine_position

(* It is broadcast between two commands, and until it is lifted only an     *)
(* abort is let in; no motor makes a step, for the ticker looks at the flag *)
(* of the Module in every tick.                                            *)
HaltedBetween ==
    module_halted => /\ pc \in {"idle", "flush_wait", "reset"}
                     /\ NoBroadcast => InStep

LEMMA InitBetween == Init => HaltedBetween
BY DEF Init, HaltedBetween

LEMMA CommandBetween ==
    ASSUME HaltedBetween, Command
    PROVE  HaltedBetween'
<1> SUFFICES ASSUME module_halted'
             PROVE  /\ pc' \in {"idle", "flush_wait", "reset"}
                    /\ NoBroadcast' => InStep'
  BY DEF HaltedBetween
<1>1. module_halted' = module_halted /\ position' = position /\ NoBroadcast' = NoBroadcast
  <2>1. UNCHANGED haltVars
    BY HaltVarsKept
  <2>2. module_halted' = module_halted /\ position' = position
    BY DEF Command, CommandLoop, WaitForIdle, WaitQueue, WaitMotors, Dispatch,
       append_line, append_milestone, update_last_milestones, recalculate, queue_head,
       StallAborted, StallRetried, Moved, FlushQueue, FlushWait, Flushed, ResetPosition, tickerVars
  <2> QED BY <2>1, <2>2 DEF NoBroadcast, haltVars
<1>2. module_halted /\ pc \in {"idle", "flush_wait", "reset"} /\ (NoBroadcast => InStep)
  BY <1>1 DEF HaltedBetween
<1>3. \/ CommandLoop \/ FlushQueue \/ FlushWait \/ Flushed \/ ResetPosition
  BY <1>2 DEF Command, WaitForIdle, WaitQueue, WaitMotors, Dispatch, append_line, append_milestone,
     update_last_milestones, recalculate, queue_head, StallAborted, StallRetried, Moved
<1>4. CASE CommandLoop \/ FlushQueue \/ FlushWait \/ Flushed
  <2>1. /\ UNCHANGED <<last_milestone, machine_position, compensated_machine_position>>
        /\ pc' \in {pc, "flush_wait", "reset"}
    BY <1>4 DEF CommandLoop, FlushQueue, FlushWait, Flushed, threadVars, positions
  <2> QED BY <1>1, <1>2, <2>1 DEF InStep, Millimeters
<1>5. CASE ResetPosition
  BY <1>1, <1>5 DEF ResetPosition, reset_position, InStep, Millimeters
<1> QED BY <1>3, <1>4, <1>5

LEMMA NextBetween ==
    ASSUME Halters \subseteq {"command"}, Inv, HaltedBetween, [Next]_vars
    PROVE  HaltedBetween'
<1>0. \A h \in Halters : h = "command" /\ halting \in [Halters -> {"off", "conveyor", "robot", "resync"}]
  BY DEF Inv, HaltTypes
<1>1. CASE Command
  BY <1>1, CommandBetween
<1>2. ASSUME NEW t \in Threads, WriteBack(t)
      PROVE  HaltedBetween'
  BY <1>2 DEF WriteBack, HaltedBetween, NoBroadcast, InStep, Millimeters, threadVars, positions, haltVars
<1>3. ASSUME NEW h \in Halters, Conveyor_on_halt(h) \/ Robot_on_halt(h)
      PROVE  HaltedBetween'
  <2>1. /\ UNCHANGED <<pc, module_halted>>
        /\ halting'[h] # "off"
    BY <1>0, <1>3 DEF Conveyor_on_halt, Robot_on_halt, threadVars
  <2> QED BY <2>1 DEF HaltedBetween, NoBroadcast
<1>4. ASSUME NEW h \in Halters, Resync(h)
      PROVE  HaltedBetween'
  <2>1. /\ UNCHANGED <<pc, module_halted, position>>
        /\ module_halted => reset_position
    BY <1>4 DEF Resync, tickerVars
  <2> QED BY <2>1 DEF HaltedBetween, reset_position, InStep, Millimeters
<1>5. ASSUME NEW h \in Halters, NEW on \in BOOLEAN, BroadcastHalt(h, on)
      PROVE  HaltedBetween'
  <2>1. pc = "idle" /\ pc' = pc
    BY <1>0, <1>5 DEF BroadcastHalt, Broadcasts, threadVars
  <2>2. ~NoBroadcast'
    BY <1>0, <1>5 DEF BroadcastHalt, NoBroadcast
  <2> QED BY <2>1, <2>2 DEF HaltedBetween
<1>6. CASE Tick
  <2>1. UNCHANGED <<module_halted, pc, last_milestone, positions, halting>>
        /\ (module_halted => position' = position)
    <3>1. CASE TickIdle \/ TickHalted
      BY <3>1 DEF TickIdle, IdleTick, TickHalted, HaltedTick, threadVars, haltVars
    <3>2. CASE TickMotors
      BY <3>2 DEF TickMotors, MotorTick, threadVars, haltVars
    <3> QED BY <1>6, <3>1, <3>2 DEF Tick
  <2> QED BY <2>1 DEF HaltedBetween, NoBroadcast, InStep, Millimeters, positions
<1>7. ASSUME NEW m \in Stoppable, StopMotor(m)
      PROVE  HaltedBetween'
  BY <1>7 DEF StopMotor, HaltedBetween, NoBroadcast, InStep, Millimeters, threadVars, positions, haltVars
<1>8. CASE UNCHANGED vars
  BY <1>8 DEF vars, tickerVars, threadVars, positions, haltVars, HaltedBetween, NoBroadcast, InStep,
     Millimeters
<1> QED BY <1>1, <1>2, <1>3, <1>4, <1>5, <1>6, <1>7, <1>8
        DEF Next, Proceed, NewBroadcast, Broadcast

(* When only commands broadcast halts, the robot is where it believes it    *)
(* is, while it is a halt and nothing runs: for any queue and moves, torn   *)
(* writes, aborts in the halt and endstops included.                       *)
THEOREM HaltTakesPosition ==
    ASSUME Halters \subseteq {"command"}
    PROVE  Spec => []HaltResyncs
<1>1. Inv /\ HaltedBetween /\ [Next]_vars => HaltedBetween'
  BY NextBetween
<1>2. HaltedBetween => HaltResyncs
  BY DEF HaltedBetween, HaltResyncs, InStep
<1> QED BY <1>1, <1>2, InitBetween, Invariance, PTL DEF Spec

-----------------------------------------------------------------------------
(* Induction over the natural numbers, with a set for the predicate: what  *)
(* the sums below rest on.                                                 *)

LEMMA NatOrder == IsWellFoundedOn({p \in Nat \X Nat : p[1] < p[2]}, Nat)
BY NatLessThanWellFounded DEF OpToRel

(* A least number of a set.                                                *)
LEMMA Least ==
    ASSUME NEW T, T \subseteq Nat, T # {}
    PROVE  \E x \in T : \A y \in T : x <= y
<1> DEFINE R == {p \in Nat \X Nat : p[1] < p[2]}
<1>1. PICK x \in T : \A y \in T : <<y, x>> \notin R
  <2> HIDE DEF R
  <2>1. IsWellFoundedOn(R, Nat)
    BY NatOrder DEF R
  <2> QED BY <2>1, WFMin
<1>2. ASSUME NEW y \in T PROVE x <= y
  <2>1. <<y, x>> \notin R
    BY <1>1
  <2>2. y \in Nat /\ x \in Nat
    OBVIOUS
  <2> QED BY <2>1, <2>2
<1> QED BY <1>2

(* A set that holds 0 and the successor of each of its numbers.            *)
LEMMA Induction ==
    ASSUME NEW S, 0 \in S, \A n \in Nat : n \in S => n + 1 \in S
    PROVE  Nat \subseteq S
<1> DEFINE T == Nat \ S
<1> SUFFICES ASSUME T # {} PROVE FALSE
  OBVIOUS
<1>1. PICK x \in T : \A y \in T : x <= y
  <2> HIDE DEF T
  <2>1. T \subseteq Nat
    BY DEF T
  <2> QED BY <2>1, Least
<1>2. x # 0 /\ x \in Nat
  OBVIOUS
<1>3. x - 1 \in Nat /\ x - 1 \notin T
  BY <1>1, <1>2
<1>4. x - 1 + 1 \in S
  BY <1>3
<1>5. x - 1 + 1 = x
  BY <1>2
<1> QED BY <1>4, <1>5

-----------------------------------------------------------------------------
(* Sums of sequences of numbers.                                           *)

(* What the recursion of Sum says of the function f.                       *)
Adds(f, s) == f = [n \in 0 .. Len(s) |-> IF n = 0 THEN 0 ELSE f[n - 1] + s[n]]

(* The recursion has a solution.                                           *)
LEMMA SomethingAdds ==
    ASSUME NEW s \in Seq(Int)
    PROVE  \E f \in [0 .. Len(s) -> Int] : Adds(f, s)
<1> DEFINE Upto(n) == \E f \in [0 .. n -> Int] :
                        f = [i \in 0 .. n |-> IF i = 0 THEN 0 ELSE f[i - 1] + s[i]]
           S == {n \in Nat : n <= Len(s) => Upto(n)}
<1> HIDE DEF Upto
<1>1. 0 \in S
  <2> DEFINE f == [i \in 0 .. 0 |-> 0]
  <2>1. f \in [0 .. 0 -> Int] /\ f = [i \in 0 .. 0 |-> IF i = 0 THEN 0 ELSE f[i - 1] + s[i]]
    OBVIOUS
  <2> QED BY <2>1 DEF Upto
<1>2. ASSUME NEW n \in Nat, n \in S PROVE n + 1 \in S
  <2> SUFFICES ASSUME n + 1 <= Len(s) PROVE Upto(n + 1)
    OBVIOUS
  <2>0. Len(s) \in Nat /\ Upto(n)
    BY <1>2
  <2>1. PICK f \in [0 .. n -> Int] : f = [i \in 0 .. n |-> IF i = 0 THEN 0 ELSE f[i - 1] + s[i]]
    BY <2>0 DEF Upto
  <2> DEFINE g == [i \in 0 .. n + 1 |-> IF i <= n THEN f[i] ELSE f[n] + s[n + 1]]
  <2>2. s[n + 1] \in Int
    BY <2>0
  <2>3. g \in [0 .. n + 1 -> Int]
    BY <2>1, <2>2
  <2>4. ASSUME NEW i \in 0 .. n + 1
        PROVE  g[i] = IF i = 0 THEN 0 ELSE g[i - 1] + s[i]
    <3>1. CASE i <= n
      <4>1. i \in 0 .. n /\ (i # 0 => i - 1 \in 0 .. n + 1 /\ i - 1 <= n) BY <3>1
      <4>2. f[i] = IF i = 0 THEN 0 ELSE f[i - 1] + s[i]
        BY <2>1, <4>1
      <4> QED BY <3>1, <4>1, <4>2
    <3>2. CASE i = n + 1
      BY <3>2
    <3> QED BY <3>1, <3>2
  <2>5. g = [i \in 0 .. n + 1 |-> IF i = 0 THEN 0 ELSE g[i - 1] + s[i]]
    BY <2>3, <2>4
  <2> QED BY <2>3, <2>5 DEF Upto
<1>3. Len(s) \in S
  <2> HIDE DEF S
  <2>1. Nat \subseteq S
    BY <1>1, <1>2, Induction
  <2> QED BY <2>1
<1> QED BY <1>3 DEF Adds, Upto

(* and only one.                                                           *)
LEMMA OneAdds ==
    ASSUME NEW s \in Seq(Int), NEW f, NEW g, Adds(f, s), Adds(g, s)
    PROVE  f = g
<1> DEFINE S == {n \in Nat : n <= Len(s) => f[n] = g[n]}
<1>0. Len(s) \in Nat
  OBVIOUS
<1>1. 0 \in S
  <2>1. 0 \in 0 .. Len(s)
    BY <1>0
  <2>2. f[0] = 0 /\ g[0] = 0
    BY <2>1, Zenon DEF Adds
  <2> QED BY <2>2
<1>2. ASSUME NEW n \in Nat, n \in S PROVE n + 1 \in S
  <2> SUFFICES ASSUME n + 1 <= Len(s) PROVE f[n + 1] = g[n + 1]
    OBVIOUS
  <2>1. n + 1 \in 0 .. Len(s) /\ n + 1 # 0 /\ n + 1 - 1 = n
    BY <1>0
  <2>2. f[n + 1] = f[n] + s[n + 1] /\ g[n + 1] = g[n] + s[n + 1]
    <3>1. ASSUME NEW i \in 0 .. Len(s), i # 0 PROVE f[i] = f[i - 1] + s[i] /\ g[i] = g[i - 1] + s[i]
      BY <3>1, Zenon DEF Adds
    <3>2. f[n + 1] = f[n + 1 - 1] + s[n + 1] /\ g[n + 1] = g[n + 1 - 1] + s[n + 1]
      BY <2>1, <3>1
    <3> QED BY <2>1, <3>2
  <2> QED BY <1>0, <1>2, <2>2
<1>3. \A n \in 0 .. Len(s) : f[n] = g[n]
  <2>1. Nat \subseteq S
    <3> HIDE DEF S
    <3> QED BY <1>1, <1>2, Induction
  <2>2. \A n \in 0 .. Len(s) : n \in S /\ n <= Len(s)
    BY <1>0, <2>1
  <2> QED BY <2>2
<1> QED
  <2>1. /\ f = [n \in 0 .. Len(s) |-> IF n = 0 THEN 0 ELSE f[n - 1] + s[n]]
        /\ g = [n \in 0 .. Len(s) |-> IF n = 0 THEN 0 ELSE g[n - 1] + s[n]]
    BY DEF Adds
  <2>2. f = [n \in 0 .. Len(s) |-> f[n]] /\ g = [n \in 0 .. Len(s) |-> g[n]]
    BY <2>1, Zenon
  <2> QED BY <1>3, <2>2, Zenon

(* which is what Sum chooses.                                              *)
LEMMA SumAdds ==
    ASSUME NEW s \in Seq(Int), NEW f, Adds(f, s)
    PROVE  Sum(s) = f[Len(s)] /\ Sum(s) \in Int
<1> DEFINE h == CHOOSE h : h = [n \in 0 .. Len(s) |-> IF n = 0 THEN 0 ELSE h[n - 1] + s[n]]
<1>1. Sum(s) = h[Len(s)]
  BY DEF Sum
<1>2. Adds(h, s)
  BY DEF Adds
<1>3. h = f
  <2> HIDE DEF h
  <2> QED BY <1>2, OneAdds
<1>4. PICK g \in [0 .. Len(s) -> Int] : Adds(g, s)
  BY SomethingAdds
<1>5. f = g
  BY <1>4, OneAdds
<1>6. Len(s) \in 0 .. Len(s)
  OBVIOUS
<1> HIDE DEF h
<1> QED BY <1>1, <1>3, <1>4, <1>5, <1>6

LEMMA SumEmpty == Sum(<<>>) = 0
<1> DEFINE f == [n \in 0 .. 0 |-> 0]
<1>1. <<>> \in Seq(Int) /\ Len(<<>>) = 0
  OBVIOUS
<1>2. Adds(f, <<>>)
  BY <1>1 DEF Adds
<1>3. f[0] = 0
  OBVIOUS
<1> HIDE DEF f
<1> QED BY <1>1, <1>2, <1>3, SumAdds

(* A number more, at the end.                                              *)
LEMMA SumAppend ==
    ASSUME NEW s \in Seq(Int), NEW x \in Int
    PROVE  Sum(Append(s, x)) = Sum(s) + x
<1>1. PICK f \in [0 .. Len(s) -> Int] : Adds(f, s)
  BY SomethingAdds
<1> DEFINE t == Append(s, x)
           g == [n \in 0 .. Len(s) + 1 |-> IF n <= Len(s) THEN f[n] ELSE f[Len(s)] + x]
<1>2. /\ t \in Seq(Int) /\ Len(s) \in Nat /\ Len(t) = Len(s) + 1
      /\ t[Len(s) + 1] = x /\ \A n \in 1 .. Len(s) : t[n] = s[n]
  OBVIOUS
<1> HIDE DEF t
<1>3. ASSUME NEW n \in 0 .. Len(t)
      PROVE  g[n] = IF n = 0 THEN 0 ELSE g[n - 1] + t[n]
  <2>1. CASE n <= Len(s)
    <3>1. n \in 0 .. Len(s) /\ (n # 0 => n - 1 \in 0 .. Len(s) /\ n \in 1 .. Len(s))
      BY <1>2, <2>1
    <3>2. f[n] = IF n = 0 THEN 0 ELSE f[n - 1] + s[n]
      BY <1>1, <3>1 DEF Adds
    <3> QED BY <1>2, <2>1, <3>1, <3>2
  <2>2. CASE n = Len(s) + 1
    BY <1>2, <2>2
  <2> QED BY <1>2, <2>1, <2>2
<1>4. Adds(g, t)
  <2>1. g = [n \in 0 .. Len(t) |-> g[n]]
    BY <1>2
  <2> QED BY <1>3, <2>1 DEF Adds
<1>5. Sum(t) = g[Len(t)] /\ Sum(s) = f[Len(s)]
  <2> HIDE DEF g
  <2> QED BY <1>1, <1>2, <1>4, SumAdds
<1> QED BY <1>2, <1>5 DEF t

(* The first number, and the others.                                       *)
LEMMA SumFirst ==
    ASSUME NEW s \in Seq(Int), s # <<>>
    PROVE  Sum(s) = s[1] + Sum(Tail(s))
<1>1. PICK f \in [0 .. Len(s) -> Int] : Adds(f, s)
  BY SomethingAdds
<1> DEFINE t == Tail(s)
           g == [n \in 0 .. Len(s) - 1 |-> f[n + 1] - s[1]]
<1>2. /\ t \in Seq(Int) /\ Len(s) \in Nat \ {0} /\ Len(t) = Len(s) - 1
      /\ s[1] \in Int /\ \A n \in 1 .. Len(t) : t[n] = s[n + 1] /\ t[n] \in Int
  BY EmptySeq, HeadTailProperties
<1> HIDE DEF t
<1>3. ASSUME NEW n \in 1 .. Len(s)
      PROVE  f[n] = f[n - 1] + s[n] /\ f[n] \in Int
  <2>1. n \in 0 .. Len(s) /\ n # 0
    BY <1>2
  <2>2. f[n] = f[n - 1] + s[n]
    BY <1>1, <2>1, Zenon DEF Adds
  <2> QED BY <1>1, <2>1, <2>2
<1>4. f[0] = 0 /\ f[1] = s[1]
  BY <1>1, <1>2, <1>3 DEF Adds
<1>5. ASSUME NEW n \in 0 .. Len(t)
      PROVE  g[n] = IF n = 0 THEN 0 ELSE g[n - 1] + t[n]
  <2>1. CASE n = 0
    BY <1>2, <1>4, <2>1
  <2>2. CASE n # 0
    <3>1. f[n + 1] = f[n] + s[n + 1] /\ f[n] \in Int
      BY <1>2, <1>3, <2>2
    <3>2. t[n] = s[n + 1] /\ t[n] \in Int /\ g[n] = f[n + 1] - s[1] /\ g[n - 1] = f[n] - s[1]
      BY <1>2, <2>2
    <3> QED BY <1>2, <2>2, <3>1, <3>2
  <2> QED BY <2>1, <2>2
<1>6. Adds(g, t)
  <2>1. g = [n \in 0 .. Len(t) |-> g[n]]
    BY <1>2
  <2> QED BY <1>5, <2>1 DEF Adds
<1>7. Sum(t) = g[Len(t)] /\ Sum(s) = f[Len(s)]
  <2> HIDE DEF g
  <2> QED BY <1>1, <1>2, <1>6, SumAdds
<1>8. g[Len(t)] = f[Len(s)] - s[1] /\ f[Len(s)] \in Int
  BY <1>1, <1>2
<1> QED BY <1>2, <1>7, <1>8 DEF t

-----------------------------------------------------------------------------
(* What a queue owes.                                                      *)

LEMMA OwesType ==
    ASSUME NEW b \in Blocks, NEW m \in Motors
    PROVE  /\ Owes(b, m) \in Int
           /\ Owes(b, m) = IF b.steps[m] < 0 THEN -b.left[m] ELSE b.left[m]
           /\ b.left[m] \in Nat
<1>1. b.left[m] \in Nat /\ b.steps[m] \in Int
  BY DEF Blocks
<1>2. CASE b.steps[m] < 0
  BY <1>1, <1>2 DEF Owes, Direction
<1>3. CASE ~(b.steps[m] < 0)
  BY <1>1, <1>3 DEF Owes, Direction
<1> QED BY <1>2, <1>3

(* A block owes the steps it was made for.                                 *)
LEMMA BlockOwes ==
    ASSUME NEW s \in [Motors -> Int], NEW m \in Motors
    PROVE  Owes(Block(s), m) = s[m]
<1>1. Block(s) \in Blocks
  BY BlockOfSteps
<1>2. Block(s).steps[m] = s[m] /\ Block(s).left[m] = IF s[m] < 0 THEN -s[m] ELSE s[m]
  BY DEF Block
<1>3. s[m] \in Int
  OBVIOUS
<1> QED BY <1>1, <1>2, <1>3, OwesType

LEMMA OwedEmpty == \A m : Owed(<<>>, m) = 0
<1> TAKE m
<1>1. [i \in DOMAIN <<>> |-> Owes(<<>>[i], m)] = <<>>
  OBVIOUS
<1> QED BY <1>1, SumEmpty DEF Owed

LEMMA OwedType ==
    ASSUME NEW q \in Seq(Blocks), NEW m \in Motors
    PROVE  /\ [i \in DOMAIN q |-> Owes(q[i], m)] \in Seq(Int)
           /\ Owed(q, m) \in Int
<1> DEFINE d == [i \in DOMAIN q |-> Owes(q[i], m)]
<1>1. d \in [1 .. Len(q) -> Int] /\ Len(q) \in Nat
  <2>1. \A i \in 1 .. Len(q) : q[i] \in Blocks
    OBVIOUS
  <2> QED BY <2>1, OwesType
<1>2. d \in Seq(Int)
  BY <1>1, SeqDef
<1>3. PICK f \in [0 .. Len(d) -> Int] : Adds(f, d)
  BY <1>2, SomethingAdds
<1> HIDE DEF d
<1>4. Sum(d) \in Int
  BY <1>2, <1>3, SumAdds
<1> QED BY <1>2, <1>4 DEF d, Owed

LEMMA OwedAppend ==
    ASSUME NEW q \in Seq(Blocks), NEW b \in Blocks, NEW m \in Motors
    PROVE  Owed(Append(q, b), m) = Owed(q, m) + Owes(b, m)
<1> DEFINE d == [i \in DOMAIN q |-> Owes(q[i], m)]
           e == [i \in DOMAIN Append(q, b) |-> Owes(Append(q, b)[i], m)]
<1>1. e = Append(d, Owes(b, m))
  <2>1. /\ Len(q) \in Nat /\ DOMAIN q = 1 .. Len(q) /\ Len(d) = Len(q)
        /\ DOMAIN Append(q, b) = 1 .. Len(q) + 1
        /\ Append(q, b)[Len(q) + 1] = b
        /\ \A i \in 1 .. Len(q) : Append(q, b)[i] = q[i]
    BY OwedType
  <2>2. d \in Seq(Int) /\ Owes(b, m) \in Int
    BY OwedType, OwesType
  <2>3. Append(d, Owes(b, m)) = [i \in 1 .. Len(q) + 1 |-> IF i <= Len(q) THEN d[i] ELSE Owes(b, m)]
    BY <2>1, <2>2
  <2>4. e = [i \in 1 .. Len(q) + 1 |-> IF i <= Len(q) THEN d[i] ELSE Owes(b, m)]
    BY <2>1
  <2> QED BY <2>3, <2>4
<1>2. d \in Seq(Int) /\ Owes(b, m) \in Int
  BY OwedType, OwesType
<1> HIDE DEF d, e
<1>3. Sum(e) = Sum(d) + Owes(b, m)
  BY <1>1, <1>2, SumAppend
<1> QED BY <1>3 DEF d, e, Owed

(* Only the first block of a queue differs from q, or is not in it.        *)
LEMMA OwedFirst ==
    ASSUME NEW q \in Seq(Blocks), q # <<>>, NEW b \in Blocks, NEW m \in Motors
    PROVE  Owed([q EXCEPT ![1] = b], m) = Owes(b, m) + Owed(Tail(q), m)
<1> DEFINE p == [q EXCEPT ![1] = b]
           d == [i \in DOMAIN p |-> Owes(p[i], m)]
           e == [i \in DOMAIN Tail(q) |-> Owes(Tail(q)[i], m)]
<1>1. /\ Len(q) \in Nat \ {0} /\ p \in Seq(Blocks) /\ Len(p) = Len(q)
      /\ p[1] = b /\ \A i \in 1 .. Len(q) : i # 1 => p[i] = q[i]
  BY EmptySeq
<1>2. /\ Tail(q) \in Seq(Blocks) /\ Len(Tail(q)) = Len(q) - 1
      /\ \A i \in 1 .. Len(Tail(q)) : Tail(q)[i] = q[i + 1]
  BY HeadTailProperties
<1> HIDE DEF p
<1>3. d \in Seq(Int) /\ Len(d) = Len(q) /\ DOMAIN d = 1 .. Len(q) /\ d # <<>>
  BY <1>1, OwedType
<1>4. d[1] = Owes(b, m)
  BY <1>1
<1>5. Tail(d) = e
  <2>1. Tail(d) = [i \in 1 .. Len(q) - 1 |-> d[i + 1]]
    BY <1>3
  <2>2. \A i \in 1 .. Len(q) - 1 : d[i + 1] = e[i]
    BY <1>1, <1>2
  <2>3. e = [i \in 1 .. Len(q) - 1 |-> e[i]]
    BY <1>2
  <2> QED BY <2>1, <2>2, <2>3
<1> HIDE DEF d, e
<1>6. Sum(d) = Owes(b, m) + Sum(e)
  BY <1>3, <1>4, <1>5, SumFirst
<1> QED BY <1>6 DEF p, d, e, Owed

-----------------------------------------------------------------------------
(* Nothing is lost.                                                        *)

(* Until the first halt the command thread alone writes the flags, the     *)
(* queue is dropped for an abort only, and an endstop may stop a motor     *)
(* only in a move that ends with the position taken from the actuators.    *)
OwnFlags ==
    /\ ~robot_halted
    /\ \A t \in Threads : held[t] # NotHeld =>
          t = "command" /\ (held[t][2] => pc = "flush_wait")
    /\ flush => pc = "flush_wait" \/ (pc = "reset" /\ held["command"] # NotHeld)

EmptyBefore == /\ pc \in {"wait_motors", "reset"} => queue = <<>>
               /\ homing => pc \notin {"idle", "flush_wait"}

AllActiveMove == running /\ ~homing => \A m \in Active(Head(queue)) : moving[m]

(* The last milestone is where the segments that were appended end, to the *)
(* nearest step; and the robot is at the end of the last one, when it is   *)
(* done with the line.                                                     *)
Planned == {"recalculate", "queue", "stalled", "moved"}

Milestones ==
    /\ pc = "update" => planned = steps_to_target(Head(path))
    /\ last_milestone = Steps(IF pc \in Planned THEN Head(path) ELSE compensated_machine_position)
    /\ pc \in {"idle", "wait", "wait_motors", "flush_wait", "reset"} => ~moved
    /\ ~moved => machine_position = compensated_machine_position
    /\ pc \in Planned \cup {"line", "milestone", "update"} =>
         IF path = <<>> THEN compensated_machine_position = target ELSE target = path[Len(path)]

Ledger == /\ OwnFlags /\ EmptyBefore /\ AllActiveMove /\ Milestones
          /\ ~homing /\ pc \notin {"flush_wait", "reset"} => \A m \in Motors : Balanced(m)

LedgerInv == HaltFree => Ledger

LEMMA InitLedger == Init => LedgerInv
<1> SUFFICES ASSUME Init PROVE Ledger
  BY DEF LedgerInv
<1>1. OwnFlags /\ EmptyBefore /\ AllActiveMove
  BY DEF Init, OwnFlags, EmptyBefore, AllActiveMove
<1>2. Milestones
  <2>1. Steps(AtRest) = AtRest
    <3>1. Round(0) = 0
      BY DEF Round
    <3> QED BY <3>1 DEF Steps, AtRest
  <2> QED BY <2>1 DEF Init, Milestones, Planned
<1>3. ASSUME NEW m \in Motors PROVE Balanced(m)
  <2>1. Owed(queue, m) = 0
    BY OwedEmpty DEF Init
  <2>2. last_milestone[m] = 0 /\ position[m] = 0 /\ pc = "idle"
    BY DEF Init, AtRest
  <2> QED BY <2>1, <2>2 DEF Balanced
<1> QED BY <1>1, <1>2, <1>3 DEF Ledger

(* The actuators' position in millimeters, and back.                       *)
LEMMA StepsOfMillimeters ==
    ASSUME NEW p \in [Motors -> Int]
    PROVE  Steps(Millimeters(p)) = p
<1>1. ASSUME NEW n \in Int PROVE Round(2 * n) = n
  <2>1. CASE n < 0
    <3>1. (1 - 2 * n) \div 2 = -n
      BY <2>1
    <3> QED BY <2>1, <3>1 DEF Round
  <2>2. CASE ~(n < 0)
    <3>1. (2 * n + 1) \div 2 = n
      BY <2>2
    <3> QED BY <2>2, <3>1 DEF Round
  <2> QED BY <2>1, <2>2
<1>2. \A m \in Motors : Steps(Millimeters(p))[m] = p[m]
  BY <1>1 DEF Steps, Millimeters
<1> QED BY <1>2 DEF Steps

(* A step that leaves the ledger alone.                                    *)
LEMMA BalanceKept ==
    ASSUME Ledger, UNCHANGED <<queue, position, last_milestone, planned, homing>>,
           pc' \in {"recalculate", "queue", "stalled"} <=> pc \in {"recalculate", "queue", "stalled"},
           pc \in {"flush_wait", "reset"} => pc' \in {"flush_wait", "reset"}
    PROVE  ~homing' /\ pc' \notin {"flush_wait", "reset"} => \A m \in Motors : Balanced(m)'
BY DEF Ledger, Balanced

LEMMA FlagsLedger ==
    ASSUME OwnFlags, FlagTypes, NEW a, NEW f \in BOOLEAN, NEW h,
           WriteFlags("command", a, f, h), robot_halted' = robot_halted,
           f => pc' = "flush_wait", held["command"] = NotHeld,
           flush => pc' = "flush_wait" \/ (~f /\ pc' = "reset")
    PROVE  OwnFlags'
<1>1. "command" \in Threads /\ held \in [Threads -> Flags]
  BY DEF Threads, FlagTypes
<1>2. CASE AtomicFlags
  BY <1>1, <1>2 DEF WriteFlags, OwnFlags
<1>3. CASE ~AtomicFlags
  <2>1. held' = [held EXCEPT !["command"] = <<a, f, h>>] /\ flush' = flush
    BY <1>3 DEF WriteFlags, conveyorVars
  <2>2. <<a, f, h>> # NotHeld
    BY DEF NotHeld
  <2> QED BY <1>1, <2>1, <2>2 DEF OwnFlags
<1> QED BY <1>2, <1>3

LEMMA CheckLedger ==
    ASSUME OwnFlags, FlagTypes, NEW force, NEW waited, check_queue(force, waited),
           held["command"] = NotHeld, robot_halted' = robot_halted,
           pc = "flush_wait" => pc' = "flush_wait"
    PROVE  OwnFlags'
<1>1. flush \in BOOLEAN /\ (flush => pc' = "flush_wait")
  BY DEF OwnFlags, FlagTypes
<1>2. CASE WriteFlags("command", FALSE, flush, conveyor_halted)
  BY <1>1, <1>2, FlagsLedger
<1>3. CASE WriteFlags("command", TRUE, flush, conveyor_halted)
  BY <1>1, <1>3, FlagsLedger
<1>4. CASE UNCHANGED <<conveyorVars, held>>
  BY <1>1, <1>4 DEF conveyorVars, OwnFlags
<1> QED BY <1>2, <1>3, <1>4 DEF check_queue

(* What the command thread does with the conveyor.                         *)
LEMMA ConveyorLedger ==
    ASSUME Inv, Ledger,
           CommandLoop \/ WaitQueue \/ StallRetried \/ FlushQueue \/ FlushWait \/ Flushed
    PROVE  Ledger'
<1>0. /\ held["command"] = NotHeld /\ robot_halted' = robot_halted
      /\ UNCHANGED <<queue, running, moving, position, lineVars, path, planned, last_milestone, positions>>
  BY DEF CommandLoop, WaitQueue, StallRetried, FlushQueue, FlushWait, Flushed, CommandMayRun,
         threadVars, haltVars
<1>1. OwnFlags'
  <2>1. CASE CommandLoop
    BY <1>0, <2>1, CheckLedger DEF CommandLoop, threadVars, Inv, Ledger
  <2>2. CASE WaitQueue
    <3>1. CASE queue = <<>>
      BY <1>0, <2>2, <3>1 DEF WaitQueue, conveyorVars, Ledger, OwnFlags
    <3>2. CASE queue # <<>>
      BY <1>0, <2>2, <3>2, CheckLedger DEF WaitQueue, Inv, Ledger
    <3> QED BY <3>1, <3>2
  <2>3. CASE StallRetried
    BY <1>0, <2>3, CheckLedger DEF StallRetried, Inv, Ledger
  <2>4. CASE FlushQueue
    BY <1>0, <2>4, FlagsLedger DEF FlushQueue, Inv, Ledger
  <2>5. CASE FlushWait
    BY <1>0, <2>5, CheckLedger DEF FlushWait, threadVars, Inv, Ledger
  <2>6. CASE Flushed
    BY <1>0, <2>6, FlagsLedger DEF Flushed, Inv, Ledger, OwnFlags
  <2> QED BY <2>1, <2>2, <2>3, <2>4, <2>5, <2>6
<1>2. EmptyBefore' /\ AllActiveMove'
  <2>1. EmptyBefore'
    BY <1>0 DEF Ledger, EmptyBefore, lineVars, threadVars,
                CommandLoop, WaitQueue, StallRetried, FlushQueue, FlushWait, Flushed
  <2>2. AllActiveMove'
    BY <1>0 DEF Ledger, AllActiveMove, Active, lineVars
  <2> QED BY <2>1, <2>2
<1>3. Milestones'
  BY <1>0 DEF Ledger, Milestones, Planned, Steps, steps_to_target, lineVars, positions, threadVars,
              CommandLoop, WaitQueue, StallRetried, FlushQueue, FlushWait, Flushed
<1>4. /\ pc' \in {"recalculate", "queue", "stalled"} <=> pc \in {"recalculate", "queue", "stalled"}
      /\ pc \in {"flush_wait", "reset"} => pc' \in {"flush_wait", "reset"}
  BY DEF CommandLoop, WaitQueue, StallRetried, FlushQueue, FlushWait, Flushed, threadVars
<1>5. ~homing' /\ pc' \notin {"flush_wait", "reset"} => \A m \in Motors : Balanced(m)'
  BY <1>0, <1>4, BalanceKept DEF lineVars
<1> QED BY <1>1, <1>2, <1>3, <1>5 DEF Ledger

(* Actions that touch neither the queue nor the motors.                    *)
LEMMA RobotOwnFlags ==
    ASSUME Ledger, UNCHANGED <<tickerVars, haltVars, held>>, pc \notin {"flush_wait", "reset"},
           CommandMayRun
    PROVE  OwnFlags'
BY DEF tickerVars, haltVars, Ledger, OwnFlags, CommandMayRun

LEMMA LineLedger ==
    ASSUME Inv, Ledger, ~module_halted,
           \/ WaitForIdle \/ WaitMotors \/ append_line
           \/ \E line \in Lines : Dispatch(line)
    PROVE  Ledger'
<1>0. /\ UNCHANGED <<tickerVars, planned, last_milestone, compensated_machine_position, haltVars, held>>
      /\ pc \in {"idle", "wait_motors", "line"} /\ CommandMayRun
  BY DEF WaitForIdle, WaitMotors, Dispatch, append_line, positions, lineVars
<1>1. OwnFlags'
  BY <1>0, RobotOwnFlags
<1>2. EmptyBefore'
  <2>1. CASE WaitForIdle
    BY <1>0, <2>1 DEF WaitForIdle, Ledger, EmptyBefore, lineVars, tickerVars
  <2>2. CASE WaitMotors
    BY <1>0, <2>2 DEF WaitMotors, is_idle, EmptyBefore, tickerVars
  <2>3. CASE append_line
    BY <1>0, <2>3 DEF append_line, EmptyBefore, tickerVars
  <2>4. ASSUME NEW line \in Lines, Dispatch(line) PROVE EmptyBefore'
    BY <2>4 DEF Dispatch, EmptyBefore
  <2> QED BY <2>1, <2>2, <2>3, <2>4
<1>3. AllActiveMove'
  <2>1. running /\ ~homing' => ~homing
    BY DEF WaitForIdle, WaitMotors, Dispatch, append_line, is_idle, Inv, RunningIsQueued,
           Ledger, EmptyBefore, lineVars
  <2> QED BY <1>0, <2>1 DEF Ledger, AllActiveMove, Active, tickerVars
<1>4. Milestones'
  <2>1. CASE WaitForIdle \/ WaitMotors
    BY <1>0, <2>1 DEF WaitForIdle, WaitMotors, Ledger, Milestones, Planned, Steps, lineVars, positions
  <2>2. ASSUME NEW line \in Lines, Dispatch(line) PROVE Milestones'
    <3>1. line # <<>>
      BY LinesAssumption
    <3> QED BY <1>0, <2>2, <3>1 DEF Dispatch, Ledger, Milestones, Planned, Steps, positions
  <2>3. CASE append_line
    <3>1. ~robot_halted
      BY DEF Ledger, OwnFlags
    <3> QED BY <1>0, <2>3, <3>1 DEF append_line, Ledger, Milestones, Planned, Steps
  <2> QED BY <2>1, <2>2, <2>3
<1>5. ~homing' /\ pc' \notin {"flush_wait", "reset"} => \A m \in Motors : Balanced(m)'
  <2>1. pc' \notin {"recalculate", "queue", "stalled"}
    BY DEF WaitForIdle, WaitMotors, Dispatch, append_line
  <2>2. ~homing' => ~homing
    <3>1. CASE WaitMotors
      BY <3>1 DEF WaitMotors, Inv, ThreadTypes
    <3>2. CASE WaitForIdle \/ append_line
      BY <3>2 DEF WaitForIdle, append_line, lineVars
    <3>3. ASSUME NEW line \in Lines, Dispatch(line) PROVE ~homing
      BY <3>3 DEF Dispatch, Ledger, EmptyBefore
    <3> QED BY <3>1, <3>2, <3>3
  <2>3. ~homing' => \A m \in Motors : Balanced(m)
    BY <1>0, <2>2 DEF Ledger
  <2> QED BY <1>0, <2>1, <2>3 DEF Balanced, tickerVars
<1> QED BY <1>1, <1>2, <1>3, <1>4, <1>5 DEF Ledger

(* From a segment to its block.                                            *)
LEMMA SegmentLedger ==
    ASSUME Inv, Ledger, append_milestone \/ update_last_milestones \/ recalculate \/ Moved
    PROVE  Ledger'
<1>0. /\ UNCHANGED <<tickerVars, homing, target, haltVars, held>>
      /\ pc \notin {"idle", "wait_motors", "flush_wait", "reset"} /\ CommandMayRun
      /\ pc' \notin {"idle", "wait_motors", "flush_wait", "reset"}
  BY DEF append_milestone, update_last_milestones, recalculate, Moved, lineVars
<1>1. OwnFlags' /\ EmptyBefore' /\ AllActiveMove'
  <2>1. OwnFlags'
    BY <1>0, RobotOwnFlags
  <2> QED BY <1>0, <2>1 DEF Ledger, EmptyBefore, AllActiveMove, Active, tickerVars
<1>2. path # <<>> /\ path \in Seq([Motors -> Int]) /\ Head(path) = path[1]
  BY DEF Inv, SegmentLeft, ThreadTypes, append_milestone, update_last_milestones, recalculate, Moved
<1>3. /\ Tail(path) = <<>> => Head(path) = path[Len(path)]
      /\ Tail(path) # <<>> => Tail(path)[Len(Tail(path))] = path[Len(path)]
  <2> DEFINE t == Tail(path)
  <2>1. Len(path) \in Nat \ {0}
    BY <1>2, EmptySeq
  <2>2. /\ t \in Seq([Motors -> Int]) /\ Len(t) = Len(path) - 1
        /\ \A i \in 1 .. Len(t) : t[i] = path[i + 1]
    BY <1>2, HeadTailProperties
  <2> HIDE DEF t
  <2>3. t = <<>> => path[Len(path)] = path[1]
    <3>1. t = <<>> => Len(t) = 0
      BY <2>2, EmptySeq
    <3>2. Len(t) = Len(path) - 1
      BY <2>2
    <3>3. Len(t) = 0 => Len(path) = 1
      BY <2>1, <3>2
    <3> QED BY <3>1, <3>3
  <2>4. t # <<>> => t[Len(t)] = path[Len(path)]
    <3>1. t # <<>> => Len(t) \in 1 .. Len(t) /\ Len(t) + 1 = Len(path)
      BY <2>1, <2>2, EmptySeq
    <3> QED BY <2>2, <3>1
  <2> QED BY <1>2, <2>3, <2>4 DEF t
<1>4. CASE append_milestone
  <2>1. Milestones'
    BY <1>2, <1>3, <1>4 DEF append_milestone, Ledger, Milestones, Planned, Steps, steps_to_target,
       lineVars, positions
  <2>2. \A m \in Motors : Balanced(m) => Balanced(m)'
    BY <1>0, <1>4 DEF append_milestone, Balanced, tickerVars
  <2> QED BY <1>0, <1>1, <2>1, <2>2 DEF Ledger
<1>5. CASE update_last_milestones
  <2>1. planned = steps_to_target(Head(path)) /\ last_milestone \in [Motors -> Int]
    BY <1>5 DEF update_last_milestones, Ledger, Milestones, Inv, ThreadTypes
  <2>2. last_milestone' = Steps(Head(path))
    <3>1. \A m \in Motors : Round(Head(path)[m]) \in Int
      <4>1. Head(path) \in [Motors -> Int]
        BY <1>2, HeadTailProperties
      <4> QED BY <4>1, RoundType
    <3>2. last_milestone' = [m \in Motors |-> last_milestone[m] + planned[m]]
      BY <1>5 DEF update_last_milestones
    <3>3. ASSUME NEW m \in Motors
          PROVE  last_milestone[m] + planned[m] = Round(Head(path)[m])
      <4>1. planned[m] = Round(Head(path)[m]) - last_milestone[m]
        BY <2>1 DEF steps_to_target
      <4>2. Round(Head(path)[m]) \in Int /\ last_milestone[m] \in Int
        BY <2>1, <3>1
      <4> QED BY <4>1, <4>2
    <3> QED BY <3>2, <3>3 DEF Steps
  <2>3. Milestones'
    BY <1>5, <2>2 DEF update_last_milestones, Ledger, Milestones, Planned, Steps, lineVars, positions
  <2>4. ASSUME NEW m \in Motors, Balanced(m) PROVE Balanced(m)'
    <3>1. last_milestone'[m] = last_milestone[m] + planned[m] /\ planned' = planned
      BY <1>5 DEF update_last_milestones
    <3>2. planned[m] \in Int /\ last_milestone[m] \in Int /\ position[m] \in Int
      BY DEF Inv, ThreadTypes, TickTypes
    <3>3. Owed(queue, m) \in Int /\ queue' = queue /\ position' = position
      BY <1>0, OwedType DEF Inv, QueueTypes, tickerVars
    <3>4. last_milestone[m] - position[m] = Owed(queue, m)
      BY <1>5, <2>4, <3>3 DEF update_last_milestones, Balanced
    <3>5. pc' = IF planned = AtRest THEN "moved" ELSE "recalculate"
      BY <1>5 DEF update_last_milestones
    <3>6. planned = AtRest => planned[m] = 0
      BY DEF AtRest
    <3> QED BY <3>1, <3>2, <3>3, <3>4, <3>5, <3>6 DEF Balanced
  <2> QED BY <1>0, <1>1, <2>3, <2>4 DEF Ledger
<1>6. CASE recalculate
  <2>1. Milestones'
    BY <1>6 DEF recalculate, Ledger, Milestones, Planned, Steps, lineVars, positions
  <2>2. \A m \in Motors : Balanced(m) => Balanced(m)'
    BY <1>0, <1>6 DEF recalculate, Balanced, tickerVars
  <2> QED BY <1>0, <1>1, <2>1, <2>2 DEF Ledger
<1>7. CASE Moved
  <2>1. Milestones'
    BY <1>2, <1>3, <1>7 DEF Moved, Ledger, Milestones, Planned, Steps
  <2>2. \A m \in Motors : Balanced(m) => Balanced(m)'
    BY <1>0, <1>7 DEF Moved, Balanced, tickerVars
  <2> QED BY <1>0, <1>1, <2>1, <2>2 DEF Ledger
<1> QED BY <1>4, <1>5, <1>6, <1>7

(* The block is queued, with all the steps that were planned.              *)
LEMMA CommitLedger == ASSUME Inv, Ledger, queue_head PROVE Ledger'
<1>0. /\ UNCHANGED <<allow_fetch, flush, conveyor_halted, running, moving, position, lineVars, path,
                     last_milestone, positions, haltVars, held>>
      /\ CommandMayRun /\ pc = "queue" /\ pc' \in {"stalled", "moved"}
  BY DEF queue_head
<1>1. OwnFlags' /\ EmptyBefore'
  BY <1>0 DEF Ledger, OwnFlags, EmptyBefore, CommandMayRun, haltVars, lineVars
<1>2. Milestones'
  BY <1>0 DEF Ledger, Milestones, Planned, Steps, lineVars, positions
<1>3. CASE full
  <2>1. queue' = queue /\ planned' = planned /\ pc' = "stalled"
    BY <1>3 DEF queue_head
  <2>2. AllActiveMove'
    BY <1>0, <2>1 DEF Ledger, AllActiveMove, Active, lineVars
  <2>3. \A m \in Motors : Balanced(m) => Balanced(m)'
    BY <1>0, <2>1 DEF Balanced
  <2> QED BY <1>0, <1>1, <1>2, <2>2, <2>3 DEF Ledger, lineVars
<1>4. CASE ~full
  <2>1. queue' = Append(queue, Block(planned)) /\ pc' = "moved"
    BY <1>4 DEF queue_head
  <2>2. queue \in Seq(Blocks) /\ planned \in [Motors -> Int] /\ Block(planned) \in Blocks
    BY BlockOfSteps DEF Inv, QueueTypes, ThreadTypes
  <2>3. running => Head(queue') = Head(queue)
    <3>1. running => Len(queue) \in Nat \ {0}
      BY <2>2, EmptySeq DEF Inv, RunningIsQueued
    <3>2. running => Append(queue, Block(planned))[1] = queue[1]
      BY <2>2, <3>1, AppendProperties
    <3>3. Append(queue, Block(planned)) # <<>> /\ Append(queue, Block(planned)) \in Seq(Blocks)
      BY <2>2, AppendProperties
    <3> QED BY <2>1, <2>2, <3>1, <3>2, <3>3
  <2>4. AllActiveMove'
    BY <1>0, <2>3 DEF Ledger, AllActiveMove, Active, lineVars
  <2>5. ASSUME NEW m \in Motors, Balanced(m) PROVE Balanced(m)'
    <3>1. Owed(queue', m) = Owed(queue, m) + planned[m]
      BY <2>1, <2>2, OwedAppend, BlockOwes
    <3>2. last_milestone[m] - position[m] = Owed(queue, m) + planned[m]
      BY <1>0, <2>5 DEF Balanced
    <3>3. Owed(queue, m) \in Int /\ planned[m] \in Int
      BY <2>2, OwedType
    <3> QED BY <1>0, <2>1, <3>1, <3>2, <3>3 DEF Balanced
  <2> QED BY <1>0, <1>1, <1>2, <2>4, <2>5 DEF Ledger, lineVars
<1> QED BY <1>3, <1>4

(* The position is taken from the actuators, with nothing left to do.      *)
LEMMA ResetLedger == ASSUME Inv, Ledger, ResetPosition PROVE Ledger'
<1>0. /\ UNCHANGED <<tickerVars, moved, haltVars, held>> /\ CommandMayRun
      /\ pc = "reset" /\ pc' = "idle" /\ reset_position /\ homing' = FALSE
  BY DEF ResetPosition
<1>1. queue = <<>> /\ ~running /\ position \in [Motors -> Int]
  BY <1>0 DEF Ledger, EmptyBefore, Inv, RunningIsQueued, TickTypes
<1>2. OwnFlags'
  BY <1>0 DEF Ledger, OwnFlags, CommandMayRun, tickerVars, haltVars
<1>3. EmptyBefore' /\ AllActiveMove'
  BY <1>0, <1>1 DEF EmptyBefore, AllActiveMove, tickerVars
<1>4. Milestones'
  <2>1. Steps(compensated_machine_position') = position
    BY <1>0, <1>1, StepsOfMillimeters DEF reset_position
  <2>2. ~moved
    BY <1>0 DEF Ledger, Milestones
  <2> QED BY <1>0, <2>1, <2>2 DEF reset_position, Milestones, Planned
<1>5. ASSUME NEW m \in Motors PROVE Balanced(m)'
  <2>1. Owed(queue', m) = 0
    BY <1>0, <1>1, OwedEmpty DEF tickerVars
  <2>2. last_milestone' = position /\ position' = position /\ position[m] \in Int
    BY <1>0, <1>1 DEF reset_position, tickerVars
  <2> QED BY <1>0, <2>1, <2>2 DEF Balanced
<1> QED BY <1>2, <1>3, <1>4, <1>5 DEF Ledger

LEMMA CommandLedger ==
    ASSUME Inv, Ledger, ~module_halted, Command
    PROVE  Ledger'
<1>1. ~StallAborted
  BY DEF StallAborted
<1> QED BY <1>1, ConveyorLedger, LineLedger, SegmentLedger, CommitLedger, ResetLedger DEF Command

LEMMA WriteBackLedger ==
    ASSUME Inv, Ledger, NEW t \in Threads, WriteBack(t)
    PROVE  Ledger'
<1>1. t = "command" /\ held \in [Threads -> Flags] /\ held[t] # NotHeld
      /\ (held[t][2] => pc = "flush_wait")
  BY DEF WriteBack, Ledger, OwnFlags, Inv, FlagTypes
<1>2. OwnFlags'
  <2>1. /\ flush' = held[t][2] /\ held' = [held EXCEPT ![t] = NotHeld]
        /\ UNCHANGED <<pc, robot_halted>>
    BY DEF WriteBack, threadVars, haltVars
  <2> QED BY <1>1, <2>1 DEF Ledger, OwnFlags
<1>3. EmptyBefore' /\ AllActiveMove' /\ Milestones'
  BY DEF WriteBack, Ledger, EmptyBefore, AllActiveMove, Milestones, Planned, Steps, steps_to_target,
         Active, threadVars, lineVars, positions
<1>4. \A m \in Motors : Balanced(m) => Balanced(m)'
  BY DEF WriteBack, Balanced, threadVars
<1> QED BY <1>2, <1>3, <1>4 DEF Ledger, WriteBack, threadVars, lineVars

(* An endstop or a probe.                                                  *)
LEMMA StopLedger ==
    ASSUME Inv, Ledger, NEW m \in Stoppable, StopMotor(m)
    PROVE  Ledger'
<1>1. homing /\ UNCHANGED <<queue, flush, running, position, threadVars, haltVars, held>>
  BY DEF StopMotor
<1> QED BY <1>1 DEF Ledger, OwnFlags, EmptyBefore, AllActiveMove, Milestones, Planned, Steps,
                    steps_to_target, threadVars, lineVars, positions, haltVars

(* The interrupt drops the queue for an abort only, and starts all the     *)
(* motors that have steps to make.                                         *)
LEMMA NextBlockLedger ==
    ASSUME NEW q \in Seq(Blocks), \A i \in DOMAIN q : Active(q[i]) # {},
           NEW mov \in [Motors -> BOOLEAN], NEW locked, get_next_block(q, mov, locked)
    PROVE  /\ flush' => flush
           /\ queue' = q \/ (queue' = <<>> /\ flush)
           /\ running' => \A m \in Active(Head(queue')) : moving'[m]
<1>1. CASE FlushAll /\ running' = FALSE
  BY <1>1 DEF FlushAll
<1>2. CASE NoBlock(q, locked) /\ running' = FALSE
  BY <1>2 DEF NoBlock
<1>3. CASE StartBlock(q, mov)
  <2>1. q # <<>>
    BY <1>3 DEF StartBlock, HasBlock
  <2>2. Active(Head(q)) # {}
    BY <2>1, HeadTailProperties
  <2>3. /\ queue' = q /\ flush' = flush
        /\ moving' = [m \in Motors |-> mov[m] \/ m \in Active(Head(q))]
    BY <1>3, <2>2 DEF StartBlock
  <2> QED BY <2>3 DEF Active
<1> QED BY <1>1, <1>2, <1>3 DEF get_next_block

(* What a tick leaves alone.                                               *)
LEMMA TickLeaves ==
    ASSUME Ledger, UNCHANGED <<threadVars, haltVars, held>>, flush' => flush
    PROVE  OwnFlags' /\ Milestones'
<1>1. OwnFlags'
  BY DEF Ledger, OwnFlags, threadVars, haltVars
<1>2. Milestones'
  BY DEF Ledger, Milestones, Planned, Steps, steps_to_target, threadVars, lineVars, positions
<1> QED BY <1>1, <1>2

LEMMA IdleLedger ==
    ASSUME Inv, Ledger, TickIdle
    PROVE  Ledger'
<1>1. /\ get_next_block(queue, moving, MayBeLocked) /\ position' = position
      /\ UNCHANGED <<threadVars, haltVars, held>>
  BY DEF TickIdle, IdleTick
<1>2. /\ queue \in Seq(Blocks) /\ moving \in [Motors -> BOOLEAN]
      /\ \A i \in DOMAIN queue : Active(queue[i]) # {}
  BY DEF Inv, QueueTypes, TickTypes, BlocksHaveSteps
<1>3. /\ flush' => flush
      /\ queue' = queue \/ (queue' = <<>> /\ flush)
      /\ running' => \A m \in Active(Head(queue')) : moving'[m]
  BY <1>1, <1>2, NextBlockLedger
<1>4. OwnFlags' /\ Milestones'
  BY <1>1, <1>3, TickLeaves
<1>5. EmptyBefore' /\ AllActiveMove'
  <2>1. EmptyBefore'
    BY <1>1, <1>3 DEF Ledger, EmptyBefore, threadVars, lineVars
  <2> QED BY <1>3, <2>1 DEF AllActiveMove, Active
<1>6. ASSUME ~homing', pc' \notin {"flush_wait", "reset"}, NEW m \in Motors
      PROVE  Balanced(m)'
  <2>1. ~flush /\ pc' = pc
    BY <1>1, <1>6 DEF Ledger, OwnFlags, threadVars
  <2> QED BY <1>1, <1>3, <1>6, <2>1 DEF Ledger, Balanced, threadVars, lineVars
<1> QED BY <1>4, <1>5, <1>6 DEF Ledger

(* The block that is ticked, after a tick.                                 *)
Ticked(S) == [queue[1] EXCEPT !.left = leftAfter(S)]

(* A motor that makes a step owes one less.                                *)
LEMMA StepOwes ==
    ASSUME Inv, running, NEW S, S \subseteq Active(queue[1]), Head(queue) = queue[1],
           \A m \in Active(queue[1]) : moving[m], NEW m \in Motors
    PROVE  /\ Ticked(S) \in Blocks
           /\ Owes(queue[1], m) =
                Owes(Ticked(S), m) + IF m \in S THEN Direction(queue[1], m) ELSE 0
           /\ m \in Active(Ticked(S)) => movingAfter(S)[m]
<1>1. /\ queue[1] \in Blocks /\ leftAfter(S) \in [Motors -> Nat]
  BY StepsLeft
<1>2. /\ Ticked(S) \in Blocks /\ Ticked(S).left = leftAfter(S) /\ Ticked(S).steps = queue[1].steps
  BY <1>1 DEF Ticked, Blocks
<1>3. /\ queue[1].left[m] \in Nat
      /\ Owes(queue[1], m) = IF queue[1].steps[m] < 0 THEN -queue[1].left[m] ELSE queue[1].left[m]
      /\ Owes(Ticked(S), m) = IF queue[1].steps[m] < 0 THEN -leftAfter(S)[m] ELSE leftAfter(S)[m]
  BY <1>1, <1>2, OwesType
<1>4. CASE m \in S
  <2>1. moving[m] /\ queue[1].left[m] # 0
    BY <1>4 DEF Active
  <2>2. leftAfter(S)[m] = queue[1].left[m] - 1
    BY <1>3, <1>4, <2>1 DEF leftAfter, finished
  <2>3. m \in Active(Ticked(S)) => movingAfter(S)[m]
    <3>1. m \in Active(Ticked(S)) => queue[1].left[m] # 1
      BY <1>2, <2>2 DEF Active
    <3> QED BY <2>1, <3>1 DEF movingAfter, finished
  <2> QED BY <1>2, <1>3, <1>4, <2>2, <2>3 DEF Direction
<1>5. CASE m \notin S
  <2>1. ~finished(S, m) /\ leftAfter(S)[m] = queue[1].left[m]
    BY <1>5 DEF leftAfter, finished
  <2>2. m \in Active(Ticked(S)) => m \in Active(queue[1])
    BY <1>2, <2>1 DEF Active
  <2>3. m \in Active(Ticked(S)) => movingAfter(S)[m]
    BY <2>1, <2>2 DEF movingAfter
  <2> QED BY <1>2, <1>3, <1>5, <2>1, <2>3
<1> QED BY <1>4, <1>5

LEMMA MotorInts ==
    ASSUME Inv, NEW m \in Motors
    PROVE  position[m] \in Int /\ last_milestone[m] \in Int /\ planned[m] \in Int
BY DEF Inv, TickTypes, ThreadTypes

LEMMA MotorLedger ==
    ASSUME Inv, Ledger, NEW S, MotorTick(S, MayBeLocked), UNCHANGED <<threadVars, haltVars, held>>
    PROVE  Ledger'
<1>1. /\ running /\ S \subseteq Active(Head(queue))
      /\ position' = [m \in Motors |-> IF m \in S THEN position[m] + Direction(Head(queue), m)
                                       ELSE position[m]]
  BY MotorTickCases
<1>2. /\ queue # <<>> /\ queue \in Seq(Blocks) /\ Head(queue) = queue[1]
      /\ 1 \in DOMAIN queue /\ \A i \in DOMAIN queue : Active(queue[i]) # {}
  BY <1>1, EmptySeq DEF Inv, RunningIsQueued, QueueTypes, BlocksHaveSteps
<1>3. /\ Tail(queue) \in Seq(Blocks)
      /\ \A i \in DOMAIN Tail(queue) : Active(Tail(queue)[i]) # {}
  <2>1. /\ Tail(queue) \in Seq(Blocks)
        /\ Len(Tail(queue)) = Len(queue) - 1
        /\ \A i \in 1 .. Len(Tail(queue)) : Tail(queue)[i] = queue[i + 1]
    BY <1>2, HeadTailProperties
  <2>2. \A i \in 1 .. Len(Tail(queue)) : i + 1 \in DOMAIN queue
    BY <1>2, <2>1
  <2> QED BY <1>2, <2>1, <2>2
<1>4. movingAfter(S) \in [Motors -> BOOLEAN] /\ leftAfter(S) \in [Motors -> Nat]
  BY <1>1, StepsLeft
<1>5. CASE stillMoving(S)
  <2>1. queue' = [queue EXCEPT ![1] = Ticked(S)] /\ moving' = movingAfter(S) /\ UNCHANGED <<flush, running>>
    BY <1>5, MotorTickCases DEF Ticked
  <2>2. OwnFlags' /\ Milestones'
    BY <2>1, TickLeaves
  <2>3. EmptyBefore'
    BY <1>2 DEF Ledger, EmptyBefore, threadVars, lineVars
  <2>4. ASSUME ~homing, NEW m \in Motors
        PROVE  /\ m \in Active(Ticked(S)) => moving'[m]
               /\ pc \notin {"flush_wait", "reset"} => Balanced(m)'
    <3>1. \A n \in Active(queue[1]) : moving[n]
      BY <1>1, <1>2, <2>4 DEF Ledger, AllActiveMove
    <3>2. /\ Ticked(S) \in Blocks
          /\ Owes(queue[1], m) =
               Owes(Ticked(S), m) + IF m \in S THEN Direction(queue[1], m) ELSE 0
          /\ m \in Active(Ticked(S)) => movingAfter(S)[m]
      BY <1>1, <1>2, <3>1, StepOwes
    <3>3. Owed(queue', m) = Owes(Ticked(S), m) + Owed(Tail(queue), m)
      BY <1>2, <2>1, <3>2, OwedFirst
    <3>4. Owed(queue, m) = Owes(queue[1], m) + Owed(Tail(queue), m)
      <4>1. [queue EXCEPT ![1] = queue[1]] = queue /\ queue[1] \in Blocks
        BY <1>2
      <4> QED BY <1>2, <4>1, OwedFirst
    <3>5. ASSUME pc \notin {"flush_wait", "reset"}
          PROVE  Balanced(m)'
      <4>1. Balanced(m)
        BY <2>4, <3>5 DEF Ledger
      <4>2. position'[m] = position[m] + IF m \in S THEN Direction(queue[1], m) ELSE 0
        BY <1>1, <1>2 DEF Inv, TickTypes
      <4>3. /\ Owes(queue[1], m) \in Int /\ Owes(Ticked(S), m) \in Int /\ Direction(queue[1], m) \in Int
            /\ Owed(Tail(queue), m) \in Int /\ position[m] \in Int /\ last_milestone[m] \in Int
            /\ planned[m] \in Int
        <5>1. Owes(queue[1], m) \in Int /\ Owes(Ticked(S), m) \in Int
          BY <1>2, <3>2, OwesType
        <5>2. Owed(Tail(queue), m) \in Int
          BY <1>3, OwedType
        <5>3. Direction(queue[1], m) \in Int
          BY DEF Direction
        <5> QED BY <5>1, <5>2, <5>3, MotorInts
      <4>4. UNCHANGED <<pc, last_milestone, planned>>
        BY DEF threadVars
      <4> HIDE DEF Ticked
      <4> QED BY <3>2, <3>3, <3>4, <4>1, <4>2, <4>3, <4>4 DEF Balanced
    <3> QED BY <2>1, <3>2, <3>5
  <2>5. AllActiveMove'
    <3>1. queue'[1] = Ticked(S) /\ Head(queue') = queue'[1]
      <4>1. Ticked(S) \in Blocks
        BY <1>1, <1>2, <1>4, StepsLeft DEF Ticked, Blocks
      <4> HIDE DEF Ticked
      <4> QED BY <1>2, <2>1, <4>1, ExceptSeq
    <3>2. homing' = homing
      BY DEF threadVars, lineVars
    <3> QED BY <2>4, <3>1, <3>2 DEF AllActiveMove, Active
  <2> QED BY <2>2, <2>3, <2>4, <2>5 DEF Ledger, threadVars, lineVars
<1>6. CASE ~stillMoving(S)
  <2>1. get_next_block(Tail(queue), movingAfter(S), MayBeLocked)
    BY <1>6, MotorTickCases
  <2>2. /\ flush' => flush
        /\ queue' = Tail(queue) \/ (queue' = <<>> /\ flush)
        /\ running' => \A m \in Active(Head(queue')) : moving'[m]
    BY <1>3, <1>4, <2>1, NextBlockLedger
  <2>3. OwnFlags' /\ Milestones'
    BY <2>2, TickLeaves
  <2>4. EmptyBefore' /\ AllActiveMove'
    <3>1. EmptyBefore'
      BY <1>2 DEF Ledger, EmptyBefore, threadVars, lineVars
    <3> QED BY <2>2, <3>1 DEF AllActiveMove, Active
  <2>5. ASSUME ~homing', pc' \notin {"flush_wait", "reset"}, NEW m \in Motors
        PROVE  Balanced(m)'
    <3>1. /\ ~flush /\ pc' = pc /\ homing' = homing /\ ~homing
          /\ UNCHANGED <<last_milestone, planned>>
      BY <2>5 DEF Ledger, OwnFlags, threadVars, lineVars
    <3>2. \A n \in Active(queue[1]) : moving[n]
      BY <1>1, <1>2, <3>1 DEF Ledger, AllActiveMove
    <3>3. /\ Ticked(S) \in Blocks
          /\ Owes(queue[1], m) =
               Owes(Ticked(S), m) + IF m \in S THEN Direction(queue[1], m) ELSE 0
          /\ m \in Active(Ticked(S)) => movingAfter(S)[m]
      BY <1>1, <1>2, <3>2, StepOwes
    <3>4. Owes(Ticked(S), m) = 0
      <4>1. m \in Active(Ticked(S)) => m \in Active(queue[1])
        BY <1>1, <1>2, <1>4, StepsLeft DEF Ticked, Active, leftAfter, finished, Blocks
      <4>2. Ticked(S).left[m] = 0
        BY <1>2, <1>6, <3>3, <4>1 DEF stillMoving, Active
      <4> HIDE DEF Ticked
      <4> QED BY <3>3, <4>2, OwesType
    <3>5. Owed(queue, m) = Owes(queue[1], m) + Owed(Tail(queue), m)
      <4>1. [queue EXCEPT ![1] = queue[1]] = queue /\ queue[1] \in Blocks
        BY <1>2
      <4> QED BY <1>2, <4>1, OwedFirst
    <3>6. queue' = Tail(queue)
      BY <2>2, <3>1
    <3>7. Balanced(m)
      BY <2>5, <3>1 DEF Ledger
    <3>8. position'[m] = position[m] + IF m \in S THEN Direction(queue[1], m) ELSE 0
      BY <1>1, <1>2 DEF Inv, TickTypes
    <3>9. /\ Owes(queue[1], m) \in Int /\ Direction(queue[1], m) \in Int
          /\ Owed(Tail(queue), m) \in Int /\ position[m] \in Int /\ last_milestone[m] \in Int
          /\ planned[m] \in Int
      <4>1. Owes(queue[1], m) \in Int
        BY <1>2, OwesType
      <4>2. Owed(Tail(queue), m) \in Int
        BY <1>3, OwedType
      <4>3. Direction(queue[1], m) \in Int
        BY DEF Direction
      <4> QED BY <4>1, <4>2, <4>3, MotorInts
    <3>10. /\ Owed(queue', m) \in Int
           /\ Owed(queue, m) = Owed(queue', m) + IF m \in S THEN Direction(queue[1], m) ELSE 0
      BY <3>3, <3>4, <3>5, <3>6, <3>9
    <3>11. last_milestone' = last_milestone /\ planned' = planned /\ pc' = pc
      BY <3>1
    <3> QED BY <3>7, <3>8, <3>9, <3>10, <3>11 DEF Balanced
  <2> QED BY <2>3, <2>4, <2>5 DEF Ledger
<1> QED BY <1>5, <1>6

LEMMA NextLedger ==
    ASSUME Inv, MovingUntilHalt, LedgerInv, [Next]_vars
    PROVE  LedgerInv'
<1> SUFFICES ASSUME HaltFree' PROVE Ledger'
  BY DEF LedgerInv
<1>1. ASSUME NEW h \in Halters, NEW on \in BOOLEAN, BroadcastHalt(h, on) PROVE FALSE
  BY <1>1 DEF BroadcastHalt, MovingUntilHalt, HaltFree
<1>2. HaltFree
  <2>1. ASSUME NEW h \in Halters, Broadcast(h) PROVE HaltFree
    BY <2>1 DEF Broadcast, Conveyor_on_halt, Robot_on_halt, Resync, HaltFree
  <2> QED BY <1>1, <2>1, HaltVarsKept DEF Next, Proceed, NewBroadcast, haltVars, HaltFree
<1>3. Ledger /\ MovingIsTicked /\ NoBroadcast /\ ~module_halted
  BY <1>2 DEF LedgerInv, MovingUntilHalt, MovingIsTicked
<1>4. ASSUME NEW h \in Halters, Broadcast(h) PROVE FALSE
  BY <1>3, <1>4 DEF Broadcast, Conveyor_on_halt, Robot_on_halt, Resync, NoBroadcast
<1>5. CASE Tick
  <2>1. ~TickHalted
    BY <1>3 DEF TickHalted, HaltedTick
  <2>2. ASSUME TickMotors PROVE Ledger'
    BY <1>3, <2>2, MotorLedger DEF TickMotors
  <2> QED BY <1>3, <1>5, <2>1, <2>2, IdleLedger DEF Tick
<1>6. CASE UNCHANGED vars
  <2>1. OwnFlags' /\ EmptyBefore' /\ AllActiveMove' /\ Milestones'
    BY <1>3, <1>6 DEF vars, tickerVars, threadVars, lineVars, positions, haltVars, Ledger, OwnFlags,
       EmptyBefore, AllActiveMove, Active, Milestones, Planned, Steps, steps_to_target
  <2> QED BY <1>3, <1>6, <2>1 DEF vars, tickerVars, threadVars, lineVars, Ledger, Balanced
<1> QED BY <1>1, <1>3, <1>4, <1>5, <1>6, CommandLedger, WriteBackLedger, StopLedger
        DEF Next, Proceed, NewBroadcast

LEMMA LedgerInvariance == Spec => []LedgerInv
<1>1. Init => MovingUntilHalt
  BY InitMoving DEF MovingUntilHalt, Init, NoBroadcast
<1>2. Spec => []MovingUntilHalt
  BY <1>1, NextUntilHalt, Invariance, PTL DEF Spec
<1> QED BY <1>2, InitLedger, NextLedger, Invariance, PTL DEF Spec

(* Without a halt, an abort or an endstop no step is lost and none is made *)
(* twice, for any moves and any queue: through moves and segments without  *)
(* steps, a planner that stalls, and blocks that begin in the tick in      *)
(* which the one before ends.                                              *)
THEOREM NoStepLost == Spec => []NothingLost
<1>1. LedgerInv => NothingLost
  <2> SUFFICES ASSUME LedgerInv, HaltFree, ~homing, pc \notin {"flush_wait", "reset"}, NEW m \in Motors
               PROVE  Balanced(m)
    BY Zenon DEF NothingLost
  <2>1. Ledger
    BY DEF LedgerInv
  <2> QED BY <2>1 DEF Ledger
<1> QED BY <1>1, LedgerInvariance, PTL

(* And when nothing is left to do the robot is where it believes it is:    *)
(* the fractions of a step that a segment leaves are neither dropped nor   *)
(* counted twice, also by what follows an abort, a homing or a probe.      *)
THEOREM RobotIsThere == Spec => []Synced
<1>1. Inv /\ LedgerInv => Synced
  <2> SUFFICES ASSUME Inv, LedgerInv, HaltFree, pc = "idle", queue = <<>>
               PROVE  /\ position = last_milestone
                      /\ Steps(machine_position) = position
                      /\ compensated_machine_position = machine_position
    BY DEF Synced
  <2>1. Ledger /\ ~homing
    BY DEF LedgerInv, Ledger, EmptyBefore
  <2>2. ASSUME NEW m \in Motors PROVE position[m] = last_milestone[m]
    <3>1. Owed(queue, m) = 0 /\ Balanced(m)
      BY <2>1, OwedEmpty DEF Ledger
    <3>2. position[m] \in Int /\ last_milestone[m] \in Int
      BY DEF Inv, TickTypes, ThreadTypes
    <3> QED BY <3>1, <3>2 DEF Balanced
  <2>3. position = last_milestone
    BY <2>2 DEF Inv, TickTypes, ThreadTypes
  <2>4. last_milestone = Steps(compensated_machine_position)
        /\ compensated_machine_position = machine_position
    BY <2>1 DEF Ledger, Milestones, Planned
  <2> QED BY <2>3, <2>4
<1> QED BY <1>1, LedgerInvariance, Invariance, PTL

=============================================================================
