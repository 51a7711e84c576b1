----------------------------- MODULE StepTicker -----------------------------
(***************************************************************************)
(* robot/StepTicker.cpp and the half of robot/Conveyor.cpp that runs in    *)
(* the TIMER0 interrupt: what one tick does to the planner queue and to    *)
(* the motors.  An interrupt is never preempted by a thread, so one tick   *)
(* is one step.  The queue is the bounded FIFO that PlannerQueue           *)
(* implements.                                                             *)
(*                                                                         *)
(* Rates are abstracted: of the motors that still have steps to make in    *)
(* the block, any may reach its step time in a tick.  Continuous mode is   *)
(* off here; ContinuousJog models it.                                      *)
(***************************************************************************)
EXTENDS Integers, Sequences

CONSTANT Motors

VARIABLES queue,        \* committed blocks, the tail of PlannerQueue first
          allow_fetch,  \* Conveyor: the queue may be started
          flush,        \* Conveyor: drop the queue at the next fetch
          conveyor_halted,  \* Conveyor::halted
          module_halted,    \* Module::halted, what is_halted() returns
          running,      \* StepTicker: a block is being ticked, the tail
          moving,       \* StepperMotor::moving
          position      \* StepperMotor::current_position_steps

tickerVars == <<queue, allow_fetch, flush, conveyor_halted, module_halted,
                running, moving, position>>

(* A block: the steps of every motor, signed, and how many are left to do  *)
(* (tick_info: steps_to_move less step_count, 0 once steps_to_move is 0).  *)
Block(steps) == [steps |-> steps,
                 left  |-> [m \in Motors |-> IF steps[m] < 0 THEN -steps[m] ELSE steps[m]]]

Active(b) == {m \in Motors : b.left[m] # 0}

Direction(b, m) == IF b.steps[m] < 0 THEN -1 ELSE 1

-----------------------------------------------------------------------------
(* Conveyor::get_next_block and, when it returned a block,                 *)
(* StepTicker::start_next_block, for the queue q, the motors mov that are  *)
(* moving, and a tail that the planner may have locked.  A halt that       *)
(* finds the block just started stops the ticker in the same tick.         *)

FlushAll == /\ flush
            /\ queue' = <<>>
            /\ flush' = FALSE

NoBlock(q, locked) == /\ ~flush
                      /\ conveyor_halted \/ q = <<>> \/ ~allow_fetch \/ locked
                      /\ queue' = q
                      /\ UNCHANGED flush

(* mutant: the next block is given to the motors although it is a halt *)
HasBlock_Halted(q) == ~flush /\ q # <<>> /\ allow_fetch

HasBlock(q) == ~flush /\ ~conveyor_halted /\ q # <<>> /\ allow_fetch

StartBlock(q, mov) ==
    /\ HasBlock(q)
    /\ IF Active(Head(q)) = {}
       THEN /\ queue' = Tail(q)
            /\ running' = FALSE
            /\ moving' = mov
       ELSE /\ queue' = q
            /\ running' = ~module_halted
            /\ moving' = [m \in Motors |-> mov[m] \/ m \in Active(Head(q))]
    /\ UNCHANGED flush

get_next_block(q, mov, mayBeLocked) ==
    \/ FlushAll /\ running' = FALSE /\ moving' = mov
    \/ NoBlock(q, mayBeLocked) /\ running' = FALSE /\ moving' = mov
    \/ StartBlock(q, mov)

-----------------------------------------------------------------------------
(* StepTicker::step_tick.                                                  *)

(* mutant: a flush does not wait for the block that is being ticked *)
IdleTick_Running(mayBeLocked) ==
    /\ get_next_block(queue, moving, mayBeLocked)
    /\ UNCHANGED <<allow_fetch, conveyor_halted, module_halted, position>>

(* Nothing is being ticked: see whether there is a block.                  *)
IdleTick(mayBeLocked) ==
    /\ ~running
    /\ get_next_block(queue, moving, mayBeLocked)
    /\ UNCHANGED <<allow_fetch, conveyor_halted, module_halted, position>>

(* A halt: the block is forgotten, not released.                           *)
HaltedTick ==
    /\ running
    /\ module_halted
    /\ running' = FALSE
    /\ UNCHANGED <<queue, allow_fetch, flush, conveyor_halted, module_halted,
                   moving, position>>

(* The motors in S make a step.  A motor that made its last one, or that   *)
(* was stopped from outside since its last step, is done.  When none of    *)
(* the motors of the block is moving any more the block is released and    *)
(* the next one started in the same tick.                                  *)
MotorTick(S, mayBeLocked) ==
    LET b == Head(queue)
        finished(m) == m \in S /\ (~moving[m] \/ b.left[m] = 1)
        left == [m \in Motors |-> IF finished(m) THEN 0
                                  ELSE IF m \in S THEN b.left[m] - 1
                                  ELSE b.left[m]]
        mov == [m \in Motors |-> moving[m] /\ ~finished(m)]
        still_moving == \E m \in Active(b) : mov[m]
    IN  /\ running
        /\ ~module_halted
        /\ S \subseteq Active(b)
        /\ position' = [m \in Motors |->
                          IF m \in S THEN position[m] + Direction(b, m) ELSE position[m]]
        /\ \/ /\ still_moving
              /\ queue' = [queue EXCEPT ![1].left = left]
              /\ moving' = mov
              /\ UNCHANGED <<flush, running>>
           \/ /\ ~still_moving
              /\ get_next_block(Tail(queue), mov, mayBeLocked)
        /\ UNCHANGED <<allow_fetch, conveyor_halted, module_halted>>
=============================================================================
