------------------------------- MODULE Motion -------------------------------
(***************************************************************************)
(* The motion path of the firmware: the command thread that turns a G-code *)
(* line into blocks (Robot, Planner), the conveyor between it and the step *)
(* ticker interrupt, and Module::broadcast_halt, which a comms thread or   *)
(* the timer task runs at any moment.                                      *)
(*                                                                         *)
(* Scheduling is that of FreeRTOS on one core: the interrupt preempts      *)
(* everything; a comms thread preempts the command thread; the timer task  *)
(* has the lowest priority and runs only while the command thread sleeps.  *)
(***************************************************************************)
EXTENDS StepTicker

CONSTANTS Capacity,     \* blocks the queue holds, planner_queue_size - 1
          Lines,        \* the G-code moves: sequences of segment ends, in half steps
          MayAbort,     \* the player may abort a print (Player::abort_command)
          Stoppable,    \* motors a homing endstop or a probe may stop
          AtomicFlags,  \* see WriteFlags
          Halters,      \* who may broadcast a halt: "comms", "timer", "command"
          MaxHalts      \* bound: halt broadcasts in a behaviour

ASSUME CapacityAssumption == Capacity \in Nat \ {0}
ASSUME LinesAssumption == Lines \subseteq Seq([Motors -> Int]) /\ <<>> \notin Lines
ASSUME HaltersAssumption == Halters \subseteq {"comms", "timer", "command"}
ASSUME MaxHaltsAssumption == MaxHalts \in Nat
ASSUME StoppableAssumption == Stoppable \subseteq Motors
ASSUME ChoiceAssumption == MayAbort \in BOOLEAN /\ AtomicFlags \in BOOLEAN

VARIABLES pc,           \* where the command thread is
          homing,       \* the move is to end at an endstop or a probe
          target,       \* process_move, delta_move: the end of the move
          moved,        \* append_line: something was appended
          path,         \* append_line: segment ends still to be appended
          planned,      \* append_block: the steps of the block at the head
          last_milestone,   \* StepperMotor::last_milestone_steps
          machine_position, \* Robot: where it believes it is, in half steps,
          compensated_machine_position, \* and the end of the last segment
          held,         \* thread -> the Conveyor flags it is about to write back
          robot_halted, \* Robot::halted
          halting,      \* who -> where it is in broadcast_halt
          flg,          \* who -> the flag it broadcasts
          halts         \* halt broadcasts so far

lineVars == <<homing, target, moved>>
positions == <<machine_position, compensated_machine_position>>
threadVars == <<pc, lineVars, path, planned, last_milestone, positions>>
haltVars == <<robot_halted, halting, flg, halts>>
conveyorVars == <<allow_fetch, flush, conveyor_halted>>
vars == <<tickerVars, threadVars, haltVars, held>>

AtRest == [m \in Motors |-> 0]
Stopped == [m \in Motors |-> FALSE]

full == Len(queue) = Capacity

(* Robot has positions in mm, finer than a step; half a step is fine       *)
(* enough to have moves without steps.  roundf rounds half away from zero. *)
Round(halves) == IF halves < 0 THEN -((1 - halves) \div 2) ELSE (halves + 1) \div 2

Steps(end) == [m \in Motors |-> Round(end[m])]

Millimeters(pos) == [m \in Motors |-> 2 * pos[m]]

steps_to_target(end) == [m \in Motors |-> Round(end[m]) - last_milestone[m]]

NoBroadcast == \A h \in Halters : halting[h] = "off"

-----------------------------------------------------------------------------
(* Who may run.                                                            *)

(* The places where the command thread sleeps: on the message queue and in *)
(* safe_sleep.                                                             *)
Sleeping == pc \in {"idle", "stalled", "wait", "wait_motors", "flush_wait"}

Idle(h) == h \in Halters => halting[h] = "off"

Threads == Halters \cup {"command"}
NotHeld == <<>>

CommandMayRun == Idle("comms") /\ held["command"] = NotHeld

Broadcasts(h) ==
    /\ held[h] = NotHeld
    /\ CASE h = "comms"   -> TRUE
         [] h = "command" -> Idle("comms") /\ pc = "idle"
         [] h = "timer"   -> CommandMayRun /\ Idle("command") /\ Sleeping

(* allow_fetch, flush and halted are bits of one byte of the Conveyor: a   *)
(* thread t that writes some of them reads the byte and, AtomicFlags or    *)
(* not, writes it back at once or in a later step.  What the interrupt or  *)
(* another thread writes between the two is lost.                          *)
WriteFlags(t, allow, fl, halted) ==
    IF AtomicFlags
    THEN /\ allow_fetch' = allow
         /\ flush' = fl
         /\ conveyor_halted' = halted
         /\ UNCHANGED held
    ELSE /\ held' = [held EXCEPT ![t] = <<allow, fl, halted>>]
         /\ UNCHANGED conveyorVars

WriteBack(t) ==
    /\ held[t] # NotHeld
    /\ CASE t = "comms" -> TRUE
         [] t = "command" -> Idle("comms")
         [] t = "timer" -> CommandMayRun /\ Sleeping
    /\ allow_fetch' = held[t][1]
    /\ flush' = held[t][2]
    /\ conveyor_halted' = held[t][3]
    /\ held' = [held EXCEPT ![t] = NotHeld]
    /\ UNCHANGED <<queue, module_halted, running, moving, position, threadVars, haltVars>>

-----------------------------------------------------------------------------
Init == /\ queue = <<>>
        /\ allow_fetch = FALSE
        /\ flush = FALSE
        /\ conveyor_halted = FALSE
        /\ module_halted = FALSE
        /\ running = FALSE
        /\ moving = Stopped
        /\ position = AtRest
        /\ pc = "idle"
        /\ homing = FALSE
        /\ target = AtRest
        /\ moved = FALSE
        /\ path = <<>>
        /\ planned = AtRest
        /\ last_milestone = AtRest
        /\ machine_position = AtRest
        /\ compensated_machine_position = AtRest
        /\ held = [t \in Threads |-> NotHeld]
        /\ robot_halted = FALSE
        /\ halting = [h \in Halters |-> "off"]
        /\ flg = [h \in Halters |-> FALSE]
        /\ halts = 0

-----------------------------------------------------------------------------
(* Conveyor, in the command thread.                                        *)

(* mutant: the queue delay is ignored *)
check_queue_NoDelay(force, waited) ==
    \/ /\ queue = <<>>
       /\ WriteFlags("command", FALSE, flush, conveyor_halted)
    \/ /\ queue # <<>>
       /\ (force \/ full) /\ ~flush
       /\ WriteFlags("command", TRUE, flush, conveyor_halted)
    \/ /\ queue # <<>>
       /\ ~(force \/ full) \/ flush
       /\ UNCHANGED <<conveyorVars, held>>

(* check_queue.  waited: the queue delay has passed.                       *)
check_queue(force, waited) ==
    \/ /\ queue = <<>>
       /\ WriteFlags("command", FALSE, flush, conveyor_halted)
    \/ /\ queue # <<>>
       /\ (force \/ full \/ waited) /\ ~flush
       /\ WriteFlags("command", TRUE, flush, conveyor_halted)
    \/ /\ queue # <<>>
       /\ ~(force \/ full \/ waited) \/ flush
       /\ UNCHANGED <<conveyorVars, held>>

(* The command loop calls check_queue after every line and every 100 ms.   *)
CommandLoop ==
    /\ CommandMayRun
    /\ Idle("command")
    /\ pc = "idle"
    /\ \E waited \in BOOLEAN : check_queue(FALSE, waited)
    /\ UNCHANGED <<queue, module_halted, running, moving, position, threadVars, haltVars>>

(* wait_for_idle: the dispatcher of M400 and of anything that must not     *)
(* overlap a move.                                                         *)
WaitForIdle ==
    /\ CommandMayRun
    /\ Idle("command")
    /\ pc = "idle"
    /\ ~module_halted
    /\ pc' = "wait"
    /\ UNCHANGED <<tickerVars, lineVars, path, planned, last_milestone, positions, haltVars, held>>

WaitQueue ==
    /\ CommandMayRun
    /\ pc = "wait"
    /\ IF queue = <<>>
       THEN pc' = "wait_motors" /\ UNCHANGED <<conveyorVars, held>>
       ELSE check_queue(TRUE, FALSE) /\ UNCHANGED pc
    /\ UNCHANGED <<queue, module_halted, running, moving, position,
                   lineVars, path, planned, last_milestone, positions, haltVars>>

is_idle == queue = <<>> /\ moving = Stopped

(* wait_for_idle is done.  Homing goes on to take the position from the    *)
(* actuators, unless it is a halt.                                         *)
WaitMotors ==
    /\ CommandMayRun
    /\ pc = "wait_motors"
    /\ is_idle
    /\ homing' = (homing /\ ~module_halted)
    /\ pc' = IF homing' THEN "reset" ELSE "idle"
    /\ UNCHANGED <<tickerVars, target, moved, path, planned, last_milestone, positions, haltVars,
                   held>>

-----------------------------------------------------------------------------
(* Robot and Planner: a move.                                              *)

(* Dispatcher::dispatch refuses a move while halted; append_line cuts it.  *)
(* Homing and probing make moves of one segment.                           *)
Dispatch(line) ==
    /\ CommandMayRun
    /\ Idle("command")
    /\ pc = "idle"
    /\ ~module_halted
    /\ path' = line
    /\ target' = line[Len(line)]
    /\ homing' \in IF Stoppable # {} /\ Len(line) = 1 /\ is_idle THEN BOOLEAN ELSE {FALSE}
    /\ pc' = "line"
    /\ UNCHANGED <<tickerVars, moved, planned, last_milestone, positions, haltVars, held>>

(* append_line asks Robot::halted before every segment but the last, and   *)
(* delta_move, which homing and probing use, before its only one.  The     *)
(* line is done when no segment is left: if any of them was appended the   *)
(* robot is at the target now.  The caller goes back to the command loop   *)
(* or, as homing and probing do, waits for the move to end.                *)
AsksHalted == Len(path) > 1 \/ (homing /\ path # <<>>)

append_line ==
    /\ CommandMayRun
    /\ pc = "line"
    /\ \/ /\ path = <<>> \/ (AsksHalted /\ robot_halted)
          /\ machine_position' = IF path = <<>> /\ moved THEN target ELSE machine_position
          /\ pc' \in IF homing THEN {"wait"} ELSE {"idle", "wait"}
          /\ path' = <<>>
          /\ target' = AtRest
          /\ moved' = FALSE
       \/ /\ path # <<>> /\ ~(AsksHalted /\ robot_halted)
          /\ pc' = "milestone"
          /\ UNCHANGED <<machine_position, path, target, moved>>
    /\ UNCHANGED <<tickerVars, homing, planned, last_milestone, compensated_machine_position,
                   haltVars, held>>

(* append_milestone gives up when nothing moves; else append_block finds   *)
(* the steps from the last milestone ...                                   *)
append_milestone ==
    /\ CommandMayRun
    /\ pc = "milestone"
    /\ \/ /\ Head(path) = compensated_machine_position
          /\ path' = Tail(path)
          /\ pc' = "line"
          /\ UNCHANGED planned
       \/ /\ Head(path) # compensated_machine_position
          /\ planned' = steps_to_target(Head(path))
          /\ pc' = "update"
          /\ UNCHANGED path
    /\ UNCHANGED <<tickerVars, lineVars, last_milestone, positions, haltVars, held>>

(* ... and moves the last milestone by them.  Without steps there is no    *)
(* block, but the move counts.                                             *)
update_last_milestones ==
    /\ CommandMayRun
    /\ pc = "update"
    /\ last_milestone' = [m \in Motors |-> last_milestone[m] + planned[m]]
    /\ pc' = IF planned = AtRest THEN "moved" ELSE "recalculate"
    /\ UNCHANGED <<tickerVars, lineVars, path, planned, positions, haltVars, held>>

(* Planner::recalculate may lock the tail, so the interrupt may find it    *)
(* locked while the command thread is here.                                *)
recalculate ==
    /\ CommandMayRun
    /\ pc = "recalculate"
    /\ pc' = "queue"
    /\ UNCHANGED <<tickerVars, lineVars, path, planned, last_milestone, positions, haltVars, held>>

(* The block is committed, unless the queue is full.                       *)
queue_head ==
    /\ CommandMayRun
    /\ pc = "queue"
    /\ \/ /\ full
          /\ pc' = "stalled"
          /\ UNCHANGED <<queue, planned>>
       \/ /\ ~full
          /\ queue' = Append(queue, Block(planned))
          /\ planned' = AtRest
          /\ pc' = "moved"
    /\ UNCHANGED <<allow_fetch, flush, conveyor_halted, module_halted, running, moving,
                   position, lineVars, path, last_milestone, positions, haltVars, held>>

(* The stalled command thread wakes up: in a halt it drops the block, else *)
(* it sees to it that the queue runs and tries again.                      *)
StallAborted ==
    /\ CommandMayRun
    /\ pc = "stalled"
    /\ module_halted
    /\ planned' = AtRest
    /\ path' = Tail(path)
    /\ pc' = "line"
    /\ UNCHANGED <<tickerVars, lineVars, last_milestone, positions, haltVars, held>>

(* mutant: after the stall the block is taken to be queued *)
StallRetried_NotQueued ==
    /\ CommandMayRun
    /\ pc = "stalled"
    /\ ~module_halted
    /\ \E waited \in BOOLEAN : check_queue(FALSE, waited)
    /\ pc' = "moved"
    /\ UNCHANGED <<queue, module_halted, running, moving, position,
                   lineVars, path, planned, last_milestone, positions, haltVars>>

StallRetried ==
    /\ CommandMayRun
    /\ pc = "stalled"
    /\ ~module_halted
    /\ \E waited \in BOOLEAN : check_queue(FALSE, waited)
    /\ pc' = "queue"
    /\ UNCHANGED <<queue, module_halted, running, moving, position,
                   lineVars, path, planned, last_milestone, positions, haltVars>>

(* append_block returned true.                                             *)
Moved ==
    /\ CommandMayRun
    /\ pc = "moved"
    /\ compensated_machine_position' = Head(path)
    /\ path' = Tail(path)
    /\ planned' = AtRest
    /\ moved' = TRUE
    /\ pc' = "line"
    /\ UNCHANGED <<tickerVars, homing, target, last_milestone, machine_position, haltVars, held>>

-----------------------------------------------------------------------------
(* Player::in_command_ctx after abort_command: Conveyor::flush_queue, then *)
(* Robot::reset_position_from_current_actuator_position, which is also how *)
(* a homing or probing move ends.                                          *)

reset_position == /\ last_milestone' = position
                  /\ compensated_machine_position' = Millimeters(position)
                  /\ machine_position' = compensated_machine_position'

FlushQueue ==
    /\ MayAbort
    /\ CommandMayRun
    /\ Idle("command")
    /\ pc = "idle"
    /\ WriteFlags("command", FALSE, TRUE, conveyor_halted)
    /\ pc' = "flush_wait"
    /\ UNCHANGED <<queue, module_halted, running, moving, position,
                   lineVars, path, planned, last_milestone, positions, haltVars>>

FlushWait ==
    /\ CommandMayRun
    /\ pc = "flush_wait"
    /\ queue # <<>>
    /\ check_queue(TRUE, FALSE)
    /\ UNCHANGED <<queue, module_halted, running, moving, position, threadVars, haltVars>>

(* mutant: the abort does not take the position from the actuators *)
Flushed_NoReset ==
    /\ CommandMayRun
    /\ pc = "flush_wait"
    /\ queue = <<>>
    /\ WriteFlags("command", allow_fetch, FALSE, conveyor_halted)
    /\ pc' = "idle"
    /\ UNCHANGED <<queue, module_halted, running, moving, position,
                   lineVars, path, planned, last_milestone, positions, haltVars>>

Flushed ==
    /\ CommandMayRun
    /\ pc = "flush_wait"
    /\ queue = <<>>
    /\ WriteFlags("command", allow_fetch, FALSE, conveyor_halted)
    /\ pc' = "reset"
    /\ UNCHANGED <<queue, module_halted, running, moving, position,
                   lineVars, path, planned, last_milestone, positions, haltVars>>

ResetPosition ==
    /\ CommandMayRun
    /\ pc = "reset"
    /\ reset_position
    /\ homing' = FALSE
    /\ pc' = "idle"
    /\ UNCHANGED <<tickerVars, target, moved, path, planned, haltVars, held>>

-----------------------------------------------------------------------------
(* Module::broadcast_halt, by h.  The modules are told in the order of     *)
(* their group names, so the conveyor comes before the robot.              *)

(* On: ^X, a hard limit, the kill button, a G-code error; only ^X asks     *)
(* whether it is a halt already.  Off: $X, ^Y, the kill button, M999, which *)
(* all ask.                                                                *)
BroadcastHalt(h, on) ==
    /\ Broadcasts(h)
    /\ halting[h] = "off"
    /\ IF on THEN h = "comms" => ~module_halted ELSE module_halted
    /\ halts < MaxHalts
    /\ halts' = halts + 1
    /\ module_halted' = on
    /\ flg' = [flg EXCEPT ![h] = on]
    /\ halting' = [halting EXCEPT ![h] = "conveyor"]
    /\ UNCHANGED <<queue, allow_fetch, flush, conveyor_halted, running, moving, position,
                   threadVars, robot_halted, held>>

(* mutant: the conveyor stays halted *)
Conveyor_on_halt_OnOnly(h) ==
    /\ Broadcasts(h)
    /\ halting[h] = "conveyor"
    /\ WriteFlags(h, allow_fetch, flush \/ flg[h], conveyor_halted \/ flg[h])
    /\ halting' = [halting EXCEPT ![h] = "robot"]
    /\ UNCHANGED <<queue, module_halted, running, moving, position,
                   threadVars, robot_halted, flg, halts>>

Conveyor_on_halt(h) ==
    /\ Broadcasts(h)
    /\ halting[h] = "conveyor"
    /\ WriteFlags(h, allow_fetch, flush \/ flg[h], flg[h])
    /\ halting' = [halting EXCEPT ![h] = "robot"]
    /\ UNCHANGED <<queue, module_halted, running, moving, position,
                   threadVars, robot_halted, flg, halts>>

(* mutant: the robot stays halted *)
Robot_on_halt_OnOnly(h) ==
    /\ Broadcasts(h)
    /\ halting[h] = "robot"
    /\ robot_halted' = (robot_halted \/ flg[h])
    /\ moving' = IF flg[h] THEN Stopped ELSE moving
    /\ halting' = [halting EXCEPT ![h] = "resync"]
    /\ UNCHANGED <<queue, allow_fetch, flush, conveyor_halted, module_halted, running,
                   position, threadVars, flg, halts, held>>

Robot_on_halt(h) ==
    /\ Broadcasts(h)
    /\ halting[h] = "robot"
    /\ robot_halted' = flg[h]
    /\ moving' = IF flg[h] THEN Stopped ELSE moving
    /\ halting' = [halting EXCEPT ![h] = "resync"]
    /\ UNCHANGED <<queue, allow_fetch, flush, conveyor_halted, module_halted, running,
                   position, threadVars, flg, halts, held>>

(* mutant: the position is not taken from the actuators *)
Resync_Skipped(h) ==
    /\ Broadcasts(h)
    /\ halting[h] = "resync"
    /\ halting' = [halting EXCEPT ![h] = "off"]
    /\ UNCHANGED <<tickerVars, threadVars, robot_halted, flg, halts, held>>

(* After the last module the position is taken from the actuators, if it   *)
(* is a halt by now.                                                       *)
Resync(h) ==
    /\ Broadcasts(h)
    /\ halting[h] = "resync"
    /\ IF module_halted THEN reset_position ELSE UNCHANGED <<last_milestone, positions>>
    /\ halting' = [halting EXCEPT ![h] = "off"]
    /\ UNCHANGED <<tickerVars, pc, lineVars, path, planned, robot_halted, flg, halts, held>>

-----------------------------------------------------------------------------
(* The interrupt, and the endstop or probe that stops a motor on its own.  *)

MayBeLocked == pc = "recalculate"

TickIdle == IdleTick(MayBeLocked) /\ UNCHANGED <<threadVars, haltVars, held>>

TickHalted == HaltedTick /\ UNCHANGED <<threadVars, haltVars, held>>

TickMotors == /\ \E S \in SUBSET Motors : MotorTick(S, MayBeLocked)
              /\ UNCHANGED <<threadVars, haltVars, held>>

TickStep == /\ \E S \in SUBSET Motors \ {{}} : MotorTick(S, MayBeLocked)
            /\ UNCHANGED <<threadVars, haltVars, held>>

StopMotor(m) ==
    /\ homing
    /\ moving[m]
    /\ moving' = [moving EXCEPT ![m] = FALSE]
    /\ UNCHANGED <<queue, allow_fetch, flush, conveyor_halted, module_halted, running,
                   position, threadVars, haltVars, held>>

-----------------------------------------------------------------------------
Command == \/ CommandLoop \/ WaitForIdle \/ WaitQueue \/ WaitMotors
           \/ \E line \in Lines : Dispatch(line)
           \/ append_line \/ append_milestone \/ update_last_milestones
           \/ recalculate \/ queue_head \/ StallAborted \/ StallRetried \/ Moved
           \/ FlushQueue \/ FlushWait \/ Flushed \/ ResetPosition

Broadcast(h) == Conveyor_on_halt(h) \/ Robot_on_halt(h) \/ Resync(h)

Tick == TickIdle \/ TickHalted \/ TickMotors

(* Everything but a new broadcast.                                         *)
Proceed == \/ Command
           \/ \E t \in Threads : WriteBack(t)
           \/ \E h \in Halters : Broadcast(h)
           \/ Tick
           \/ \E m \in Stoppable : StopMotor(m)

NewBroadcast == \E h \in Halters, on \in BOOLEAN : BroadcastHalt(h, on)

Next == Proceed \/ NewBroadcast

Spec == Init /\ [][Next]_vars

(* The same, when no thread broadcasts a halt, or lifts one, while another *)
(* thread is in the middle of it.                                          *)
SerialNext == Proceed \/ (NoBroadcast /\ NewBroadcast)

SerialSpec == Init /\ [][SerialNext]_vars

(* A thread that can run does run, in the end; a timer callback that was   *)
(* preempted goes on whenever the command thread sleeps, and it sleeps     *)
(* again and again; time passes, so the queue delay expires; and a motor   *)
(* that has steps to make reaches its next step time.                      *)
QueueDelayExpires ==
    /\ CommandMayRun
    /\ Idle("command")
    /\ pc = "idle"
    /\ check_queue(FALSE, TRUE)
    /\ UNCHANGED <<queue, module_halted, running, moving, position, threadVars, haltVars>>

Fairness == /\ WF_vars(Command /\ pc # "idle")
            /\ SF_vars(QueueDelayExpires)
            /\ \A t \in Threads : SF_vars(WriteBack(t))
            /\ WF_vars(TickIdle)
            /\ WF_vars(TickHalted)
            /\ WF_vars(TickStep)
            /\ \A h \in Halters : SF_vars(Broadcast(h))

FairSpec == Spec /\ Fairness

FairSerialSpec == SerialSpec /\ Fairness

-----------------------------------------------------------------------------
TypeOK ==
    /\ \A i \in DOMAIN queue : /\ queue[i].steps \in [Motors -> Int]
                               /\ queue[i].left \in [Motors -> Nat]
    /\ Len(queue) <= Capacity
    /\ {allow_fetch, flush, conveyor_halted, module_halted, robot_halted, running, homing,
        moved} \subseteq BOOLEAN
    /\ moving \in [Motors -> BOOLEAN]
    /\ {position, planned, last_milestone, target, machine_position,
        compensated_machine_position} \subseteq [Motors -> Int]
    /\ pc \in {"idle", "wait", "wait_motors", "line", "milestone", "update", "recalculate",
               "queue", "stalled", "moved", "flush_wait", "reset"}
    /\ halting \in [Halters -> {"off", "conveyor", "robot", "resync"}]
    /\ flg \in [Halters -> BOOLEAN]
    /\ held \in [Threads -> {NotHeld} \cup (BOOLEAN \X BOOLEAN \X BOOLEAN)]

(* The sum of a sequence of numbers.                                       *)
Sum(s) == LET sum[n \in 0 .. Len(s)] == IF n = 0 THEN 0 ELSE sum[n - 1] + s[n]
          IN  sum[Len(s)]

(* The steps of motor m that a block, and a queue, still owe.              *)
Owes(b, m) == Direction(b, m) * b.left[m]

Owed(q, m) == Sum([i \in DOMAIN q |-> Owes(q[i], m)])

(* No halt has been broadcast yet.                                         *)
HaltFree == halts = 0

(* What the books say of motor m: it is as far behind the last milestone   *)
(* as the blocks still owe, the one being planned included.                *)
Balanced(m) ==
    last_milestone[m] - position[m] =
        Owed(queue, m) + IF pc \in {"recalculate", "queue", "stalled"} THEN planned[m] ELSE 0

(* Without a halt, an abort or an endstop, no step is lost and none is     *)
(* made twice.                                                             *)
NothingLost ==
    HaltFree /\ ~homing /\ pc \notin {"flush_wait", "reset"} => \A m \in Motors : Balanced(m)

(* Module.cpp, broadcast_halt: "if we interrupted a move we need to resync *)
(* the coordinates systems with the actuator position".                    *)
HaltResyncs == module_halted /\ NoBroadcast /\ pc = "idle" =>
                   /\ position = last_milestone
                   /\ machine_position = Millimeters(position)
                   /\ compensated_machine_position = machine_position

(* When everything is done the robot is where it believes it is.           *)
Synced == HaltFree /\ pc = "idle" /\ queue = <<>> =>
              /\ position = last_milestone
              /\ Steps(machine_position) = position
              /\ compensated_machine_position = machine_position

(* An empty queue means that nothing moves, which is why flush_queue need  *)
(* not wait for the motors before it reads their position.                 *)
EmptyMeansStopped == HaltFree /\ queue = <<>> => moving = Stopped /\ ~running

(* No block without steps is ever queued: start_next_block's "should never *)
(* happen" does not.                                                       *)
BlocksHaveSteps == \A i \in DOMAIN queue : Active(queue[i]) # {}

(* After a halt has been broadcast no motor moves until it is lifted.      *)
HaltStopsMotors == module_halted /\ NoBroadcast => moving = Stopped

(* The three copies of the halt flag agree when nobody is changing them.   *)
HaltAgreed == NoBroadcast => module_halted = conveyor_halted /\ module_halted = robot_halted

(* Planner.cpp, append_block: "we do not want to stick more stuff on the   *)
(* queue if we are in halt state".                                         *)
NothingQueuedInHalt == [][Len(queue') > Len(queue) => ~module_halted]_vars

(* A queued block is started or dropped.                                   *)
QueueRuns == queue # <<>> ~> running \/ queue = <<>>

(* wait_for_idle returns, provided that halts are lifted again.            *)
WaitReturns == []<>(~module_halted /\ NoBroadcast) => (pc = "wait" ~> pc = "idle")
=============================================================================
