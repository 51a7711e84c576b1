---------------------------- MODULE ContinuousJog ----------------------------
(***************************************************************************)
(* The continuous jog, $J -c: CommandShell::jog_cmd in the command thread, *)
(* the ^Y and ^X of process_command_buffer in a comms thread that preempts *)
(* it, and the part of StepTicker::step_tick that holds a block at its     *)
(* plateau until Conveyor::continuous is cleared.                          *)
(*                                                                         *)
(* The queue is empty but for the block of the jog, which jog_cmd makes    *)
(* long enough to reach its plateau.  A halt broadcast is one step here;   *)
(* Motion takes it apart.                                                  *)
(***************************************************************************)
EXTENDS Integers

CONSTANTS accelerate_until, decelerate_after, total_move_ticks, \* of the block
          steps_to_move

ASSUME TicksAssumption ==
    /\ accelerate_until \in Nat \ {0}
    /\ decelerate_after \in Nat
    /\ total_move_ticks \in Nat
    /\ accelerate_until <= decelerate_after
    /\ decelerate_after < total_move_ticks
    /\ steps_to_move \in Nat \ {0}

VARIABLES pc,           \* where the command thread is in jog_cmd
          stop_request, \* OutputStream::stop_request
          continuous,   \* Conveyor::continuous
          transform,    \* Robot::compensationTransform is in place
          halted,       \* Module::halted and Conveyor::halted
          flush,        \* Conveyor::flush
          queued,       \* the block of the jog is in the queue
          running, continuing, current_tick,    \* StepTicker
          change,       \* acceleration_change: "up", "flat" or "down"
          step_count,
          moving,       \* StepperMotor::moving
          asked         \* history: a ^Y since $J -c was sent, and whether it
                        \* found continuous mode set

jogVars == <<pc, transform>>
tickVars == <<queued, running, continuing, current_tick, change, step_count, moving>>
vars == <<jogVars, stop_request, continuous, halted, flush, tickVars, asked>>

Init == /\ pc = "idle"
        /\ stop_request = FALSE
        /\ continuous = FALSE
        /\ transform = TRUE
        /\ halted = FALSE
        /\ flush = FALSE
        /\ queued = FALSE
        /\ running = FALSE
        /\ continuing = FALSE
        /\ current_tick = 0
        /\ change = "up"
        /\ step_count = 0
        /\ moving = FALSE
        /\ asked = "no"

-----------------------------------------------------------------------------
(* The comms thread.                                                       *)

(* The line $J -c is put on the message queue.                             *)
SendJog == /\ pc = "idle"
           /\ pc' = "sent"
           /\ asked' = "no"
           /\ UNCHANGED <<transform, stop_request, continuous, halted, flush, tickVars>>

(* mutant: the request is left, but the continuous mode too *)
StopJog_RequestOnly ==
    /\ ~halted
    /\ stop_request' = TRUE
    /\ asked' = IF continuous THEN "stopped" ELSE "requested"
    /\ UNCHANGED <<jogVars, continuous, halted, flush, tickVars>>

(* ^Y, when it is not a halt: it stops the jog, or leaves a request.       *)
StopJog == /\ ~halted
           /\ continuous' = FALSE
           /\ stop_request' = (stop_request \/ ~continuous)
           /\ asked' = IF continuous THEN "stopped" ELSE "requested"
           /\ UNCHANGED <<jogVars, halted, flush, tickVars>>

(* ^X: Conveyor::on_halt and Robot::on_halt.                               *)
Halt == /\ ~halted
        /\ halted' = TRUE
        /\ flush' = TRUE
        /\ continuous' = FALSE
        /\ moving' = FALSE
        /\ UNCHANGED <<jogVars, stop_request, queued, running, continuing, current_tick,
                       change, step_count, asked>>

(* The broadcast of a halt takes longer than the 10 us between two ticks:  *)
(* the interrupt has answered it before any thread goes on.                *)
HaltSeen == ~flush /\ ~(halted /\ running)

(* ^Y or $X in a halt.                                                     *)
Unlock == /\ halted
          /\ HaltSeen
          /\ halted' = FALSE
          /\ UNCHANGED <<jogVars, stop_request, continuous, flush, tickVars, asked>>

-----------------------------------------------------------------------------
(* jog_cmd.                                                                *)

(* The line is refused in a halt.                                          *)
jog_cmd == /\ HaltSeen
           /\ pc = "sent"
           /\ pc' = IF halted THEN "idle" ELSE "check"
           /\ UNCHANGED <<transform, stop_request, continuous, halted, flush, tickVars, asked>>

(* A ^Y that was faster than the line is answered here.                    *)
CheckStopRequest ==
    /\ HaltSeen
    /\ pc = "check"
    /\ \/ /\ stop_request
          /\ stop_request' = FALSE
          /\ pc' = "idle"
          /\ UNCHANGED transform
       \/ /\ ~stop_request
          /\ transform' = FALSE
          /\ pc' = "wait"
          /\ UNCHANGED stop_request
    /\ UNCHANGED <<continuous, halted, flush, tickVars, asked>>

Idle == ~queued /\ ~moving

(* wait_for_idle, then set_continuous_mode(true).                          *)
WaitIdle == /\ HaltSeen
            /\ pc = "wait"
            /\ Idle
            /\ pc' = "set"
            /\ UNCHANGED <<transform, stop_request, continuous, halted, flush, tickVars, asked>>

SetContinuous == /\ HaltSeen
                 /\ pc = "set"
                 /\ continuous' = TRUE
                 /\ pc' = "move"
                 /\ UNCHANGED <<transform, stop_request, halted, flush, tickVars, asked>>

(* delta_move does nothing in a halt, but asks for it only once ...        *)
delta_move == /\ HaltSeen
              /\ pc = "move"
              /\ pc' = IF halted THEN "jog" ELSE "append"
              /\ UNCHANGED <<transform, stop_request, continuous, halted, flush, tickVars, asked>>

(* ... and then the block of the jog is queued, and forced to run.         *)
append_block == /\ HaltSeen
                /\ pc = "append"
                /\ queued' = TRUE
                /\ step_count' = 0
                /\ change' = "up"
                /\ pc' = "jog"
                /\ UNCHANGED <<transform, stop_request, continuous, halted, flush, running,
                               continuing, current_tick, moving, asked>>

(* mutant: continuous mode is taken to be cleared by whoever ended the jog *)
UnsetContinuous_Superfluous ==
    /\ HaltSeen
    /\ pc = "unset"
    /\ transform' = TRUE
    /\ pc' = "idle"
    /\ UNCHANGED <<stop_request, continuous, halted, flush, tickVars, asked>>

WaitJog == /\ HaltSeen
           /\ pc = "jog"
           /\ Idle
           /\ pc' = "unset"
           /\ UNCHANGED <<transform, stop_request, continuous, halted, flush, tickVars, asked>>

UnsetContinuous == /\ HaltSeen
                   /\ pc = "unset"
                   /\ continuous' = FALSE
                   /\ transform' = TRUE
                   /\ pc' = "idle"
                   /\ UNCHANGED <<stop_request, halted, flush, tickVars, asked>>

-----------------------------------------------------------------------------
(* step_tick.                                                              *)

HaltedTick == /\ running
              /\ halted
              /\ running' = FALSE
              /\ continuing' = FALSE
              /\ current_tick' = 0
              /\ UNCHANGED <<jogVars, stop_request, continuous, halted, flush, queued, change,
                             step_count, moving, asked>>

IdleTick == /\ ~running
            /\ \/ /\ flush
                  /\ queued' = FALSE
                  /\ flush' = FALSE
                  /\ UNCHANGED <<running, current_tick, moving>>
               \/ /\ ~flush /\ ~halted /\ queued
                  /\ running' = TRUE
                  /\ current_tick' = 0
                  /\ moving' = TRUE
                  /\ UNCHANGED <<queued, flush>>
            /\ UNCHANGED <<jogVars, stop_request, continuous, halted, continuing, change,
                           step_count, asked>>

NextAccelEvent == IF change = "up" THEN accelerate_until ELSE decelerate_after

(* mutant: the ticks are counted while the plateau is held *)
Advance_Always(tick, hold) == IF tick > total_move_ticks THEN tick ELSE tick + 1

(* Beyond total_move_ticks the tick no longer matters: a bound.            *)
Advance(tick, hold) == IF hold \/ tick > total_move_ticks THEN tick ELSE tick + 1

LastStep(count) == count = steps_to_move

(* One tick of the motor; step says whether its next step is due.  Its     *)
(* rate is abstracted, but the last step is made while it decelerates.     *)
MotorTick(step) ==
    LET event == current_tick = NextAccelEvent
        plateau == event /\ current_tick = accelerate_until /\ current_tick # decelerate_after
        holds == plateau /\ continuous
        tick == IF holds THEN current_tick + 1 ELSE current_tick
        held == continuing \/ holds
        count == IF step /\ ~held THEN step_count + 1 ELSE step_count
    IN  /\ running
        /\ ~halted
        /\ change' = IF event /\ tick = decelerate_after THEN "down"
                     ELSE IF plateau THEN "flat"
                     ELSE change
        /\ LastStep(count) => change' = "down"
        /\ continuing' = (held /\ (step => continuous))
        /\ IF LastStep(count)
           THEN /\ queued' = FALSE
                /\ running' = FALSE
                /\ moving' = FALSE
                /\ current_tick' = 0
                /\ step_count' = 0
           ELSE /\ current_tick' = Advance(tick, continuing')
                /\ step_count' = count
                /\ UNCHANGED <<queued, running, moving>>
        /\ UNCHANGED <<jogVars, stop_request, continuous, halted, flush, asked>>

-----------------------------------------------------------------------------
Comms == SendJog \/ StopJog \/ Halt \/ Unlock

Command == jog_cmd \/ CheckStopRequest \/ WaitIdle \/ SetContinuous \/ delta_move
               \/ append_block \/ WaitJog \/ UnsetContinuous

Tick == HaltedTick \/ IdleTick \/ \E step \in BOOLEAN : MotorTick(step)

Next == Comms \/ Command \/ Tick

Spec == Init /\ [][Next]_vars

(* The command thread runs, whenever no halt is being answered, and the    *)
(* interrupt ticks; nobody has to send anything.                           *)
FairSpec == Spec /\ SF_vars(Command) /\ WF_vars(Tick)

-----------------------------------------------------------------------------
TypeOK ==
    /\ pc \in {"idle", "sent", "check", "wait", "set", "move", "append", "jog", "unset"}
    /\ stop_request \in BOOLEAN /\ continuous \in BOOLEAN /\ transform \in BOOLEAN
    /\ halted \in BOOLEAN /\ flush \in BOOLEAN
    /\ queued \in BOOLEAN /\ running \in BOOLEAN /\ continuing \in BOOLEAN /\ moving \in BOOLEAN
    /\ current_tick \in 0 .. total_move_ticks + 1
    /\ change \in {"up", "flat", "down"}
    /\ step_count \in 0 .. steps_to_move - 1
    /\ asked \in {"no", "requested", "stopped"}

(* However the jog ends, nothing of it is left: no continuous mode that    *)
(* the next move would fall into, and Z is compensated again.  It is       *)
(* jog_cmd that has to see to it: its comment that "unset continuous mode  *)
(* is superfluous as it had to be unset to get here" is not true after a   *)
(* halt between wait_for_idle and set_continuous_mode.                     *)
JogLeavesNothing == pc = "idle" => ~continuous /\ ~continuing /\ ~running /\ transform

(* StepTicker.cpp, step_tick: "if we are in continuous mode then we now    *)
(* continue until told to stop": held at the plateau, the motor neither    *)
(* accelerates nor decelerates.                                            *)
ContinuingHoldsSpeed == continuing => change = "flat"

(* A jog ends: by a ^Y that finds continuous mode set; by one that is       *)
(* faster than the line, the race jog_cmd looks out for; and by a halt, at  *)
(* the latest when it is lifted, once jog_cmd has found in delta_move that  *)
(* there was none: the block it may still queue then is an ordinary one.    *)
JogEnds ==
    /\ []<>~halted => (asked = "stopped" ~> pc = "idle")
    /\ asked = "requested" /\ pc \in {"sent", "check"} ~> pc = "idle"
    /\ []<>~halted => (halted /\ pc \in {"append", "jog"} ~> pc = "idle")

(* main.cpp, process_command_buffer: "We set the stop_request flag if we   *)
(* are not in continuous jog mode and check that before setting cont       *)
(* mode": every ^Y after the line ends the jog.                            *)
StopIsHeard == []<>~halted => (asked # "no" ~> pc = "idle")
=============================================================================
