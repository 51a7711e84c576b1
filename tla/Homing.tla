-------------------------------- MODULE Homing --------------------------------
(***************************************************************************)
(* modules/tools/endstops/Endstops.cpp, for a cartesian machine: G28 in    *)
(* the command thread, read_endstops and check_limits in the timer task,   *)
(* and a halt from anywhere.                                               *)
(*                                                                         *)
(* A move is the set of axes that still move, as a block of Motion, and a  *)
(* halt is one step that stops them; Motion takes both apart.  An axis     *)
(* moves towards its endstop or away from it; where it is, is whether it   *)
(* is on its switch.  Positions are whether the machine knows them.  Each  *)
(* axis has one endstop.                                                   *)
(***************************************************************************)
EXTENDS Integers, Sequences

CONSTANTS X_AXIS, Y_AXIS, Z_AXIS,
          Limited,                    \* axes with limit_enable
          HomeToMin,                  \* axes with home_direction
          Orders,                     \* what homing_order may be
          Debounce,                   \* debounce_ms / 10
          home_z_first,
          move_to_origin_after_home,
          HostWaits                   \* halts are lifted when the command thread is idle

XY == {X_AXIS, Y_AXIS}
Axes == XY \cup {Z_AXIS}

ASSUME HomingAssumption ==
    /\ Limited \subseteq Axes /\ HomeToMin \subseteq Axes
    /\ Orders \subseteq Seq(Axes)
    /\ Debounce \in Nat
    /\ {home_z_first, move_to_origin_after_home, HostWaits} \subseteq BOOLEAN

VARIABLES homing_order,
          status,
          pc, haxis, homes, legs,     \* process_home_command: what it has still to home and move
          axis_to_home,
          disable_segmentation, compensated,
          homed,
          debounce, triggered,        \* of an endstop
          alarm,                      \* axes whose limit check_limits is about to report
          halted,
          moving, towards,            \* axes that move, those that move to their endstop
          pin,                        \* axes on their switch
          at_end, known               \* history: stopped by the switch in the slow approach;
                                      \* and homed, with the position taken from it

robotVars == <<disable_segmentation, compensated>>
homeVars == <<haxis, homes, legs, axis_to_home, homed, known>>
switchVars == <<debounce, triggered>>
moveVars == <<moving, towards, at_end>>
vars == <<homing_order, status, pc, robotVars, homeVars, switchVars, alarm, halted, moveVars, pin>>

Init == /\ homing_order \in Orders
        /\ status = "NOT_HOMING"
        /\ pc = "idle"
        /\ haxis = {}
        /\ homes = <<>>
        /\ legs = <<>>
        /\ axis_to_home = {}
        /\ disable_segmentation = FALSE
        /\ compensated = TRUE
        /\ homed = {}
        /\ debounce = [a \in Axes |-> 0]
        /\ triggered = {}
        /\ alarm = {}
        /\ halted = FALSE
        /\ moving = {}
        /\ towards = {}
        /\ pin \in SUBSET Axes
        /\ at_end = {}
        /\ known = {}

-----------------------------------------------------------------------------
(* Moves, switches and halts.                                              *)

(* delta_move, or a line: refused in a halt.                               *)
Move(S, to) ==
    IF halted
    THEN UNCHANGED moveVars
    ELSE /\ moving' = S
         /\ towards' = to
         /\ at_end' = at_end \ S

(* wait_for_idle returns.                                                  *)
WaitForIdle == moving = {}

Waits == {"wait", "leg_wait", "back_wait", "slow_wait", "origin_wait", "back_off_wait"}

(* The timer task runs when the command thread sleeps.                     *)
Sleeping == pc \in Waits \cup {"idle"}

(* The axis has made its steps.  Moves away from a switch are long enough  *)
(* to leave it, and the slow approach to come back to it; the fast one may *)
(* stop short of it.                                                       *)
MoveEnds(a) ==
    /\ a \in moving
    /\ pc \in {"back_wait", "back_off_wait"} => a \notin pin
    /\ pc = "slow_wait" => a \notin triggered
    /\ moving' = moving \ {a}
    /\ towards' = towards \ {a}
    /\ UNCHANGED <<homing_order, status, pc, robotVars, homeVars, switchVars, alarm, halted,
                   at_end, pin>>

Press(a) ==
    /\ a \in towards \ pin
    /\ pin' = pin \cup {a}
    /\ UNCHANGED <<homing_order, status, pc, robotVars, homeVars, switchVars, alarm, halted,
                   moveVars>>

Release(a) ==
    /\ a \in (moving \ towards) \cap pin
    /\ pin' = pin \ {a}
    /\ UNCHANGED <<homing_order, status, pc, robotVars, homeVars, switchVars, alarm, halted,
                   moveVars>>

broadcast_halt ==
    /\ halted' = TRUE
    /\ moving' = {}
    /\ towards' = {}
    /\ UNCHANGED at_end

(* ^X, the kill button, a heater.                                          *)
Halt ==
    /\ ~halted
    /\ broadcast_halt
    /\ UNCHANGED <<homing_order, status, pc, robotVars, homeVars, switchVars, alarm, pin>>

Unlock ==
    /\ halted
    /\ HostWaits => pc = "idle"
    /\ halted' = FALSE
    /\ UNCHANGED <<homing_order, status, pc, robotVars, homeVars, switchVars, alarm, moveVars, pin>>

(* Any other line.                                                         *)
UserMove(a, to) ==
    /\ pc = "idle" /\ ~halted /\ moving = {}
    /\ Move({a}, to)
    /\ UNCHANGED <<homing_order, status, pc, robotVars, homeVars, switchVars, alarm, halted, pin>>

-----------------------------------------------------------------------------
(* home.                                                                   *)

(* home, up to its first move.                                             *)
home(a) ==
    /\ debounce' = [e \in Axes |-> 0]
    /\ triggered' = {}
    /\ axis_to_home' = a
    /\ legs' = IF home_z_first THEN <<a \cap {Z_AXIS}, a \cap XY>> ELSE <<a \cap XY, a \cap {Z_AXIS}>>
    /\ status' = "MOVING_TO_ENDSTOP_FAST"
    /\ disable_segmentation' = TRUE

(* The next fast move to the endstops: home_xy, or z.                      *)
Leg ==
    /\ pc = "leg" /\ legs # <<>>
    /\ Move(Head(legs), Head(legs))
    /\ legs' = Tail(legs)
    /\ pc' = "leg_wait"
    /\ UNCHANGED <<homing_order, status, robotVars, haxis, homes, axis_to_home, homed, known,
                   switchVars, alarm, halted, pin>>

LegDone ==
    /\ pc = "leg_wait" /\ WaitForIdle
    /\ pc' = "leg"
    /\ UNCHANGED <<homing_order, status, robotVars, homeVars, switchVars, alarm, halted, moveVars,
                   pin>>

(* mutant: segmentation stays off when the homing fails *)
HomeReturns_Unsegmented(h) ==
    /\ status' = "NOT_HOMING"
    /\ disable_segmentation' = (disable_segmentation /\ h)
    /\ axis_to_home' = {}
    /\ triggered' = {}
    /\ legs' = <<>>
    /\ pc' = IF h THEN "finish" ELSE "next"

(* home returns, to the test for a halt before the next one; nobody reads  *)
(* axis_to_home and triggered before they are set again.                   *)
HomeReturns(h) ==
    /\ status' = "NOT_HOMING"
    /\ disable_segmentation' = FALSE
    /\ axis_to_home' = {}
    /\ triggered' = {}
    /\ legs' = <<>>
    /\ pc' = IF h THEN "finish" ELSE "next"

(* mutant: one endstop is enough *)
Missed_One == axis_to_home \cap triggered = {}

(* All endstops must have been hit.                                        *)
Missed == ~(axis_to_home \subseteq triggered)

Check ==
    /\ pc = "leg" /\ legs = <<>>
    /\ IF halted THEN HomeReturns(TRUE) /\ UNCHANGED <<halted, moveVars>>
       ELSE IF Missed THEN broadcast_halt /\ HomeReturns(TRUE)
       ELSE /\ status' = "MOVING_BACK"
            /\ pc' = "back"
            /\ UNCHANGED <<disable_segmentation, axis_to_home, legs, triggered, halted, moveVars>>
    /\ UNCHANGED <<homing_order, compensated, haxis, homes, homed, known, debounce, alarm, pin>>

Back ==
    /\ pc = "back"
    /\ Move(axis_to_home, {})
    /\ pc' = "back_wait"
    /\ UNCHANGED <<homing_order, status, robotVars, homeVars, switchVars, alarm, halted, pin>>

BackDone ==
    /\ pc = "back_wait" /\ WaitForIdle
    /\ status' = "MOVING_TO_ENDSTOP_SLOW"
    /\ pc' = "slow"
    /\ UNCHANGED <<homing_order, robotVars, homeVars, switchVars, alarm, halted, moveVars, pin>>

Slow ==
    /\ pc = "slow"
    /\ Move(axis_to_home, axis_to_home)
    /\ pc' = "slow_wait"
    /\ UNCHANGED <<homing_order, status, robotVars, homeVars, switchVars, alarm, halted, pin>>

SlowDone ==
    /\ pc = "slow_wait" /\ WaitForIdle
    /\ HomeReturns(halted)
    /\ UNCHANGED <<homing_order, compensated, haxis, homes, homed, known, debounce, alarm, halted,
                   moveVars, pin>>

-----------------------------------------------------------------------------
(* process_home_command.                                                   *)

(* G28 for the axes S; a halt makes the dispatcher refuse it.              *)
G28(S) ==
    /\ pc = "idle" /\ ~halted
    /\ haxis' = S
    /\ pc' = "wait"
    /\ UNCHANGED <<homing_order, status, robotVars, homes, legs, axis_to_home, homed, known,
                   switchVars, alarm, halted, moveVars, pin>>

(* The calls of home: in homing_order, or one for all.                     *)
Homes(S) ==
    IF homing_order = <<>> THEN <<S>>
    ELSE [i \in DOMAIN homing_order |-> {homing_order[i]} \cap S]

(* The axes to be homed are set to 0, since it is not known where they are. *)
Begin ==
    /\ pc = "wait" /\ WaitForIdle
    /\ IF haxis = {}
       THEN pc' = "idle" /\ UNCHANGED <<homes, compensated, known>>
       ELSE /\ pc' = "next"
            /\ homes' = Homes(haxis)
            /\ compensated' = FALSE
            /\ known' = known \ haxis
    /\ UNCHANGED <<homing_order, status, disable_segmentation, haxis, legs, axis_to_home, homed,
                   switchVars, alarm, halted, moveVars, pin>>

NextHome ==
    /\ pc = "next"
    /\ IF homes = <<>>
       THEN /\ pc' = "finish"
            /\ UNCHANGED <<status, disable_segmentation, homes, legs, axis_to_home, switchVars>>
       ELSE /\ homes' = Tail(homes)
            /\ IF Head(homes) = {}
               THEN /\ pc' = IF halted THEN "finish" ELSE "next"
                    /\ UNCHANGED <<status, disable_segmentation, legs, axis_to_home, switchVars>>
               ELSE pc' = "leg" /\ home(Head(homes))
    /\ UNCHANGED <<homing_order, compensated, haxis, homed, known, alarm, halted, moveVars, pin>>

Finish ==
    /\ pc = "finish"
    /\ compensated' = TRUE
    /\ IF halted
       THEN /\ homed' = {}
            /\ known' = {}
            /\ haxis' = {}
            /\ pc' = "idle"
       ELSE /\ homed' = homed \cup haxis
            /\ UNCHANGED haxis
            /\ known' = known \cup (haxis \cap at_end)
            /\ pc' = IF move_to_origin_after_home /\ XY \subseteq haxis THEN "origin" ELSE "back_off"
    /\ homes' = <<>>
    /\ at_end' = {}
    /\ UNCHANGED <<homing_order, status, disable_segmentation, legs, axis_to_home, switchVars,
                   alarm, halted, moving, towards, pin>>

(* move_to_origin: a line, which moves an axis away from its switch if it  *)
(* moves it at all.                                                        *)
move_to_origin ==
    /\ pc = "origin"
    /\ status' = "MOVE_TO_ORIGIN"
    /\ \E S \in SUBSET XY : Move(S, {})
    /\ pc' = "origin_wait"
    /\ UNCHANGED <<homing_order, robotVars, homeVars, switchVars, alarm, halted, pin>>

OriginDone ==
    /\ pc = "origin_wait" /\ WaitForIdle
    /\ status' = "NOT_HOMING"
    /\ pc' = "back_off"
    /\ UNCHANGED <<homing_order, robotVars, homeVars, switchVars, alarm, halted, moveVars, pin>>

OnSwitch == haxis \cap Limited \cap pin

(* Only a positive delta makes it move, that is, an axis that homes to min. *)
back_off_home ==
    /\ pc = "back_off"
    /\ status' = "BACK_OFF_HOME"
    /\ IF OnSwitch \cap HomeToMin # {} THEN Move(OnSwitch, {}) ELSE UNCHANGED moveVars
    /\ pc' = "back_off_wait"
    /\ UNCHANGED <<homing_order, robotVars, homeVars, switchVars, alarm, halted, pin>>

(* mutant: it is not waited for *)
BackOffDone_NoWait ==
    /\ pc = "back_off_wait"
    /\ status' = "NOT_HOMING"
    /\ pc' = "idle"
    /\ haxis' = {}
    /\ UNCHANGED <<homing_order, robotVars, homes, legs, axis_to_home, homed, known, switchVars,
                   alarm, halted, moveVars, pin>>

BackOffDone ==
    /\ pc = "back_off_wait" /\ WaitForIdle
    /\ status' = "NOT_HOMING"
    /\ pc' = "idle"
    /\ haxis' = {}
    /\ UNCHANGED <<homing_order, robotVars, homes, legs, axis_to_home, homed, known, switchVars,
                   alarm, halted, moveVars, pin>>

-----------------------------------------------------------------------------
(* The timer task, every 10 ms.                                            *)

Settling(a) == debounce[a] < Debounce

(* mutant: the slow approach is not watched *)
read_endstops_FastOnly ==
    /\ Sleeping /\ alarm = {}
    /\ status = "MOVING_TO_ENDSTOP_FAST"
    /\ LET hit == {a \in moving \cap pin : ~Settling(a)}
       IN  /\ triggered' = triggered \cup hit
           /\ moving' = moving \ hit
           /\ towards' = towards \ hit
           /\ debounce' = [a \in Axes |-> IF a \notin moving \/ a \in hit THEN debounce[a]
                                          ELSE IF a \in pin THEN debounce[a] + 1 ELSE 0]
    /\ UNCHANGED <<homing_order, status, pc, robotVars, homeVars, alarm, halted, at_end, pin>>

(* Motors that move in an approach stop when their switch is down for long *)
(* enough.                                                                 *)
read_endstops ==
    /\ Sleeping /\ alarm = {}
    /\ status \in {"MOVING_TO_ENDSTOP_FAST", "MOVING_TO_ENDSTOP_SLOW"}
    /\ LET hit == {a \in moving \cap pin : ~Settling(a)}
       IN  /\ triggered' = triggered \cup hit
           /\ moving' = moving \ hit
           /\ towards' = towards \ hit
           /\ at_end' = IF status = "MOVING_TO_ENDSTOP_SLOW" THEN at_end \cup hit ELSE at_end
           /\ debounce' = [a \in Axes |-> IF a \notin moving \/ a \in hit THEN debounce[a]
                                          ELSE IF a \in pin THEN debounce[a] + 1 ELSE 0]
    /\ UNCHANGED <<homing_order, status, pc, robotVars, homeVars, alarm, halted, pin>>

(* check_limits: the first limit that is reached ends it.                  *)
CheckLimits ==
    /\ Sleeping /\ alarm = {}
    /\ status = "NOT_HOMING"
    /\ \E a \in Limited \cap moving \cap pin :
          IF Settling(a)
          THEN debounce' = [debounce EXCEPT ![a] = @ + 1] /\ UNCHANGED alarm
          ELSE alarm' = {a} /\ UNCHANGED debounce
    /\ UNCHANGED <<homing_order, status, pc, robotVars, homeVars, triggered, halted, moveVars, pin>>

(* The messages are out, for which it may have waited.                     *)
LimitAlarm ==
    /\ Sleeping /\ alarm # {}
    /\ status' = "LIMIT_TRIGGERED"
    /\ debounce' = [a \in Axes |-> IF a \in alarm THEN 0 ELSE debounce[a]]
    /\ broadcast_halt
    /\ alarm' = {}
    /\ UNCHANGED <<homing_order, pc, robotVars, homeVars, triggered, pin>>

(* Limits are looked at again when all have been clear for long enough.    *)
ClearLimits ==
    /\ Sleeping /\ alarm = {}
    /\ status = "LIMIT_TRIGGERED"
    /\ IF Limited \cap pin # {}
       THEN /\ \E a \in Limited \cap pin : debounce' = [debounce EXCEPT ![a] = 0]
            /\ UNCHANGED status
       ELSE /\ debounce' = [a \in Axes |-> IF a \in Limited /\ Settling(a) THEN debounce[a] + 1
                                           ELSE debounce[a]]
            /\ status' = IF \E a \in Limited : Settling(a) THEN status ELSE "NOT_HOMING"
    /\ UNCHANGED <<homing_order, pc, robotVars, homeVars, triggered, alarm, halted, moveVars, pin>>

-----------------------------------------------------------------------------
Command ==
    \/ Begin \/ NextHome \/ Leg \/ LegDone \/ Check \/ Back \/ BackDone \/ Slow \/ SlowDone
    \/ Finish \/ move_to_origin \/ OriginDone \/ back_off_home \/ BackOffDone

Timer == read_endstops \/ CheckLimits \/ LimitAlarm \/ ClearLimits

Machine(a) == MoveEnds(a) \/ Press(a) \/ Release(a)

Next ==
    \/ \E S \in SUBSET Axes : G28(S)
    \/ \E a \in Axes : Machine(a) \/ \E to \in SUBSET {a} : UserMove(a, to)
    \/ Halt \/ Unlock
    \/ Command \/ Timer

Spec == Init /\ [][Next]_vars

(* Threads and the timer run, moves end and switches are reached or left.  *)
FairSpec ==
    /\ Spec /\ WF_vars(Command) /\ SF_vars(Timer)
    /\ \A a \in Axes : WF_vars(Machine(a))

-----------------------------------------------------------------------------
(* Properties.                                                             *)

Statuses == {"NOT_HOMING", "LIMIT_TRIGGERED", "MOVING_TO_ENDSTOP_FAST", "MOVING_BACK",
             "MOVING_TO_ENDSTOP_SLOW", "MOVE_TO_ORIGIN", "BACK_OFF_HOME"}

Places == Waits \cup {"idle", "next", "leg", "back", "slow", "finish", "origin", "back_off"}

TypeOK ==
    /\ homing_order \in Orders
    /\ status \in Statuses
    /\ pc \in Places
    /\ haxis \subseteq Axes /\ axis_to_home \subseteq Axes
    /\ homes \in Seq(SUBSET Axes) /\ legs \in Seq(SUBSET Axes)
    /\ disable_segmentation \in BOOLEAN /\ compensated \in BOOLEAN /\ halted \in BOOLEAN
    /\ homed \subseteq Axes /\ known \subseteq Axes /\ at_end \subseteq Axes
    /\ debounce \in [Axes -> 0 .. Debounce]
    /\ triggered \subseteq Axes /\ alarm \subseteq Axes
    /\ towards \subseteq moving /\ moving \subseteq Axes
    /\ pin \subseteq Axes

(* What the machine says is homed has its position from a switch it was    *)
(* stopped by, through failed and interrupted homing of any axes.          *)
HomedIsKnown == pc = "idle" => homed \subseteq known

(* However G28 ended, it leaves nothing of it behind: segmentation and     *)
(* compensation are on, and limits are looked at, or have been hit.        *)
HomeLeavesNothing ==
    pc = "idle" => /\ compensated /\ ~disable_segmentation
                   /\ status \in {"NOT_HOMING", "LIMIT_TRIGGERED"}

(* "if limit switches are enabled, then we must move off of the endstop":  *)
(* G28 that was not halted leaves no axis it homed on its limit.           *)
BackedOff == [][BackOffDone /\ ~halted => OnSwitch = {}]_vars

(* Neither lasts for ever: a G28 ends, whatever fails on its way, and the   *)
(* limits are looked at again after an alarm, when all are clear.          *)
EndstopsRecover ==
    /\ pc = "wait" ~> pc = "idle"
    /\ status = "LIMIT_TRIGGERED" ~> status # "LIMIT_TRIGGERED" \/ Limited \cap pin # {}

=============================================================================
