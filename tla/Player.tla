------------------------------- MODULE Player -------------------------------
(***************************************************************************)
(* Printing a file from the SD card: the Player module in the command      *)
(* thread, its play threads, the message queue between them, and a halt    *)
(* or its lifting from another thread at any moment.                       *)
(*                                                                         *)
(* The command thread has a higher priority than a play thread, so what it *)
(* does without sleeping is one step for the play threads; on_halt may     *)
(* come between its test of the halt and what it does then.  A line of the *)
(* file is <<print, number>>; the robot is known by the line that it       *)
(* executed last and by whose modes it has, those of the print or those of *)
(* the user.  The file system is external: opening and reading are one     *)
(* step.  Left out: what is printed and reported, names, discarded lines.  *)
(***************************************************************************)
EXTENDS Integers, SequencesExt

CONSTANTS Threads,       \* play threads there is memory for
          FileLines,     \* lines of a file
          QueueLength,   \* of the message queue
          Capacity,      \* of the planner queue
          Commands,      \* what a host may send
          MaxCommands, MaxPrints, MaxHalts, \* bounds
          HostWaits,     \* the host sends a command when the last one is done
          on_boot_gcode_enable, leave_heaters_on, after_suspend_gcode

ASSUME PlayerAssumption ==
    /\ {FileLines, QueueLength, Capacity} \subseteq Nat \ {0}
    /\ {MaxCommands, MaxPrints, MaxHalts} \subseteq Nat
    /\ {HostWaits, on_boot_gcode_enable, leave_heaters_on, after_suspend_gcode} \subseteq BOOLEAN
    /\ Commands \subseteq {"play", "M23", "M24", "M25", "M26", "abort", "suspend", "resume",
                           "G28", "G0"}

VARIABLES pc,                 \* where the command thread is
          inbox,              \* the message queue
          booted, playing_file, filename, current_file_handler,
          abort_thread, abort_flg,
          suspended, was_playing_file, suspend_loops, saved_temperatures, saved_position,
          at, buf,            \* the play threads
          robot, state_stack, \* Robot: where it is, its modes; push_state, pop_state
          blocks,             \* moves in the planner queue
          halted,             \* Module::halted
          prints, sent, halts, \* files opened, commands sent, halts so far
          flushed             \* history: the last print that an abort cleared out

fileVars == <<playing_file, filename, current_file_handler, prints>>
abortVars == <<abort_thread, abort_flg>>
suspendVars == <<suspended, was_playing_file, suspend_loops, saved_temperatures, saved_position>>
threadVars == <<at, buf>>
robotVars == <<robot, state_stack, blocks>>
hostVars == <<sent, halts, halted>>
vars == <<pc, inbox, booted, fileVars, abortVars, suspendVars, threadVars, robotVars, hostVars,
          flushed>>

NoLine == <<0, 0>>
Lines == (1 .. MaxPrints) \X (1 .. FileLines)
Away == NoLine                \* anywhere else

Message(cmd) == [cmd |-> cmd, line |-> NoLine]
Line(l) == [cmd |-> "line", line |-> l]

Init == /\ pc = "receive"
        /\ inbox = <<>>
        /\ booted = FALSE
        /\ playing_file = FALSE
        /\ filename = FALSE
        /\ current_file_handler = NoLine
        /\ abort_thread = FALSE
        /\ abort_flg = FALSE
        /\ suspended = FALSE
        /\ was_playing_file = FALSE
        /\ suspend_loops = 0
        /\ saved_temperatures = FALSE
        /\ saved_position = Away
        /\ at = [t \in Threads |-> "none"]
        /\ buf = [t \in Threads |-> NoLine]
        /\ robot = [at |-> Away, mode |-> "user"]
        /\ state_stack = <<"user">>        \* an M120 of the user
        /\ blocks = 0
        /\ halted = FALSE
        /\ prints = 0
        /\ sent = 0
        /\ halts = 0
        /\ flushed = 0

-----------------------------------------------------------------------------
(* Robot.                                                                  *)

push_state == state_stack' = Append(state_stack, robot.mode)

(* pop_state of a robot that is at a place by then.                        *)
pop_state(place) ==
    /\ robot' = [at |-> place,
                 mode |-> IF state_stack = <<>> THEN robot.mode ELSE Last(state_stack)]
    /\ state_stack' = Front(state_stack)

(* A move that is dispatched stalls while the queue is full.               *)
Room == blocks < Capacity \/ halted

-----------------------------------------------------------------------------
(* Commands, in the command thread.                                        *)

(* xTaskCreate, if there is memory for one more thread.                    *)
StartThread ==
    LET free == {t \in Threads : at[t] = "none"} IN
    /\ at' = IF free = {} THEN at ELSE [at EXCEPT ![CHOOSE t \in free : TRUE] = "fetch"]
    /\ UNCHANGED buf

(* A file that was open is closed; the new one may not be there.           *)
open_file(paused) ==
    /\ filename' = TRUE
    /\ \/ /\ prints < MaxPrints
          /\ prints' = prints + 1
          /\ current_file_handler' = <<prints + 1, 1>>
          /\ playing_file' = ~paused
          /\ StartThread
       \/ /\ current_file_handler' = NoLine
          /\ UNCHANGED <<prints, playing_file, threadVars>>

play_command(paused) ==
    IF playing_file \/ suspended
    THEN UNCHANGED <<fileVars, threadVars>>
    ELSE open_file(paused)

Play(cmd) ==
    /\ cmd \in {"play", "M23"}
    /\ play_command(cmd = "M23")
    /\ UNCHANGED <<abortVars, suspendVars, robotVars>>

NotPlaying == ~playing_file /\ current_file_handler = NoLine

abort_command ==
    IF NotPlaying THEN UNCHANGED <<abortVars, suspended>>
    ELSE abort_thread' = TRUE /\ abort_flg' = TRUE /\ suspended' = FALSE

AbortCommand(cmd) ==
    /\ cmd = "abort"
    /\ abort_command
    /\ UNCHANGED <<fileVars, threadVars, robotVars, was_playing_file, suspend_loops,
                   saved_temperatures, saved_position>>

(* M24 starts, M25 pauses, M26 starts again from the beginning.            *)
M24(cmd) ==
    /\ cmd = "M24"
    /\ playing_file' = (playing_file \/ current_file_handler # NoLine)
    /\ UNCHANGED <<filename, current_file_handler, prints, abortVars, suspendVars, threadVars,
                   robotVars>>

M25(cmd) ==
    /\ cmd = "M25"
    /\ playing_file' = FALSE
    /\ UNCHANGED <<filename, current_file_handler, prints, abortVars, suspendVars, threadVars,
                   robotVars>>

(* mutant: the file is opened again while it is being printed *)
M26_Playing(cmd) ==
    /\ cmd = "M26"
    /\ IF current_file_handler = NoLine
       THEN UNCHANGED <<fileVars, threadVars, abortVars, suspended>>
       ELSE /\ abort_command
            /\ IF filename THEN open_file(FALSE) ELSE UNCHANGED <<fileVars, threadVars>>
    /\ UNCHANGED <<was_playing_file, suspend_loops, saved_temperatures, saved_position, robotVars>>

M26(cmd) ==
    /\ cmd = "M26"
    /\ IF current_file_handler = NoLine
       THEN UNCHANGED <<fileVars, threadVars, abortVars, suspended>>
       ELSE /\ abort_command
            /\ IF filename /\ ~playing_file
               THEN open_file(FALSE)
               ELSE UNCHANGED <<fileVars, threadVars>>
    /\ UNCHANGED <<was_playing_file, suspend_loops, saved_temperatures, saved_position, robotVars>>

(* What homing and a halt do to a suspend.                                 *)
ClearSuspend(place) ==
    /\ suspended' = FALSE
    /\ pop_state(place)
    /\ saved_temperatures' = FALSE
    /\ was_playing_file' = FALSE
    /\ suspend_loops' = 0
    /\ UNCHANGED saved_position

(* Homing takes the robot away, and cancels a suspend.                     *)
G28(cmd) ==
    /\ cmd = "G28"
    /\ IF suspended
       THEN ClearSuspend(Away)
       ELSE /\ robot' = [robot EXCEPT !.at = Away]
            /\ UNCHANGED <<suspendVars, state_stack>>
    /\ UNCHANGED <<fileVars, abortVars, threadVars, blocks>>

suspend_command(cmd) ==
    /\ cmd = "suspend"
    /\ IF suspended
       THEN UNCHANGED <<suspendVars, playing_file>>
       ELSE /\ suspended' = TRUE
            /\ was_playing_file' = playing_file
            /\ playing_file' = FALSE
            /\ suspend_loops' = 2
            /\ UNCHANGED <<saved_temperatures, saved_position>>
    /\ UNCHANGED <<filename, current_file_handler, prints, abortVars, threadVars, robotVars>>

(* A move of the user, and a line of the file.                             *)
Move(cmd) ==
    /\ cmd = "G0"
    /\ Room
    /\ robot' = [at |-> Away, mode |-> "user"]
    /\ blocks' = blocks + 1
    /\ UNCHANGED <<fileVars, abortVars, suspendVars, threadVars, state_stack>>

FileLine(l) ==
    /\ l # NoLine
    /\ Room
    /\ robot' = [at |-> l, mode |-> "print"]
    /\ blocks' = blocks + 1
    /\ UNCHANGED <<fileVars, abortVars, suspendVars, threadVars, state_stack>>

(* G- and M-codes are refused in a halt; commands are not.  M23 and M32    *)
(* are made into commands.                                                 *)
Refused(cmd) == halted /\ cmd \in {"M24", "M25", "M26", "G28", "G0", "line"}

Receive ==
    /\ pc = "receive"
    /\ inbox # <<>>
    /\ inbox' = Tail(inbox)
    /\ LET m == Head(inbox) IN
       \/ /\ Refused(m.cmd)
          /\ pc' = "context"
          /\ UNCHANGED <<fileVars, abortVars, suspendVars, threadVars, robotVars>>
       \/ /\ ~Refused(m.cmd)
          /\ pc' = "context"
          /\ \/ Play(m.cmd) \/ AbortCommand(m.cmd)
             \/ M24(m.cmd) \/ M25(m.cmd) \/ M26(m.cmd)
             \/ G28(m.cmd) \/ suspend_command(m.cmd)
             \/ Move(m.cmd) \/ FileLine(m.line)
       \/ /\ m.cmd = "resume"
          /\ pc' = IF ~suspended THEN "context"
                   ELSE IF saved_temperatures THEN "heat" ELSE "unsuspend"
          /\ UNCHANGED <<fileVars, abortVars, suspendVars, threadVars, robotVars>>
    /\ UNCHANGED <<booted, hostVars, flushed>>

-----------------------------------------------------------------------------
(* After a message, or after 100 ms without one: in_command_ctx.           *)

(* In 100 ms a play thread gets to where it waits: for room in a queue, or *)
(* in its sleep of 200 ms.                                                 *)
Waits(t) == \/ at[t] \in {"none", "pause"}
            \/ at[t] = "room" /\ ~Room

TimesOut == inbox = <<>> /\ \A t \in Threads : Waits(t)

Boot ==
    /\ ~booted
    /\ booted' = TRUE
    /\ IF on_boot_gcode_enable THEN play_command(FALSE) ELSE UNCHANGED <<fileVars, threadVars>>
    /\ pc' = "receive"
    /\ UNCHANGED <<abortVars, suspendVars>>

(* mutant: the abort is completed while lines are still waiting *)
CompleteAbort_NotIdle(idle) ==
    /\ booted
    /\ abort_flg
    /\ abort_flg' = FALSE
    /\ pc' = "flush"
    /\ UNCHANGED <<booted, fileVars, threadVars, abort_thread, suspendVars>>

(* The abort is completed when the command thread is idle.                 *)
CompleteAbort(idle) ==
    /\ booted
    /\ abort_flg /\ idle
    /\ abort_flg' = FALSE
    /\ pc' = "flush"
    /\ UNCHANGED <<booted, fileVars, threadVars, abort_thread, suspendVars>>

(* mutant: busy turns of the command thread are counted, too *)
CountSuspend_NotIdle(idle) ==
    /\ booted
    /\ ~(abort_flg /\ idle)
    /\ suspended /\ suspend_loops > 0
    /\ suspend_loops' = suspend_loops - 1
    /\ pc' = IF suspend_loops = 1 THEN "suspend_wait" ELSE "receive"
    /\ UNCHANGED <<booted, fileVars, threadVars, abortVars, suspended, was_playing_file,
                   saved_temperatures, saved_position>>

(* mutant: the count goes on when it has come to its end *)
CountSuspend_Underflow(idle) ==
    /\ booted
    /\ ~(abort_flg /\ idle)
    /\ suspended /\ idle
    /\ suspend_loops' = suspend_loops - 1
    /\ pc' = IF suspend_loops = 1 THEN "suspend_wait" ELSE "receive"
    /\ UNCHANGED <<booted, fileVars, threadVars, abortVars, suspended, was_playing_file,
                   saved_temperatures, saved_position>>

(* mutant: it is tested before it is counted down *)
CountSuspend_PostDecrement(idle) ==
    /\ booted
    /\ ~(abort_flg /\ idle)
    /\ suspended /\ suspend_loops > 0 /\ idle
    /\ suspend_loops' = suspend_loops - 1
    /\ pc' = "receive"
    /\ UNCHANGED <<booted, fileVars, threadVars, abortVars, suspended, was_playing_file,
                   saved_temperatures, saved_position>>

(* The suspend is completed the second time that it is.                    *)
CountSuspend(idle) ==
    /\ booted
    /\ ~(abort_flg /\ idle)
    /\ suspended /\ suspend_loops > 0 /\ idle
    /\ suspend_loops' = suspend_loops - 1
    /\ pc' = IF suspend_loops = 1 THEN "suspend_wait" ELSE "receive"
    /\ UNCHANGED <<booted, fileVars, threadVars, abortVars, suspended, was_playing_file,
                   saved_temperatures, saved_position>>

NothingToDo(idle) ==
    /\ booted
    /\ idle => ~abort_flg /\ ~(suspended /\ suspend_loops > 0)
    /\ pc' = "receive"
    /\ UNCHANGED <<booted, fileVars, threadVars, abortVars, suspendVars>>

in_command_ctx ==
    /\ \/ pc = "context"
       \/ pc = "receive" /\ TimesOut
    /\ LET idle == pc = "receive" IN
       Boot \/ CompleteAbort(idle) \/ CountSuspend(idle) \/ NothingToDo(idle)
    /\ UNCHANGED <<inbox, robotVars, hostVars, flushed>>

(* Conveyor::flush_queue, and the position from the actuators: what was    *)
(* queued is dropped.                                                      *)
FlushQueue ==
    /\ pc = "flush"
    /\ blocks' = 0
    /\ robot' = IF blocks = 0 THEN robot ELSE [robot EXCEPT !.at = Away]
    /\ flushed' = prints
    /\ pc' = "receive"
    /\ UNCHANGED <<inbox, booted, fileVars, abortVars, suspendVars, threadVars, state_stack,
                   hostVars>>

-----------------------------------------------------------------------------
(* suspend_part2 and resume_command, with on_halt between their waits and  *)
(* tests.  wait_for_idle returns when the queue is empty.                  *)

SuspendWait ==
    /\ pc = "suspend_wait"
    /\ blocks = 0
    /\ IF halted
       THEN pc' = "receive" /\ suspended' = FALSE
       ELSE pc' = "suspend_save" /\ UNCHANGED suspended
    /\ UNCHANGED <<inbox, booted, fileVars, abortVars, was_playing_file, suspend_loops,
                   saved_temperatures, saved_position, threadVars, robotVars, hostVars, flushed>>

(* mutant: the position is saved after the robot has been parked *)
SuspendSave_Late ==
    /\ pc = "suspend_save"
    /\ push_state
    /\ saved_temperatures' \in (IF leave_heaters_on THEN {FALSE} ELSE BOOLEAN)
    /\ IF after_suspend_gcode /\ ~halted
       THEN robot' = [at |-> Away, mode |-> "user"] /\ blocks' = blocks + 1
       ELSE UNCHANGED <<robot, blocks>>
    /\ saved_position' = robot'.at
    /\ pc' = "receive"
    /\ UNCHANGED <<inbox, booted, fileVars, abortVars, suspended, was_playing_file,
                   suspend_loops, threadVars, hostVars, flushed>>

SuspendSave ==
    /\ pc = "suspend_save"
    /\ saved_position' = robot.at
    /\ push_state
    /\ saved_temperatures' \in (IF leave_heaters_on THEN {FALSE} ELSE BOOLEAN)
    /\ IF after_suspend_gcode /\ ~halted
       THEN robot' = [at |-> Away, mode |-> "user"] /\ blocks' = blocks + 1
       ELSE UNCHANGED <<robot, blocks>>
    /\ pc' = "receive"
    /\ UNCHANGED <<inbox, booted, fileVars, abortVars, suspended, was_playing_file,
                   suspend_loops, threadVars, hostVars, flushed>>

(* The heaters are waited for; a halt ends the wait.                       *)
WaitHeaters ==
    /\ pc = "heat"
    /\ IF halted
       THEN /\ pop_state(robot.at)
            /\ saved_temperatures' = FALSE
            /\ suspended' = FALSE
            /\ pc' = "context"
       ELSE /\ pc' = "unsuspend"
            /\ UNCHANGED <<saved_temperatures, suspended, robot, state_stack>>
    /\ UNCHANGED <<inbox, booted, fileVars, abortVars, was_playing_file, suspend_loops,
                   saved_position, threadVars, blocks, hostVars, flushed>>

(* mutant: the state is popped here and by Restore *)
Unsuspend_Pops ==
    /\ pc = "unsuspend"
    /\ saved_temperatures' = FALSE
    /\ suspended' = FALSE
    /\ pop_state(robot.at)
    /\ pc' = IF halted THEN "context" ELSE "restore"
    /\ UNCHANGED <<inbox, booted, fileVars, abortVars, was_playing_file, suspend_loops,
                   saved_position, threadVars, blocks, hostVars, flushed>>

Unsuspend ==
    /\ pc = "unsuspend"
    /\ saved_temperatures' = FALSE
    /\ suspended' = FALSE
    /\ IF halted
       THEN pop_state(robot.at) /\ pc' = "context"
       ELSE UNCHANGED <<robot, state_stack>> /\ pc' = "restore"
    /\ UNCHANGED <<inbox, booted, fileVars, abortVars, was_playing_file, suspend_loops,
                   saved_position, threadVars, blocks, hostVars, flushed>>

(* The move back is refused in a halt.                                     *)
Restore ==
    /\ pc = "restore"
    /\ Room
    /\ pop_state(IF halted THEN robot.at ELSE saved_position)
    /\ blocks' = IF halted THEN blocks ELSE blocks + 1
    /\ pc' = "restored"
    /\ UNCHANGED <<inbox, booted, fileVars, abortVars, suspendVars, threadVars, hostVars, flushed>>

Restored ==
    /\ pc = "restored"
    /\ blocks = 0
    /\ IF halted
       THEN suspended' = FALSE /\ UNCHANGED <<playing_file, was_playing_file>>
       ELSE /\ playing_file' = (playing_file \/ was_playing_file)
            /\ was_playing_file' = FALSE
            /\ UNCHANGED suspended
    /\ pc' = "context"
    /\ UNCHANGED <<inbox, booted, filename, current_file_handler, prints, abortVars,
                   suspend_loops, saved_temperatures, saved_position, threadVars, robotVars,
                   hostVars, flushed>>

-----------------------------------------------------------------------------
(* A play thread.                                                          *)

Thread(t, from, to) == at[t] = from /\ at' = [at EXCEPT ![t] = to]

(* fgets; of a file that another thread has closed, as at its end.         *)
Fetch(t) ==
    /\ at[t] = "fetch"
    /\ IF current_file_handler = NoLine \/ current_file_handler[2] > FileLines
       THEN Thread(t, "fetch", "finish") /\ UNCHANGED <<buf, current_file_handler>>
       ELSE /\ Thread(t, "fetch", "look")
            /\ buf' = [buf EXCEPT ![t] = current_file_handler]
            /\ current_file_handler' = [current_file_handler EXCEPT ![2] = @ + 1]
    /\ UNCHANGED <<pc, inbox, booted, playing_file, filename, prints, abortVars, suspendVars,
                   robotVars, hostVars, flushed>>

(* mutant: a paused thread does not see the abort *)
Look_AbortMissed(t) ==
    /\ at[t] = "look"
    /\ \/ /\ ~playing_file /\ ~halted
          /\ Thread(t, "look", "pause")
          /\ UNCHANGED abort_thread
       \/ /\ playing_file \/ halted
          /\ abort_thread \/ halted
          /\ Thread(t, "look", "finish")
          /\ abort_thread' = FALSE
       \/ /\ playing_file /\ ~abort_thread /\ ~halted
          /\ Thread(t, "look", "room")
          /\ UNCHANGED abort_thread
    /\ UNCHANGED <<pc, inbox, booted, fileVars, abort_flg, suspendVars, buf, robotVars, hostVars,
                   flushed>>

(* Paused it sleeps and looks again; aborted or halted it ends.            *)
Look(t) ==
    /\ at[t] = "look"
    /\ \/ /\ ~playing_file /\ ~abort_thread /\ ~halted
          /\ Thread(t, "look", "pause")
          /\ UNCHANGED abort_thread
       \/ /\ abort_thread \/ halted
          /\ Thread(t, "look", "finish")
          /\ abort_thread' = FALSE
       \/ /\ playing_file /\ ~abort_thread /\ ~halted
          /\ Thread(t, "look", "room")
          /\ UNCHANGED abort_thread
    /\ UNCHANGED <<pc, inbox, booted, fileVars, abort_flg, suspendVars, buf, robotVars, hostVars,
                   flushed>>

WakeUp(t) ==
    /\ Thread(t, "pause", "look")
    /\ UNCHANGED <<pc, inbox, booted, fileVars, abortVars, suspendVars, buf, robotVars, hostVars,
                   flushed>>

wait_for_room(t) ==
    /\ Thread(t, "room", "send")
    /\ Room
    /\ UNCHANGED <<pc, inbox, booted, fileVars, abortVars, suspendVars, buf, robotVars, hostVars,
                   flushed>>

send_message_queue(t) ==
    /\ Thread(t, "send", "fetch")
    /\ Len(inbox) < QueueLength
    /\ inbox' = Append(inbox, Line(buf[t]))
    /\ buf' = [buf EXCEPT ![t] = NoLine]
    /\ UNCHANGED <<pc, booted, fileVars, abortVars, suspendVars, robotVars, hostVars, flushed>>

Finish(t) ==
    /\ Thread(t, "finish", "close")
    /\ playing_file' = FALSE
    /\ filename' = FALSE
    /\ buf' = [buf EXCEPT ![t] = NoLine]
    /\ UNCHANGED <<pc, inbox, booted, current_file_handler, prints, abortVars, suspendVars,
                   robotVars, hostVars, flushed>>

Close(t) ==
    /\ Thread(t, "close", "none")
    /\ current_file_handler' = NoLine
    /\ UNCHANGED <<pc, inbox, booted, playing_file, filename, prints, abortVars, suspendVars,
                   buf, robotVars, hostVars, flushed>>

-----------------------------------------------------------------------------
(* The interrupt runs a block, another thread halts the machine or unlocks *)
(* it, a host sends a command.                                             *)

RunBlock ==
    /\ blocks > 0
    /\ blocks' = blocks - 1
    /\ UNCHANGED <<pc, inbox, booted, fileVars, abortVars, suspendVars, threadVars, robot,
                   state_stack, hostVars, flushed>>

(* What was queued is dropped, which leaves the robot somewhere.           *)
on_halt ==
    /\ halts < MaxHalts
    /\ halts' = halts + 1
    /\ halted' = TRUE
    /\ blocks' = 0
    /\ LET place == IF blocks = 0 THEN robot.at ELSE Away IN
       IF suspended THEN ClearSuspend(place)
       ELSE robot' = [robot EXCEPT !.at = place] /\ UNCHANGED <<suspendVars, state_stack>>
    /\ UNCHANGED <<pc, inbox, booted, fileVars, abortVars, threadVars, sent, flushed>>

Pending(cmd) == \E i \in DOMAIN inbox : inbox[i].cmd = cmd

(* The print has ended of the halt, before it is lifted.                   *)
HaltSettled == /\ pc = "receive"
               /\ \A t \in Threads : at[t] = "none"
               /\ ~Pending("line")

Unlock ==
    /\ halted
    /\ HostWaits => HaltSettled
    /\ halted' = FALSE
    /\ UNCHANGED <<pc, inbox, booted, fileVars, abortVars, suspendVars, threadVars, robotVars,
                   sent, halts, flushed>>

(* A host that waits opens a file when none is open and an abort is over,  *)
(* after a suspend waits for "Print Suspended", and does not start again a *)
(* print whose suspend a homing has cancelled.                             *)
Suspended == /\ suspended /\ suspend_loops = 0 /\ pc = "receive"
             /\ ~Pending("suspend") /\ ~Pending("resume")

Awaited(cmd) ==
    CASE cmd \in {"play", "M23"} -> /\ NotPlaying /\ ~abort_flg /\ booted
                                    /\ ~ \E c \in {"play", "M23", "abort"} : Pending(c)
                                    /\ pc = "receive"
      [] cmd = "M24" -> /\ ~suspended /\ ~Pending("suspend")
                        /\ robot.at # Away \/ current_file_handler[2] <= 2
      [] cmd = "M26" -> playing_file /\ inbox = <<>> /\ pc = "receive"
      [] cmd \in {"resume", "G0", "G28"} -> Suspended
      [] cmd = "M25" -> TRUE
      [] cmd \in {"abort", "suspend"} -> TRUE

Send(cmd) ==
    /\ sent < MaxCommands
    /\ Len(inbox) < QueueLength
    /\ HostWaits => Awaited(cmd)
    /\ inbox' = Append(inbox, Message(cmd))
    /\ sent' = sent + 1
    /\ UNCHANGED <<pc, booted, fileVars, abortVars, suspendVars, threadVars, robotVars, halts,
                   halted, flushed>>

-----------------------------------------------------------------------------
Command == \/ Receive \/ in_command_ctx \/ FlushQueue
           \/ SuspendWait \/ SuspendSave
           \/ WaitHeaters \/ Unsuspend \/ Restore \/ Restored

PlayThread(t) == \/ Fetch(t) \/ Look(t) \/ WakeUp(t) \/ wait_for_room(t)
                 \/ send_message_queue(t) \/ Finish(t) \/ Close(t)

Next == \/ Command
        \/ \E t \in Threads : PlayThread(t)
        \/ RunBlock \/ on_halt \/ Unlock
        \/ \E cmd \in Commands : Send(cmd)

Spec == Init /\ [][Next]_vars

(* Every thread runs in the end, whichever preempts it, and blocks end;    *)
(* nobody has to send, halt or unlock.                                     *)
Fairness == /\ SF_vars(Command)
            /\ \A t \in Threads : SF_vars(PlayThread(t))
            /\ WF_vars(RunBlock)

FairSpec == Spec /\ Fairness

-----------------------------------------------------------------------------
TypeOK ==
    /\ pc \in {"receive", "context", "flush", "suspend_wait", "suspend_save", "heat",
               "unsuspend", "restore", "restored"}
    /\ \A i \in DOMAIN inbox : /\ inbox[i].cmd \in Commands \cup {"line"}
                               /\ inbox[i].line \in Lines \cup {NoLine}
    /\ Len(inbox) <= QueueLength
    /\ {booted, playing_file, filename, abort_thread, abort_flg, suspended, was_playing_file,
        saved_temperatures, halted} \subseteq BOOLEAN
    /\ current_file_handler \in ((1 .. MaxPrints) \X (1 .. FileLines + 1)) \cup {NoLine}
    /\ suspend_loops \in 0 .. 2
    /\ at \in [Threads -> {"none", "fetch", "look", "pause", "room", "send", "finish", "close"}]
    /\ buf \in [Threads -> Lines \cup {NoLine}]
    /\ {robot.at, saved_position} \subseteq Lines \cup {Away}
    /\ blocks \in 0 .. Capacity

(* Line l is taken from the message queue and executed.                    *)
Executes(l) == /\ pc = "receive"
               /\ ~halted
               /\ inbox # <<>>
               /\ Head(inbox) = Line(l)
               /\ inbox' = Tail(inbox)

(* A line of a print is executed where the line before it ended and with   *)
(* the modes of the print: none is lost, doubled or overtaken, and a       *)
(* resume brings back what the suspend saved.                              *)
PrintContinues ==
    [][\A l \in Lines : Executes(l) /\ l[2] > 1 =>
           robot = [at |-> <<l[1], l[2] - 1>>, mode |-> "print"]]_vars

(* Player.cpp, suspend_command: "we need to allow command thread to cycle  *)
(* a few times to clear any buffered commands": nothing of the file is     *)
(* executed once the print is suspended.                                   *)
SuspendedIsQuiet ==
    [][\A l \in Lines : Executes(l) => ~(suspended /\ suspend_loops = 0)]_vars

(* Player.cpp, abort_command: "we need to flush the message queue as well":*)
(* nothing of a print is executed once its abort is complete.              *)
AbortLeavesNothing == [][\A l \in Lines : Executes(l) => l[1] > flushed]_vars

(* A file has one reader.                                                  *)
OneReader == \A t, u \in Threads : at[t] # "none" /\ at[u] # "none" => t = u

(* As long as there is no halt, nobody pops what the user has pushed.      *)
UserStateKept == halts = 0 => state_stack # <<>> /\ Head(state_stack) = "user"

(* An abort ends a print, wherever its thread waits, and so does a halt     *)
(* that stays.                                                             *)
PrintStops ==
    /\ abort_thread /\ current_file_handler # NoLine ~> current_file_handler = NoLine
    /\ halted /\ current_file_handler # NoLine ~> current_file_handler = NoLine \/ ~halted

(* A suspend is completed, or cancelled.                                   *)
SuspendCompletes == suspended /\ suspend_loops > 0 ~> ~suspended \/ pc = "suspend_save"

(* Player.cpp, play_command: "Currently printing, abort print first": an   *)
(* abort makes room for the next print.                                    *)
AbortFreesPlayer == abort_flg ~> ~playing_file
=============================================================================
