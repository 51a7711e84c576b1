---------------------------- MODULE PlayerProofs ----------------------------
(***************************************************************************)
(* Proofs about Player, for any threads, lines, queues, commands and       *)
(* numbers of prints and halts.                                            *)
(*                                                                         *)
(*   TypeCorrect         types, for any host                               *)
(*   FileHasOneReader    } with a host that waits for its answers          *)
(*   UserStateIsKept     }                                                 *)
(*   AbortIsComplete     } and when no line waits for room in the planner  *)
(*   SuspendIsQuiet      } queue while its print is being aborted, is      *)
(*   PrintIsContinued    } suspended, or both                              *)
(***************************************************************************)
EXTENDS Player, SequenceTheorems, TLAPS

Places == {"receive", "context", "flush", "suspend_wait", "suspend_save", "heat", "unsuspend",
           "restore", "restored"}

Messages == {Message(c) : c \in Commands} \cup {Line(l) : l \in Lines \cup {NoLine}}

Modes == {"user", "print"}

PlayStates == {"none", "fetch", "look", "pause", "room", "send", "finish", "close"}

-----------------------------------------------------------------------------
(* Sequences.                                                              *)

LEMMA FrontProperties ==
    ASSUME NEW S, NEW s \in Seq(S)
    PROVE  /\ Front(s) \in Seq(S)
           /\ s # <<>> => Len(Front(s)) = Len(s) - 1 /\ Last(s) \in S
           /\ Len(s) >= 2 => Front(s)[1] = s[1]
<1>1. CASE s = <<>>
  <2>1. Front(s) = <<>>
    BY <1>1 DEF Front
  <2> QED BY <1>1, <2>1
<1>2. CASE s # <<>>
  <2>1. Len(s) \in Nat \ {0}
    BY <1>2, EmptySeq
  <2> DEFINE n == Len(s) - 1
  <2>2. n \in Nat /\ \A i \in 1 .. n : s[i] \in S
    BY <2>1
  <2>3. /\ SubSeq(s, 1, n) \in Seq(S) /\ Len(SubSeq(s, 1, n)) = IF 1 <= n THEN n - 1 + 1 ELSE 0
        /\ \A i \in 1 .. n - 1 + 1 : SubSeq(s, 1, n)[i] = s[1 + i - 1]
    BY <2>2, SubSeqProperties
  <2>4. Last(s) \in S
    BY <2>1 DEF Last
  <2> HIDE DEF n
  <2>5. n - 1 + 1 = n /\ (1 <= n => 1 \in 1 .. n)
    BY <2>2
  <2>6. /\ SubSeq(s, 1, n) \in Seq(S) /\ Len(SubSeq(s, 1, n)) = n
        /\ 1 <= n => SubSeq(s, 1, n)[1] = s[1]
    BY <2>2, <2>3, <2>5
  <2>7. /\ Front(s) \in Seq(S) /\ Len(Front(s)) = n
        /\ 1 <= n => Front(s)[1] = s[1]
    BY <2>6 DEF Front, n
  <2> QED BY <2>1, <2>4, <2>7 DEF n
<1> QED BY <1>1, <1>2

(* What is taken from the message queue is its head; the others move up.   *)
LEMMA Taken ==
    ASSUME NEW S, NEW s \in Seq(S), s # <<>>
    PROVE  /\ Tail(s) \in Seq(S) /\ Len(Tail(s)) = Len(s) - 1 /\ Len(s) \in Nat \ {0}
           /\ Head(s) = s[1] /\ s[1] \in S /\ 1 \in DOMAIN s
           /\ \A i \in DOMAIN Tail(s) : i + 1 \in DOMAIN s /\ Tail(s)[i] = s[i + 1] /\ i \in Nat \ {0}
<1>1. Len(s) \in Nat \ {0}
  BY EmptySeq
<1>2. /\ Tail(s) \in Seq(S) /\ Len(Tail(s)) = Len(s) - 1
      /\ \A i \in 1 .. Len(Tail(s)) : Tail(s)[i] = s[i + 1]
  BY HeadTailProperties
<1>3. DOMAIN Tail(s) = 1 .. Len(s) - 1 /\ DOMAIN s = 1 .. Len(s)
  BY <1>2
<1> QED BY <1>1, <1>2, <1>3

(* What is sent is put behind the others.                                  *)
LEMMA Put ==
    ASSUME NEW S, NEW s \in Seq(S), NEW m \in S
    PROVE  /\ Append(s, m) \in Seq(S) /\ Len(Append(s, m)) = Len(s) + 1 /\ Len(s) \in Nat
           /\ DOMAIN Append(s, m) = DOMAIN s \cup {Len(s) + 1} /\ DOMAIN s = 1 .. Len(s)
           /\ Append(s, m)[Len(s) + 1] = m
           /\ \A i \in DOMAIN s : Append(s, m)[i] = s[i]
<1>1. Len(s) \in Nat /\ DOMAIN s = 1 .. Len(s)
  OBVIOUS
<1>2. /\ Append(s, m) \in Seq(S) /\ Len(Append(s, m)) = Len(s) + 1
      /\ \A i \in 1 .. Len(s) : Append(s, m)[i] = s[i]
      /\ Append(s, m)[Len(s) + 1] = m
  BY AppendProperties
<1>3. DOMAIN Append(s, m) = 1 .. Len(s) + 1
  BY <1>2
<1> QED BY <1>1, <1>2, <1>3

LEMMA MessageFields ==
    ASSUME NEW m \in Messages
    PROVE  /\ m.cmd \in Commands \cup {"line"} /\ m.line \in Lines \cup {NoLine}
           /\ m.cmd # "line" => m.line = NoLine
BY DEF Messages, Message, Line

-----------------------------------------------------------------------------
(* Types.                                                                  *)

FileTypes == /\ playing_file \in BOOLEAN /\ filename \in BOOLEAN
             /\ current_file_handler \in ((1 .. MaxPrints) \X (1 .. FileLines + 1)) \cup {NoLine}
             /\ prints \in 0 .. MaxPrints

ThreadTypes == at \in [Threads -> PlayStates] /\ buf \in [Threads -> Lines \cup {NoLine}]

SuspendFlags == suspended \in BOOLEAN /\ was_playing_file \in BOOLEAN /\ saved_temperatures \in BOOLEAN

SuspendTypes == /\ SuspendFlags
                /\ suspend_loops \in 0 .. 2
                /\ saved_position \in Lines \cup {Away}

RobotTypes == /\ robot \in [at : Lines \cup {Away}, mode : Modes]
              /\ state_stack \in Seq(Modes)
              /\ blocks \in 0 .. Capacity
              /\ pc = "suspend_save" => blocks = 0

InboxTypes == inbox \in Seq(Messages) /\ Len(inbox) <= QueueLength

OtherTypes == /\ pc \in Places
              /\ booted \in BOOLEAN /\ halted \in BOOLEAN
              /\ halts \in Nat /\ flushed \in 0 .. MaxPrints

AbortTypes == abort_thread \in BOOLEAN /\ abort_flg \in BOOLEAN

TypeInv == FileTypes /\ AbortTypes /\ ThreadTypes /\ SuspendTypes /\ RobotTypes /\ InboxTypes /\ OtherTypes

LEMMA TypesSuffice == TypeInv => TypeOK
<1> SUFFICES ASSUME TypeInv PROVE TypeOK
  OBVIOUS
<1>1. \A i \in DOMAIN inbox : inbox[i].cmd \in Commands \cup {"line"}
                              /\ inbox[i].line \in Lines \cup {NoLine}
  <2>1. \A i \in DOMAIN inbox : inbox[i] \in Messages
    BY DEF TypeInv, InboxTypes
  <2> QED BY <2>1, MessageFields
<1>2. {robot.at, saved_position} \subseteq Lines \cup {Away}
  BY DEF TypeInv, RobotTypes, SuspendTypes
<1> QED BY <1>1, <1>2 DEF TypeOK, TypeInv, FileTypes, AbortTypes, ThreadTypes, SuspendTypes, SuspendFlags,
           RobotTypes, InboxTypes, OtherTypes, Places, PlayStates

LEMMA InitTypes == Init => TypeInv
<1> SUFFICES ASSUME Init PROVE TypeInv
  OBVIOUS
<1>1. <<>> \in Seq(Messages) /\ Len(<<>>) = 0 /\ <<"user">> \in Seq(Modes)
  BY DEF Modes
<1>2. 0 \in 0 .. MaxPrints /\ 0 \in 0 .. Capacity /\ 0 <= QueueLength
  BY PlayerAssumption
<1>3. RobotTypes
  BY <1>1, <1>2 DEF Init, RobotTypes, Modes, Away
<1>4. FileTypes /\ AbortTypes /\ InboxTypes /\ OtherTypes
  BY <1>1, <1>2 DEF Init, FileTypes, AbortTypes, InboxTypes, OtherTypes, Places
<1>5. ThreadTypes
  BY DEF Init, ThreadTypes, PlayStates
<1>6. SuspendTypes
  <2>1. SuspendFlags
    BY DEF Init, SuspendFlags
  <2> QED BY <2>1 DEF Init, SuspendTypes, Away
<1> QED BY <1>3, <1>4, <1>5, <1>6 DEF TypeInv

LEMMA OpenTypes ==
    ASSUME FileTypes, ThreadTypes, NEW paused \in BOOLEAN, open_file(paused)
    PROVE  FileTypes' /\ ThreadTypes'
<1>1. /\ FileLines \in Nat \ {0} /\ MaxPrints \in Nat
  BY PlayerAssumption
<1>2. CASE prints < MaxPrints /\ prints' = prints + 1 /\ current_file_handler' = <<prints + 1, 1>>
           /\ playing_file' = ~paused /\ StartThread
  <2>1. prints + 1 \in 1 .. MaxPrints /\ prints + 1 \in 0 .. MaxPrints /\ 1 \in 1 .. FileLines + 1
    BY <1>1, <1>2 DEF FileTypes
  <2>2. FileTypes'
    BY <1>2, <2>1 DEF FileTypes, open_file
  <2>3. ThreadTypes'
    BY <1>2 DEF StartThread, ThreadTypes, PlayStates
  <2> QED BY <2>2, <2>3
<1>3. CASE current_file_handler' = NoLine /\ UNCHANGED <<prints, playing_file, threadVars>>
  BY <1>3 DEF FileTypes, ThreadTypes, open_file, threadVars
<1> QED BY <1>2, <1>3 DEF open_file

LEMMA PlayTypes ==
    ASSUME FileTypes, ThreadTypes, NEW paused \in BOOLEAN, play_command(paused)
    PROVE  FileTypes' /\ ThreadTypes'
<1>1. CASE UNCHANGED <<fileVars, threadVars>>
  BY <1>1 DEF FileTypes, ThreadTypes, fileVars, threadVars
<1>2. CASE open_file(paused)
  BY <1>2, OpenTypes
<1> QED BY <1>1, <1>2 DEF play_command

LEMMA PopTypes ==
    ASSUME TypeInv, NEW place \in Lines \cup {Away}, pop_state(place)
    PROVE  robot' \in [at : Lines \cup {Away}, mode : Modes] /\ state_stack' \in Seq(Modes)
<1>1. state_stack \in Seq(Modes) /\ robot.mode \in Modes
  BY DEF TypeInv, RobotTypes
<1>2. Front(state_stack) \in Seq(Modes) /\ (state_stack # <<>> => Last(state_stack) \in Modes)
  BY <1>1, FrontProperties
<1> QED BY <1>1, <1>2 DEF pop_state

(* A message in the command thread.                                        *)
LEMMA ReceiveTypes == ASSUME TypeInv, Receive PROVE TypeInv'
<1> DEFINE m == Head(inbox)
<1>1. /\ Tail(inbox) \in Seq(Messages) /\ Len(Tail(inbox)) <= QueueLength /\ m \in Messages
  <2>1. inbox \in Seq(Messages) /\ inbox # <<>> /\ Len(inbox) <= QueueLength /\ QueueLength \in Nat
    BY PlayerAssumption DEF Receive, TypeInv, InboxTypes
  <2> QED BY <2>1, Taken
<1>2. InboxTypes' /\ OtherTypes'
  <2>1. pc' \in Places
    BY DEF Receive, Places
  <2> QED BY <1>1, <2>1 DEF Receive, TypeInv, InboxTypes, OtherTypes, hostVars
<1>3. pc' # "suspend_save"
  BY DEF Receive
<1>4. ASSUME UNCHANGED <<fileVars, abortVars, suspendVars, threadVars, robotVars>>
      PROVE  TypeInv'
  BY <1>2, <1>3, <1>4 DEF TypeInv, FileTypes, AbortTypes, ThreadTypes, SuspendTypes, SuspendFlags, RobotTypes,
     fileVars, suspendVars, threadVars, robotVars, abortVars
<1>5. CASE Play(m.cmd)
  <2>1. FileTypes' /\ ThreadTypes'
    <3>1. (m.cmd = "M23") \in BOOLEAN
      OBVIOUS
    <3> QED BY <1>5, <3>1, PlayTypes DEF Play, TypeInv
  <2> QED BY <1>2, <1>3, <1>5, <2>1 DEF Play, TypeInv, AbortTypes, SuspendTypes, SuspendFlags, RobotTypes,
             suspendVars, robotVars, abortVars
<1>6. CASE AbortCommand(m.cmd)
  <2>1. AbortTypes' /\ SuspendTypes'
    BY <1>6 DEF AbortCommand, abort_command, TypeInv, AbortTypes, SuspendTypes, SuspendFlags, abortVars
  <2> QED BY <1>2, <1>3, <1>6, <2>1 DEF AbortCommand, TypeInv, FileTypes, ThreadTypes, RobotTypes,
             fileVars, threadVars, robotVars
<1>7. CASE M24(m.cmd) \/ M25(m.cmd)
  <2>1. FileTypes'
    BY <1>7 DEF M24, M25, TypeInv, FileTypes
  <2> QED BY <1>2, <1>3, <1>7, <2>1 DEF M24, M25, TypeInv, AbortTypes, ThreadTypes, SuspendTypes, SuspendFlags,
             RobotTypes, abortVars, suspendVars, threadVars, robotVars
<1>8. CASE M26(m.cmd)
  <2>1. AbortTypes' /\ SuspendTypes'
    BY <1>8 DEF M26, abort_command, TypeInv, AbortTypes, SuspendTypes, SuspendFlags, abortVars
  <2>2. FileTypes' /\ ThreadTypes'
    <3>1. CASE open_file(FALSE)
      BY <3>1, OpenTypes DEF TypeInv
    <3>2. CASE UNCHANGED <<fileVars, threadVars>>
      BY <3>2 DEF TypeInv, FileTypes, ThreadTypes, fileVars, threadVars
    <3> QED BY <1>8, <3>1, <3>2 DEF M26
  <2> QED BY <1>2, <1>3, <1>8, <2>1, <2>2 DEF M26, TypeInv, RobotTypes, robotVars
<1>9. CASE G28(m.cmd)
  <2>1. Away \in Lines \cup {Away}
    OBVIOUS
  <2>2. robot' \in [at : Lines \cup {Away}, mode : Modes] /\ state_stack' \in Seq(Modes)
    <3>1. CASE suspended
      BY <1>9, <2>1, <3>1, PopTypes DEF G28, ClearSuspend
    <3>2. CASE ~suspended
      BY <1>9, <3>2 DEF G28, TypeInv, RobotTypes
    <3> QED BY <3>1, <3>2
  <2>3. SuspendTypes'
    <3>1. SuspendFlags'
      BY <1>9 DEF G28, ClearSuspend, TypeInv, SuspendTypes, SuspendFlags, suspendVars
    <3> QED BY <1>9, <3>1 DEF G28, ClearSuspend, TypeInv, SuspendTypes, suspendVars
  <2> QED BY <1>2, <1>3, <1>9, <2>2, <2>3 DEF G28, TypeInv, FileTypes, AbortTypes, ThreadTypes, RobotTypes,
             fileVars, abortVars, threadVars
<1>10. CASE suspend_command(m.cmd)
  <2>1. SuspendFlags' /\ playing_file' \in BOOLEAN
    BY <1>10 DEF suspend_command, TypeInv, SuspendTypes, SuspendFlags, FileTypes, suspendVars
  <2>2. SuspendTypes' /\ FileTypes'
    BY <1>10, <2>1 DEF suspend_command, TypeInv, SuspendTypes, FileTypes, suspendVars
  <2> QED BY <1>2, <1>3, <1>10, <2>2 DEF suspend_command, TypeInv, AbortTypes, ThreadTypes, RobotTypes,
             abortVars, threadVars, robotVars
<1>11. CASE ~Refused(m.cmd) /\ (Move(m.cmd) \/ FileLine(m.line))
  <2>1. ~halted /\ Room
    <3>1. m.line # NoLine => m.cmd = "line"
      BY <1>1, MessageFields
    <3> QED BY <1>11, <3>1 DEF Move, FileLine, Refused
  <2>2. RobotTypes'
    <3>1. blocks' \in 0 .. Capacity
      BY <1>11, <2>1, PlayerAssumption DEF Move, FileLine, Room, TypeInv, RobotTypes
    <3>2. robot' \in [at : Lines \cup {Away}, mode : Modes]
      <4>1. m.line \in Lines \cup {NoLine}
        BY <1>1, MessageFields
      <4> QED BY <1>11, <4>1 DEF Move, FileLine, Away, Modes
    <3>3. state_stack' = state_stack
      BY <1>11 DEF Move, FileLine
    <3> QED BY <1>3, <3>1, <3>2, <3>3 DEF TypeInv, RobotTypes
  <2> QED BY <1>2, <1>11, <2>2 DEF Move, FileLine, TypeInv, FileTypes, AbortTypes, ThreadTypes, SuspendTypes, SuspendFlags,
             fileVars, abortVars, suspendVars, threadVars
<1> HIDE DEF m
<1> QED BY <1>4, <1>5, <1>6, <1>7, <1>8, <1>9, <1>10, <1>11 DEF Receive, m

(* The rest of the command thread.                                         *)
LEMMA CommandTypes ==
    ASSUME TypeInv,
           in_command_ctx \/ FlushQueue \/ SuspendWait \/ SuspendSave \/ WaitHeaters \/ Unsuspend
               \/ Restore \/ Restored
    PROVE  TypeInv'
<1>1. CASE in_command_ctx
  <2> DEFINE idle == pc = "receive"
  <2>1. CASE Boot
    <3>1. FileTypes' /\ ThreadTypes'
      <4>1. CASE play_command(FALSE)
        BY <4>1, PlayTypes DEF TypeInv
      <4>2. CASE UNCHANGED <<fileVars, threadVars>>
        BY <4>2 DEF TypeInv, FileTypes, ThreadTypes, fileVars, threadVars
      <4>3. CASE on_boot_gcode_enable
        BY <2>1, <4>1, <4>3 DEF Boot
      <4>4. CASE ~on_boot_gcode_enable
        BY <2>1, <4>2, <4>4 DEF Boot
      <4> QED BY <4>3, <4>4
    <3>2. AbortTypes' /\ SuspendTypes'
      <4>1. UNCHANGED <<abortVars, suspendVars>>
        BY <2>1 DEF Boot
      <4>2. SuspendFlags'
        BY <4>1 DEF TypeInv, SuspendTypes, SuspendFlags, suspendVars
      <4> QED BY <4>1, <4>2 DEF TypeInv, AbortTypes, SuspendTypes, abortVars, suspendVars
    <3>3. UNCHANGED <<inbox, robotVars, hostVars, flushed>> /\ booted' = TRUE /\ pc' = "receive"
      BY <1>1, <2>1 DEF in_command_ctx, Boot
    <3>4. RobotTypes' /\ InboxTypes'
      BY <3>3 DEF TypeInv, RobotTypes, InboxTypes, robotVars
    <3>5. OtherTypes'
      BY <3>3 DEF TypeInv, OtherTypes, Places, hostVars
    <3> QED BY <3>1, <3>2, <3>4, <3>5 DEF TypeInv
  <2>2. CASE CompleteAbort(idle) \/ NothingToDo(idle)
    <3>1. /\ UNCHANGED <<inbox, robotVars, hostVars, flushed, booted, fileVars, threadVars, suspendVars>>
          /\ pc' \in {"flush", "receive"}
          /\ UNCHANGED abort_thread /\ (abort_flg' = FALSE \/ UNCHANGED abort_flg)
      BY <1>1, <2>2 DEF in_command_ctx, CompleteAbort, NothingToDo, abortVars
    <3>2. AbortTypes'
      BY <3>1 DEF TypeInv, AbortTypes
    <3>3. SuspendFlags'
      BY <3>1 DEF TypeInv, SuspendTypes, SuspendFlags, suspendVars
    <3>4. FileTypes' /\ ThreadTypes' /\ SuspendTypes' /\ RobotTypes' /\ InboxTypes'
      BY <3>1, <3>3 DEF TypeInv, FileTypes, ThreadTypes, SuspendTypes, RobotTypes, InboxTypes,
         fileVars, threadVars, suspendVars, robotVars
    <3>5. OtherTypes'
      BY <3>1 DEF TypeInv, OtherTypes, Places, hostVars
    <3> QED BY <3>2, <3>4, <3>5 DEF TypeInv
  <2>3. CASE CountSuspend(idle)
    <3>1. suspend_loops' \in 0 .. 2
      BY <2>3 DEF CountSuspend, TypeInv, SuspendTypes
    <3> QED BY <1>1, <2>3, <3>1 DEF in_command_ctx, CountSuspend, TypeInv, FileTypes, ThreadTypes,
               AbortTypes, SuspendTypes, SuspendFlags, RobotTypes, InboxTypes, OtherTypes, Places, fileVars,
               threadVars, abortVars, robotVars, hostVars
  <2> QED BY <1>1, <2>1, <2>2, <2>3 DEF in_command_ctx
<1>2. CASE FlushQueue
  <2>1. RobotTypes'
    BY <1>2, PlayerAssumption DEF FlushQueue, TypeInv, RobotTypes
  <2> QED BY <1>2, <2>1 DEF FlushQueue, TypeInv, FileTypes, ThreadTypes, AbortTypes, SuspendTypes,
             SuspendFlags, InboxTypes, OtherTypes, Places, fileVars, threadVars, abortVars, suspendVars,
             hostVars
<1>3. CASE SuspendWait
  <2>1. SuspendFlags'
    BY <1>3 DEF SuspendWait, TypeInv, SuspendTypes, SuspendFlags
  <2>2. SuspendTypes' /\ FileTypes' /\ ThreadTypes' /\ AbortTypes' /\ InboxTypes'
    BY <1>3, <2>1 DEF SuspendWait, TypeInv, SuspendTypes, FileTypes, ThreadTypes, AbortTypes, InboxTypes,
       fileVars, threadVars, abortVars
  <2>3. RobotTypes'
    BY <1>3 DEF SuspendWait, TypeInv, RobotTypes, robotVars
  <2>4. OtherTypes'
    BY <1>3 DEF SuspendWait, TypeInv, OtherTypes, Places, hostVars
  <2> QED BY <2>2, <2>3, <2>4 DEF TypeInv
<1>4. CASE SuspendSave
  <2>1. SuspendTypes'
    <3>1. saved_temperatures' \in BOOLEAN /\ robot.at \in Lines \cup {Away}
      BY <1>4 DEF SuspendSave, TypeInv, RobotTypes
    <3> QED BY <1>4, <3>1 DEF SuspendSave, TypeInv, SuspendTypes, SuspendFlags
  <2>2. RobotTypes'
    <3>1. state_stack' \in Seq(Modes)
      <4>1. robot.mode \in Modes /\ state_stack \in Seq(Modes)
        BY DEF TypeInv, RobotTypes
      <4> QED BY <1>4, <4>1 DEF SuspendSave, push_state
    <3>2. robot' \in [at : Lines \cup {Away}, mode : Modes]
      BY <1>4 DEF SuspendSave, TypeInv, RobotTypes, Modes
    <3>3. blocks' \in 0 .. Capacity
      BY <1>4, PlayerAssumption DEF SuspendSave, TypeInv, RobotTypes
    <3> QED BY <1>4, <3>1, <3>2, <3>3 DEF SuspendSave, RobotTypes
  <2> QED BY <1>4, <2>1, <2>2 DEF SuspendSave, TypeInv, FileTypes, ThreadTypes, AbortTypes,
             InboxTypes, OtherTypes, Places, fileVars, threadVars, abortVars, hostVars
<1>5. CASE WaitHeaters \/ Unsuspend \/ Restore
  <2>1. RobotTypes'
    <3>1. blocks' \in 0 .. Capacity
      BY <1>5, PlayerAssumption DEF WaitHeaters, Unsuspend, Restore, Room, TypeInv, RobotTypes
    <3>2. robot.at \in Lines \cup {Away} /\ saved_position \in Lines \cup {Away}
      BY DEF TypeInv, RobotTypes, SuspendTypes
    <3>3. robot' \in [at : Lines \cup {Away}, mode : Modes] /\ state_stack' \in Seq(Modes)
      <4>1. CASE UNCHANGED <<robot, state_stack>>
        BY <4>1 DEF TypeInv, RobotTypes
      <4>2. CASE pop_state(robot.at) \/ pop_state(saved_position)
        BY <3>2, <4>2, PopTypes
      <4> QED BY <1>5, <4>1, <4>2 DEF WaitHeaters, Unsuspend, Restore
    <3>4. pc' # "suspend_save"
      BY <1>5 DEF WaitHeaters, Unsuspend, Restore
    <3> QED BY <3>1, <3>3, <3>4 DEF RobotTypes
  <2>2. SuspendTypes'
    <3>1. SuspendFlags'
      BY <1>5 DEF WaitHeaters, Unsuspend, Restore, TypeInv, SuspendTypes, SuspendFlags, suspendVars
    <3> QED BY <1>5, <3>1 DEF WaitHeaters, Unsuspend, Restore, TypeInv, SuspendTypes, suspendVars
  <2> QED BY <1>5, <2>1, <2>2 DEF WaitHeaters, Unsuspend, Restore, TypeInv, FileTypes, ThreadTypes,
             AbortTypes, InboxTypes, OtherTypes, Places, fileVars, threadVars, abortVars, hostVars
<1>6. CASE Restored
  <2>1. SuspendFlags' /\ playing_file' \in BOOLEAN
    BY <1>6 DEF Restored, TypeInv, SuspendTypes, SuspendFlags, FileTypes
  <2> QED BY <1>6, <2>1 DEF Restored, TypeInv, FileTypes, ThreadTypes, AbortTypes, SuspendTypes, RobotTypes,
             InboxTypes, OtherTypes, Places, threadVars, abortVars, robotVars, hostVars
<1> QED BY <1>1, <1>2, <1>3, <1>4, <1>5, <1>6

LEMMA ThreadStepTypes ==
    ASSUME TypeInv, NEW t \in Threads, PlayThread(t)
    PROVE  TypeInv'
<1>1. /\ UNCHANGED <<pc, booted, suspendVars, robotVars, hostVars, prints, flushed>>
      /\ SuspendTypes' /\ RobotTypes'
  BY DEF PlayThread, Fetch, Look, WakeUp, wait_for_room, send_message_queue, Finish, Close, fileVars,
     TypeInv, SuspendTypes, SuspendFlags, RobotTypes, suspendVars, robotVars
<1>2. OtherTypes'
  BY <1>1 DEF TypeInv, OtherTypes, hostVars
<1>3. CASE Fetch(t)
  <2>1. CASE current_file_handler = NoLine \/ current_file_handler[2] > FileLines
    BY <1>1, <1>2, <1>3, <2>1 DEF Fetch, Thread, TypeInv, FileTypes, AbortTypes, ThreadTypes, PlayStates,
       InboxTypes, abortVars
  <2>2. CASE ~(current_file_handler = NoLine \/ current_file_handler[2] > FileLines)
    <3>1. PICK p \in 1 .. MaxPrints, n \in 1 .. FileLines + 1 : current_file_handler = <<p, n>>
      BY <2>2 DEF TypeInv, FileTypes
    <3>2. n \in 1 .. FileLines /\ n + 1 \in 1 .. FileLines + 1
      BY <2>2, <3>1, PlayerAssumption
    <3>3. /\ current_file_handler \in Lines
          /\ [current_file_handler EXCEPT ![2] = @ + 1] = <<p, n + 1>>
      BY <3>1, <3>2 DEF Lines
    <3>4. ThreadTypes'
      BY <1>3, <2>2, <3>3 DEF Fetch, Thread, TypeInv, ThreadTypes, PlayStates
    <3>5. FileTypes'
      <4>1. current_file_handler' = <<p, n + 1>>
        BY <1>3, <2>2, <3>3 DEF Fetch
      <4>2. <<p, n + 1>> \in (1 .. MaxPrints) \X (1 .. FileLines + 1)
        BY <3>2
      <4> QED BY <1>1, <1>3, <4>1, <4>2 DEF Fetch, TypeInv, FileTypes
    <3> QED BY <1>1, <1>2, <1>3, <3>4, <3>5 DEF Fetch, TypeInv, AbortTypes, InboxTypes, abortVars
  <2> QED BY <2>1, <2>2
<1>4. CASE Look(t)
  BY <1>1, <1>2, <1>4 DEF Look, Thread, TypeInv, FileTypes, AbortTypes, ThreadTypes, PlayStates,
     InboxTypes, fileVars
<1>5. CASE WakeUp(t) \/ wait_for_room(t)
  BY <1>1, <1>2, <1>5 DEF WakeUp, wait_for_room, Thread, TypeInv, FileTypes, AbortTypes, ThreadTypes,
     PlayStates, InboxTypes, fileVars, abortVars
<1>6. CASE send_message_queue(t)
  <2>1. Line(buf[t]) \in Messages
    BY DEF Messages, TypeInv, ThreadTypes
  <2>2. InboxTypes'
    <3>1. inbox \in Seq(Messages) /\ QueueLength \in Nat
      BY PlayerAssumption DEF TypeInv, InboxTypes
    <3> QED BY <1>6, <2>1, <3>1, Put DEF send_message_queue, InboxTypes
  <2> QED BY <1>1, <1>2, <1>6, <2>2 DEF send_message_queue, Thread, TypeInv, FileTypes, AbortTypes,
             ThreadTypes, PlayStates, fileVars, abortVars
<1>7. CASE Finish(t) \/ Close(t)
  BY <1>1, <1>2, <1>7 DEF Finish, Close, Thread, TypeInv, FileTypes, AbortTypes, ThreadTypes, PlayStates,
     InboxTypes, abortVars
<1> QED BY <1>3, <1>4, <1>5, <1>6, <1>7 DEF PlayThread

LEMMA NextTypes == ASSUME TypeInv, [Next]_vars PROVE TypeInv'
<1>1. CASE RunBlock
  <2>1. blocks' \in 0 .. Capacity /\ pc # "suspend_save"
    BY <1>1, PlayerAssumption DEF RunBlock, TypeInv, RobotTypes
  <2> QED BY <1>1, <2>1 DEF RunBlock, TypeInv, FileTypes, AbortTypes, ThreadTypes, SuspendTypes, SuspendFlags,
             RobotTypes, InboxTypes, OtherTypes, fileVars, abortVars, threadVars, suspendVars, hostVars
<1>2. CASE on_halt
  <2> DEFINE place == IF blocks = 0 THEN robot.at ELSE Away
  <2>1. place \in Lines \cup {Away}
    BY DEF TypeInv, RobotTypes
  <2>2. RobotTypes'
    <3>1. robot' \in [at : Lines \cup {Away}, mode : Modes] /\ state_stack' \in Seq(Modes)
      <4> HIDE DEF place
      <4>1. CASE ClearSuspend(place)
        BY <2>1, <4>1, PopTypes DEF ClearSuspend
      <4>2. CASE robot' = [robot EXCEPT !.at = place] /\ UNCHANGED <<suspendVars, state_stack>>
        BY <2>1, <4>2 DEF TypeInv, RobotTypes
      <4> QED BY <1>2, <4>1, <4>2 DEF on_halt, place
    <3> QED BY <1>2, <3>1, PlayerAssumption DEF on_halt, RobotTypes
  <2>3. SuspendTypes'
    <3>1. SuspendFlags'
      BY <1>2 DEF on_halt, ClearSuspend, TypeInv, SuspendTypes, SuspendFlags, suspendVars
    <3> QED BY <1>2, <3>1 DEF on_halt, ClearSuspend, TypeInv, SuspendTypes, suspendVars
  <2> QED BY <1>2, <2>2, <2>3 DEF on_halt, TypeInv, FileTypes, AbortTypes, ThreadTypes,
             InboxTypes, OtherTypes, fileVars, abortVars, threadVars
<1>3. CASE Unlock
  <2>1. /\ UNCHANGED <<pc, inbox, booted, fileVars, abortVars, suspendVars, threadVars, robotVars, halts, flushed>>
        /\ halted' = FALSE
    BY <1>3 DEF Unlock
  <2>2. SuspendFlags'
    BY <2>1 DEF TypeInv, SuspendTypes, SuspendFlags, suspendVars
  <2>3. SuspendTypes' /\ FileTypes' /\ ThreadTypes' /\ AbortTypes' /\ InboxTypes' /\ RobotTypes'
    BY <2>1, <2>2 DEF TypeInv, SuspendTypes, FileTypes, ThreadTypes, AbortTypes, InboxTypes, RobotTypes,
       fileVars, threadVars, abortVars, suspendVars, robotVars
  <2>4. OtherTypes'
    BY <2>1 DEF TypeInv, OtherTypes
  <2> QED BY <2>3, <2>4 DEF TypeInv
<1>4. ASSUME NEW cmd \in Commands, Send(cmd) PROVE TypeInv'
  <2>1. Message(cmd) \in Messages
    BY DEF Messages
  <2>2. InboxTypes'
    <3>1. inbox \in Seq(Messages) /\ QueueLength \in Nat
      BY PlayerAssumption DEF TypeInv, InboxTypes
    <3> QED BY <1>4, <2>1, <3>1, Put DEF Send, InboxTypes
  <2> QED BY <1>4, <2>2 DEF Send, TypeInv, FileTypes, AbortTypes, ThreadTypes, SuspendTypes, SuspendFlags,
             RobotTypes, OtherTypes, fileVars, abortVars, threadVars, suspendVars, robotVars
<1>5. CASE UNCHANGED vars
  BY <1>5 DEF vars, TypeInv, FileTypes, AbortTypes, ThreadTypes, SuspendTypes, SuspendFlags, RobotTypes,
     InboxTypes, OtherTypes, fileVars, abortVars, threadVars, suspendVars, robotVars, hostVars
<1> QED BY <1>1, <1>2, <1>3, <1>4, <1>5, ReceiveTypes, CommandTypes, ThreadStepTypes DEF Next, Command

(* Every variable has its type, whatever the host sends.                   *)
THEOREM TypeCorrect == Spec => []TypeOK
<1> QED BY InitTypes, NextTypes, TypesSuffice, PTL DEF Spec

-----------------------------------------------------------------------------
(* Commands in the message queue: none of C; none of C behind one of D.    *)

Free(q, C) == \A i \in DOMAIN q : q[i].cmd \notin C

NotAfter(q, C, D) == \A i, j \in DOMAIN q : i < j /\ q[j].cmd \in C => q[i].cmd \notin D

LEMMA TakenFrom ==
    ASSUME TypeInv, inbox # <<>>, inbox' = Tail(inbox), NEW C, NEW D
    PROVE  /\ Head(inbox) \in Messages /\ Head(inbox) = inbox[1] /\ 1 \in DOMAIN inbox
           /\ Free(inbox, C) => Free(inbox', C) /\ Head(inbox).cmd \notin C
           /\ NotAfter(inbox, C, D) =>
                  NotAfter(inbox', C, D) /\ (Head(inbox).cmd \in D => Free(inbox', C))
<1>1. inbox \in Seq(Messages)
  BY DEF TypeInv, InboxTypes
<1>2. /\ Head(inbox) = inbox[1] /\ inbox[1] \in Messages /\ 1 \in DOMAIN inbox
      /\ \A i \in DOMAIN inbox' : i + 1 \in DOMAIN inbox /\ inbox'[i] = inbox[i + 1] /\ i \in Nat \ {0}
  BY <1>1, Taken
<1>3. Free(inbox, C) => Free(inbox', C) /\ Head(inbox).cmd \notin C
  BY <1>2 DEF Free
<1>4. ASSUME NotAfter(inbox, C, D)
      PROVE  NotAfter(inbox', C, D) /\ (Head(inbox).cmd \in D => Free(inbox', C))
  <2>1. \A i, j \in DOMAIN inbox' : i < j => i + 1 < j + 1
    BY <1>2
  <2>2. NotAfter(inbox', C, D)
    BY <1>2, <1>4, <2>1 DEF NotAfter
  <2>3. \A i \in DOMAIN inbox' : 1 < i + 1
    BY <1>2
  <2>4. Head(inbox).cmd \in D => Free(inbox', C)
    BY <1>2, <1>4, <2>3 DEF NotAfter, Free
  <2> QED BY <2>2, <2>4
<1> QED BY <1>2, <1>3, <1>4

LEMMA PutInto ==
    ASSUME TypeInv, NEW m \in Messages, inbox' = Append(inbox, m), NEW C, NEW D
    PROVE  /\ Free(inbox, C) /\ m.cmd \notin C => Free(inbox', C)
           /\ NotAfter(inbox, C, D) /\ (m.cmd \in C => Free(inbox, D)) => NotAfter(inbox', C, D)
<1>1. inbox \in Seq(Messages)
  BY DEF TypeInv, InboxTypes
<1> DEFINE n == Len(inbox)
<1>2. /\ n \in Nat /\ DOMAIN inbox = 1 .. n /\ DOMAIN inbox' = DOMAIN inbox \cup {n + 1}
      /\ inbox'[n + 1] = m /\ \A i \in DOMAIN inbox : inbox'[i] = inbox[i]
  BY <1>1, Put
<1> HIDE DEF n
<1>3. Free(inbox, C) /\ m.cmd \notin C => Free(inbox', C)
  BY <1>2 DEF Free
<1>4. ASSUME NotAfter(inbox, C, D), m.cmd \in C => Free(inbox, D)
      PROVE  NotAfter(inbox', C, D)
  <2> SUFFICES ASSUME NEW i \in DOMAIN inbox', NEW j \in DOMAIN inbox', i < j, inbox'[j].cmd \in C
               PROVE  inbox'[i].cmd \notin D
    BY DEF NotAfter
  <2>1. i \in DOMAIN inbox
    BY <1>2
  <2>2. CASE j = n + 1
    BY <1>2, <1>4, <2>1, <2>2 DEF Free
  <2>3. CASE j # n + 1
    BY <1>2, <1>4, <2>1, <2>3 DEF NotAfter
  <2> QED BY <2>2, <2>3
<1> QED BY <1>3, <1>4

-----------------------------------------------------------------------------
(* With a host that waits, a file has one reader.                          *)

Plays == {"play", "M23"}

NoThread == \A t \in Threads : at[t] = "none"

(* Before the first turn there is no file, and no thread.                  *)
BeforeBoot == ~booted =>
    /\ current_file_handler = NoLine /\ ~playing_file /\ ~was_playing_file /\ ~abort_flg
    /\ NoThread
    /\ Free(inbox, Plays)
    /\ pc = "context" \/ (pc = "receive" /\ ~suspended)

(* A file is about to be opened only when none is open.                    *)
PlayAwaited == /\ Free(inbox, Plays) \/ (current_file_handler = NoLine /\ ~abort_flg)
               /\ NotAfter(inbox, Plays, Plays \cup {"abort"})

(* M26 finds the print running, or the name of the file gone.              *)
M26Awaited == /\ Free(inbox, {"M26"}) \/ (pc = "receive" /\ (playing_file \/ ~filename))
              /\ NotAfter(inbox, {"M26"}, Commands \cup {"line"})

FileOpen == \A t \in Threads : at[t] # "none" => current_file_handler # NoLine

ReaderInv == BeforeBoot /\ PlayAwaited /\ M26Awaited /\ FileOpen /\ OneReader

(* What opening a file does when no thread is left.                        *)
LEMMA Opening ==
    ASSUME TypeInv, NoThread, NEW paused, open_file(paused)
    PROVE  /\ filename' = TRUE /\ buf' = buf
           /\ \A t \in Threads : at'[t] \in {"none", "fetch"}
           /\ \A t, u \in Threads : at'[t] # "none" /\ at'[u] # "none" => t = u
           /\ \/ prints' = prints + 1 /\ current_file_handler' = <<prints + 1, 1>>
                 /\ current_file_handler' # NoLine
              \/ prints' = prints /\ current_file_handler' = NoLine /\ UNCHANGED <<playing_file, at>>
<1>1. at \in [Threads -> PlayStates] /\ prints \in Nat
  BY PlayerAssumption DEF TypeInv, ThreadTypes, FileTypes
<1>2. CASE /\ prints' = prints + 1 /\ current_file_handler' = <<prints + 1, 1>> /\ StartThread
  <2>1. PICK c : at' = at \/ at' = [at EXCEPT ![c] = "fetch"]
    BY <1>2 DEF StartThread
  <2>2. current_file_handler' # NoLine
    BY <1>1, <1>2 DEF NoLine
  <2> QED BY <1>1, <1>2, <2>1, <2>2 DEF NoThread, open_file, StartThread
<1>3. CASE prints' = prints /\ current_file_handler' = NoLine /\ UNCHANGED <<playing_file, threadVars>>
  BY <1>1, <1>3 DEF NoThread, open_file, threadVars
<1> QED BY <1>2, <1>3 DEF open_file

(* A message opens a file only if no thread is left and no abort waits.    *)
LEMMA ReceiveOpens ==
    ASSUME TypeInv, ReaderInv, Receive
    PROVE  \/ UNCHANGED <<filename, current_file_handler, prints, threadVars>>
           \/ /\ NoThread /\ ~abort_flg /\ current_file_handler = NoLine /\ ~playing_file /\ ~suspended
              /\ Head(inbox).cmd \in Plays /\ booted
              /\ \E paused \in BOOLEAN : open_file(paused)
              /\ UNCHANGED <<abortVars, suspendVars, robotVars>>
<1> DEFINE m == Head(inbox)
<1>1. /\ inbox # <<>> /\ inbox' = Tail(inbox) /\ pc = "receive"
  BY DEF Receive
<1>2. m.cmd \in Plays => current_file_handler = NoLine /\ ~abort_flg /\ booted
  BY <1>1, TakenFrom DEF ReaderInv, PlayAwaited, BeforeBoot
<1>3. current_file_handler = NoLine => NoThread
  BY DEF ReaderInv, FileOpen, NoThread
<1>4. CASE Play(m.cmd)
  <2>1. (m.cmd = "M23") \in BOOLEAN /\ m.cmd \in Plays
    BY <1>4 DEF Play, Plays
  <2> QED BY <1>2, <1>3, <1>4, <2>1 DEF Play, play_command, fileVars
<1>5. CASE M26(m.cmd)
  <2>1. m.cmd = "M26" => playing_file \/ ~filename
    BY <1>1, TakenFrom DEF ReaderInv, M26Awaited
  <2> QED BY <1>5, <2>1 DEF M26, fileVars
<1> HIDE DEF m
<1> QED BY <1>4, <1>5 DEF Receive, m, fileVars, threadVars, AbortCommand, M24, M25, G28, suspend_command,
           Move, FileLine

LEMMA ReaderReceive == ASSUME TypeInv, ReaderInv, Receive PROVE ReaderInv'
<1> DEFINE m == Head(inbox)
<1>1. inbox # <<>> /\ inbox' = Tail(inbox) /\ m.cmd \in Commands \cup {"line"}
  <2>1. inbox # <<>> /\ inbox' = Tail(inbox)
    BY DEF Receive
  <2> QED BY <2>1, TakenFrom, MessageFields
<1>2. /\ Free(inbox, Plays) => Free(inbox', Plays)
      /\ NotAfter(inbox', Plays, Plays \cup {"abort"})
      /\ m.cmd \in Plays \cup {"abort"} => Free(inbox', Plays)
  BY <1>1, TakenFrom DEF ReaderInv, PlayAwaited
<1>3. M26Awaited'
  BY <1>1, TakenFrom DEF ReaderInv, M26Awaited
<1>4. abort_flg' = abort_flg \/ m.cmd = "abort" \/ current_file_handler # NoLine
  <2>1. current_file_handler = NoLine /\ m.cmd # "abort" => abort_flg' = abort_flg
    BY DEF Receive, Play, AbortCommand, M24, M25, M26, G28, suspend_command, Move, FileLine, abortVars
  <2> QED BY <2>1
<1> HIDE DEF m
<1>5. CASE UNCHANGED <<filename, current_file_handler, prints, threadVars>>
  <2>1. PlayAwaited'
    BY <1>2, <1>4, <1>5 DEF ReaderInv, PlayAwaited
  <2>2. FileOpen' /\ OneReader'
    BY <1>5 DEF ReaderInv, FileOpen, OneReader, threadVars
  <2>3. BeforeBoot'
    <3> SUFFICES ASSUME ~booted PROVE BeforeBoot'
      BY DEF BeforeBoot, Receive
    <3>1. /\ current_file_handler = NoLine /\ ~playing_file /\ ~was_playing_file /\ ~abort_flg
          /\ Free(inbox, Plays) /\ NoThread /\ ~suspended
      BY DEF ReaderInv, BeforeBoot, Receive
    <3>2. ~abort_flg' /\ pc' = "context"
      BY <3>1 DEF Receive, Play, AbortCommand, abort_command, NotPlaying, M24, M25, M26, G28,
         suspend_command, Move, FileLine, abortVars
    <3>3. ~playing_file' /\ ~was_playing_file'
      <4>1. m.cmd \notin Plays
        BY <1>1, <3>1, TakenFrom DEF m
      <4>2. CASE M24(m.cmd) \/ M25(m.cmd) \/ suspend_command(m.cmd)
        <5>1. CASE M24(m.cmd)
          <6>1. playing_file' = FALSE
            BY <3>1, <5>1 DEF M24
          <6> QED BY <3>1, <5>1, <6>1 DEF M24, suspendVars
        <5>2. CASE M25(m.cmd)
          BY <3>1, <5>2 DEF M25, suspendVars
        <5>3. CASE suspend_command(m.cmd)
          BY <3>1, <5>3 DEF suspend_command, suspendVars
        <5> QED BY <4>2, <5>1, <5>2, <5>3
      <4>3. CASE ~(M24(m.cmd) \/ M25(m.cmd) \/ suspend_command(m.cmd))
        BY <3>1, <4>1, <4>3 DEF Receive, Play, AbortCommand, M26, G28, ClearSuspend, Plays, m,
           Move, FileLine, fileVars, suspendVars
      <4> QED BY <4>2, <4>3
    <3> QED BY <1>2, <1>5, <3>1, <3>2, <3>3 DEF BeforeBoot, NoThread, threadVars
  <2> QED BY <1>3, <2>1, <2>2, <2>3 DEF ReaderInv
<1>6. CASE /\ NoThread /\ m.cmd \in Plays /\ booted /\ \E paused \in BOOLEAN : open_file(paused)
  <2>1. PICK paused : open_file(paused)
    BY <1>6
  <2>2. FileOpen' /\ OneReader'
    BY <1>6, <2>1, Opening DEF FileOpen, OneReader, NoThread
  <2>3. PlayAwaited'
    BY <1>2, <1>6 DEF PlayAwaited
  <2>4. BeforeBoot'
    BY <1>6 DEF BeforeBoot, Receive
  <2> QED BY <1>3, <2>2, <2>3, <2>4 DEF ReaderInv
<1> QED BY <1>5, <1>6, ReceiveOpens DEF m

LEMMA PlayOpens ==
    ASSUME NEW paused, play_command(paused)
    PROVE  UNCHANGED <<fileVars, threadVars>> \/ open_file(paused)
BY DEF play_command

LEMMA BootOpens ==
    ASSUME Boot
    PROVE  UNCHANGED <<fileVars, threadVars>> \/ (~booted /\ \E paused \in BOOLEAN : open_file(paused))
<1>1. ~booted
  BY DEF Boot
<1>2. CASE play_command(FALSE)
  <2>1. PICK paused \in BOOLEAN : play_command(paused)
    BY <1>2
  <2> QED BY <1>1, <2>1, PlayOpens
<1>3. CASE on_boot_gcode_enable
  BY <1>2, <1>3 DEF Boot
<1>4. CASE ~on_boot_gcode_enable
  BY <1>4 DEF Boot
<1> QED BY <1>3, <1>4

(* The turn of the command thread after a message, or without one.         *)
LEMMA ReaderContext == ASSUME TypeInv, ReaderInv, in_command_ctx PROVE ReaderInv'
<1>1. UNCHANGED inbox /\ booted' /\ pc \in {"receive", "context"}
  <2>1. ASSUME Boot PROVE booted'
    BY <2>1 DEF Boot
  <2>2. ASSUME CompleteAbort(pc = "receive") \/ CountSuspend(pc = "receive") \/ NothingToDo(pc = "receive")
        PROVE  booted'
    BY <2>2 DEF CompleteAbort, CountSuspend, NothingToDo
  <2> QED BY <2>1, <2>2 DEF in_command_ctx
<1>2. BeforeBoot'
  BY <1>1 DEF BeforeBoot
<1>3. pc = "context" => Free(inbox, {"M26"})
  BY DEF ReaderInv, M26Awaited
<1>4. pc = "receive" => inbox = <<>>
  BY DEF in_command_ctx, TimesOut
<1>5. Free(inbox, {"M26"})
  BY <1>1, <1>3, <1>4 DEF Free
<1>6. M26Awaited'
  BY <1>1, <1>5 DEF ReaderInv, M26Awaited
<1>7. CASE UNCHANGED <<fileVars, threadVars>>
  <2>1. abort_flg' = abort_flg \/ ~abort_flg'
    BY DEF in_command_ctx, Boot, CompleteAbort, CountSuspend, NothingToDo, abortVars
  <2>2. PlayAwaited' /\ FileOpen' /\ OneReader'
    BY <1>1, <1>7, <2>1 DEF ReaderInv, PlayAwaited, FileOpen, OneReader, fileVars, threadVars
  <2> QED BY <1>2, <1>6, <2>2 DEF ReaderInv
<1>8. CASE ~booted /\ \E paused \in BOOLEAN : open_file(paused)
  <2>1. PICK paused : open_file(paused)
    BY <1>8
  <2>2. NoThread /\ Free(inbox, Plays)
    BY <1>8 DEF ReaderInv, BeforeBoot
  <2>3. FileOpen' /\ OneReader' /\ PlayAwaited'
    BY <1>1, <2>1, <2>2, Opening DEF ReaderInv, FileOpen, OneReader, PlayAwaited, NoThread
  <2> QED BY <1>2, <1>6, <2>3 DEF ReaderInv
<1> QED BY <1>7, <1>8, BootOpens DEF in_command_ctx, CompleteAbort, CountSuspend, NothingToDo

(* The steps of the command thread between its turns.                      *)
Later == FlushQueue \/ SuspendWait \/ SuspendSave \/ WaitHeaters \/ Unsuspend \/ Restore \/ Restored

LEMMA ReaderLater == ASSUME TypeInv, ReaderInv, Later PROVE ReaderInv'
<1>1. /\ UNCHANGED <<inbox, booted, filename, current_file_handler, prints, abortVars, threadVars>>
      /\ pc \notin {"receive", "context"}
  BY DEF Later, FlushQueue, SuspendWait, SuspendSave, WaitHeaters, Unsuspend, Restore, Restored, fileVars
<1>2. booted /\ Free(inbox, {"M26"})
  BY <1>1 DEF ReaderInv, BeforeBoot, M26Awaited
<1> QED BY <1>1, <1>2 DEF ReaderInv, BeforeBoot, PlayAwaited, M26Awaited, FileOpen, OneReader,
           abortVars, threadVars

(* The thread of the print is the only one.                                *)
LEMMA ReaderThread == ASSUME TypeInv, ReaderInv, NEW t \in Threads, PlayThread(t) PROVE ReaderInv'
<1>1. at[t] # "none" /\ current_file_handler # NoLine /\ \A u \in Threads \ {t} : at[u] = "none"
  <2>1. at[t] # "none"
    BY DEF PlayThread, Fetch, Look, WakeUp, wait_for_room, send_message_queue, Finish, Close, Thread
  <2> QED BY <2>1 DEF ReaderInv, FileOpen, OneReader
<1>2. booted /\ Free(inbox, Plays)
  BY <1>1 DEF ReaderInv, BeforeBoot, PlayAwaited, NoThread
<1>3. UNCHANGED <<pc, booted, abort_flg>>
  BY DEF PlayThread, Fetch, Look, WakeUp, wait_for_room, send_message_queue, Finish, Close, abortVars
<1>4. PlayAwaited' /\ M26Awaited'
  <2>1. ASSUME send_message_queue(t) PROVE PlayAwaited' /\ M26Awaited'
    <3>1. Line(buf[t]) \in Messages /\ Line(buf[t]).cmd = "line" /\ "line" \notin Commands
      BY PlayerAssumption DEF Messages, Line, TypeInv, ThreadTypes
    <3>2. inbox' = Append(inbox, Line(buf[t]))
      BY <2>1 DEF send_message_queue
    <3>3. Free(inbox', Plays) /\ NotAfter(inbox', Plays, Plays \cup {"abort"})
      BY <1>2, <3>1, <3>2, PutInto DEF ReaderInv, PlayAwaited, Plays
    <3>4. /\ Free(inbox, {"M26"}) => Free(inbox', {"M26"})
          /\ NotAfter(inbox', {"M26"}, Commands \cup {"line"})
      BY <3>1, <3>2, PutInto DEF ReaderInv, M26Awaited
    <3>5. UNCHANGED <<playing_file, filename>>
      BY <2>1 DEF send_message_queue, fileVars
    <3> QED BY <1>3, <3>3, <3>4, <3>5 DEF ReaderInv, PlayAwaited, M26Awaited
  <2>2. ASSUME ~send_message_queue(t) PROVE PlayAwaited' /\ M26Awaited'
    <3>1. UNCHANGED inbox /\ (UNCHANGED <<playing_file, filename>> \/ ~filename')
      BY <2>2 DEF PlayThread, Fetch, Look, WakeUp, wait_for_room, Finish, Close, fileVars
    <3> QED BY <1>2, <1>3, <3>1 DEF ReaderInv, PlayAwaited, M26Awaited
  <2> QED BY <2>1, <2>2
<1>5. OneReader'
  <2>1. \A u \in Threads \ {t} : at'[u] = at[u]
    BY DEF PlayThread, Fetch, Look, WakeUp, wait_for_room, send_message_queue, Finish, Close, Thread,
       TypeInv, ThreadTypes
  <2> QED BY <1>1, <2>1 DEF OneReader
<1>6. FileOpen'
  <2>1. CASE Close(t)
    <3>1. at'[t] = "none" /\ \A u \in Threads \ {t} : at'[u] = at[u]
      BY <2>1 DEF Close, Thread, TypeInv, ThreadTypes
    <3> QED BY <1>1, <3>1 DEF FileOpen
  <2>2. CASE ~Close(t)
    <3>1. current_file_handler' # NoLine
      <4>1. current_file_handler[1] \in 1 .. MaxPrints
        BY <1>1 DEF TypeInv, FileTypes
      <4>2. ASSUME Fetch(t) PROVE current_file_handler' # NoLine
        <5>1. CASE UNCHANGED current_file_handler
          BY <1>1, <5>1
        <5>2. CASE current_file_handler' = [current_file_handler EXCEPT ![2] = @ + 1]
          <6>1. PICK p \in 1 .. MaxPrints, n \in 1 .. FileLines + 1 : current_file_handler = <<p, n>>
            BY <1>1 DEF TypeInv, FileTypes
          <6>2. current_file_handler' = <<p, n + 1>>
            BY <5>2, <6>1
          <6> QED BY <6>1, <6>2, PlayerAssumption DEF NoLine
        <5> QED BY <4>2, <5>1, <5>2 DEF Fetch
      <4> QED BY <1>1, <2>2, <4>2 DEF PlayThread, Look, WakeUp, wait_for_room, send_message_queue,
               Finish, fileVars
    <3> QED BY <3>1 DEF FileOpen
  <2> QED BY <2>1, <2>2
<1> QED BY <1>2, <1>3, <1>4, <1>5, <1>6 DEF ReaderInv, BeforeBoot

(* The host, and everybody else.                                           *)
LEMMA ReaderOthers ==
    ASSUME TypeInv, ReaderInv, HostWaits, RunBlock \/ on_halt \/ Unlock \/ \E cmd \in Commands : Send(cmd)
    PROVE  ReaderInv'
<1>1. /\ UNCHANGED <<pc, booted, fileVars, abortVars, threadVars>>
      /\ suspended' => suspended
      /\ was_playing_file' => was_playing_file
  BY DEF RunBlock, on_halt, ClearSuspend, Unlock, Send, suspendVars
<1>2. CASE UNCHANGED inbox
  BY <1>1, <1>2 DEF ReaderInv, BeforeBoot, NoThread, PlayAwaited, M26Awaited, FileOpen, OneReader, fileVars,
     abortVars, threadVars
<1>3. ASSUME NEW cmd \in Commands, Send(cmd) PROVE ReaderInv'
  <2>1. /\ Message(cmd) \in Messages /\ Message(cmd).cmd = cmd /\ inbox' = Append(inbox, Message(cmd))
        /\ Awaited(cmd)
    BY <1>3 DEF Message, Messages, Send
  <2>2. cmd \in Plays => /\ Free(inbox, Plays \cup {"abort"}) /\ booted
                         /\ current_file_handler = NoLine /\ ~abort_flg
    BY <2>1 DEF Awaited, Plays, Pending, Free, NotPlaying
  <2>3. cmd = "M26" => playing_file /\ pc = "receive" /\ inbox = <<>>
    BY <2>1 DEF Awaited
  <2>4. /\ Free(inbox, Plays) /\ cmd \notin Plays => Free(inbox', Plays)
        /\ NotAfter(inbox', Plays, Plays \cup {"abort"})
    BY <2>1, <2>2, PutInto DEF ReaderInv, PlayAwaited
  <2>5. /\ Free(inbox, {"M26"}) /\ cmd # "M26" => Free(inbox', {"M26"})
        /\ NotAfter(inbox', {"M26"}, Commands \cup {"line"})
    <3>1. inbox = <<>> => Free(inbox, Commands \cup {"line"})
      BY DEF Free
    <3> QED BY <2>1, <2>3, <3>1, PutInto DEF ReaderInv, M26Awaited
  <2>6. PlayAwaited'
    BY <1>1, <2>2, <2>4 DEF ReaderInv, PlayAwaited, fileVars, abortVars
  <2>7. M26Awaited'
    BY <1>1, <2>3, <2>5 DEF ReaderInv, M26Awaited, fileVars
  <2>8. BeforeBoot'
    BY <1>1, <2>2, <2>4 DEF ReaderInv, BeforeBoot, NoThread, fileVars, abortVars, threadVars
  <2> QED BY <1>1, <2>6, <2>7, <2>8 DEF ReaderInv, FileOpen, OneReader, fileVars, threadVars
<1> QED BY <1>2, <1>3 DEF RunBlock, on_halt, Unlock

LEMMA ReaderStep == ASSUME TypeInv, ReaderInv, HostWaits, [Next]_vars PROVE ReaderInv'
<1>1. CASE UNCHANGED vars
  BY <1>1 DEF vars, ReaderInv, BeforeBoot, NoThread, PlayAwaited, M26Awaited, FileOpen, OneReader, fileVars,
     abortVars, threadVars, suspendVars
<1> QED BY <1>1, ReaderReceive, ReaderContext, ReaderLater, ReaderThread, ReaderOthers
        DEF Next, Command, Later

(* A file has one reader: a host that waits gives the command thread no    *)
(* file to open while a play thread is left (Player.cpp, play_command).    *)
THEOREM FileHasOneReader == HostWaits => (Spec => []OneReader)
<1> SUFFICES ASSUME HostWaits PROVE Spec => []OneReader
  OBVIOUS
<1>1. Init => ReaderInv
  BY DEF Init, ReaderInv, BeforeBoot, NoThread, PlayAwaited, M26Awaited, FileOpen, OneReader, Free, NotAfter
<1>2. TypeInv /\ ReaderInv /\ [Next]_vars => ReaderInv'
  BY ReaderStep
<1>3. ReaderInv => OneReader
  BY DEF ReaderInv
<1> QED BY <1>1, <1>2, <1>3, InitTypes, NextTypes, PTL DEF Spec

-----------------------------------------------------------------------------
(* Nobody pops what the user has pushed.                                   *)

(* What a suspend has pushed is still there.                               *)
Pushed == \/ pc = "restore"
          \/ suspended /\ suspend_loops = 0 /\ pc \notin {"suspend_wait", "suspend_save"}

UserBottom == state_stack # <<>> /\ state_stack[1] = "user"

(* What is sent after a suspend finds it complete.                         *)
AfterSuspend == {"G28", "G0", "resume"}

AfterAwaited ==
    /\ \/ Free(inbox, AfterSuspend)
       \/ (suspended => suspend_loops = 0) /\ pc \in {"receive", "context", "flush"}
    /\ NotAfter(inbox, AfterSuspend, {"suspend", "resume"})

Restoring == pc \in {"restore", "restored"} => ~suspended

UserInv == halts = 0 =>
    /\ ~halted
    /\ UserBottom
    /\ Pushed => Len(state_stack) >= 2
    /\ pc \in {"heat", "unsuspend"} => suspended /\ suspend_loops = 0

LEMMA RestoringStep == ASSUME Restoring, [Next]_vars PROVE Restoring'
<1>1. CASE Receive
  BY <1>1 DEF Receive, Restoring
<1>2. CASE in_command_ctx
  BY <1>2 DEF in_command_ctx, Boot, CompleteAbort, CountSuspend, NothingToDo, Restoring
<1>3. CASE Later
  BY <1>3 DEF Later, FlushQueue, SuspendWait, SuspendSave, WaitHeaters, Unsuspend, Restore, Restored,
     Restoring, suspendVars
<1>4. CASE \E t \in Threads : PlayThread(t)
  BY <1>4 DEF PlayThread, Fetch, Look, WakeUp, wait_for_room, send_message_queue, Finish, Close,
     Restoring, suspendVars
<1>5. CASE RunBlock \/ on_halt \/ Unlock \/ \E cmd \in Commands : Send(cmd)
  BY <1>5 DEF RunBlock, on_halt, ClearSuspend, Unlock, Send, Restoring, suspendVars
<1>6. CASE UNCHANGED vars
  BY <1>6 DEF vars, suspendVars, Restoring
<1> QED BY <1>1, <1>2, <1>3, <1>4, <1>5, <1>6 DEF Next, Command, Later

LEMMA PopKeeps ==
    ASSUME TypeInv, UserBottom, Len(state_stack) >= 2, NEW place, pop_state(place)
    PROVE  UserBottom'
<1>1. state_stack \in Seq(Modes)
  BY DEF TypeInv, RobotTypes
<1>2. /\ state_stack' \in Seq(Modes) /\ Len(state_stack') = Len(state_stack) - 1
      /\ state_stack'[1] = "user"
  BY <1>1, FrontProperties DEF pop_state, UserBottom
<1>3. state_stack' # <<>>
  BY <1>2
<1> QED BY <1>2, <1>3 DEF UserBottom

LEMMA PushKeeps ==
    ASSUME TypeInv, UserBottom, push_state
    PROVE  UserBottom' /\ Len(state_stack') >= 2
<1>1. state_stack \in Seq(Modes) /\ robot.mode \in Modes /\ Len(state_stack) \in Nat \ {0}
  BY EmptySeq DEF TypeInv, RobotTypes, UserBottom
<1>2. /\ Len(state_stack') = Len(state_stack) + 1 /\ state_stack'[1] = state_stack[1]
  BY <1>1, Put DEF push_state
<1>3. state_stack' # <<>>
  BY <1>1, <1>2
<1> QED BY <1>1, <1>2, <1>3 DEF UserBottom

(* What a message does to a suspend and to the state of the user.          *)
LEMMA ReceiveSuspends ==
    ASSUME Receive
    PROVE  LET m == Head(inbox) IN
           /\ pc = "receive"
           /\ \/ UNCHANGED <<suspended, suspend_loops>>
              \/ ~suspended'
              \/ m.cmd = "suspend" /\ ~suspended /\ suspend_loops' = 2
           /\ \/ UNCHANGED state_stack
              \/ m.cmd = "G28" /\ suspended /\ ~suspended' /\ pop_state(Away)
           /\ \/ pc' = "context"
              \/ /\ m.cmd = "resume" /\ suspended /\ pc' \in {"heat", "unsuspend"}
                 /\ UNCHANGED <<suspended, suspend_loops, state_stack>>
<1> DEFINE m == Head(inbox)
<1>1. CASE Play(m.cmd) \/ AbortCommand(m.cmd) \/ M24(m.cmd) \/ M25(m.cmd)
  BY <1>1 DEF Receive, Play, AbortCommand, abort_command, M24, M25, suspendVars, robotVars
<1>2. CASE M26(m.cmd)
  BY <1>2 DEF Receive, M26, abort_command, suspendVars, robotVars
<1>3. CASE G28(m.cmd)
  BY <1>3 DEF Receive, G28, ClearSuspend, suspendVars, robotVars
<1>4. CASE suspend_command(m.cmd)
  BY <1>4 DEF Receive, suspend_command, suspendVars, robotVars
<1>5. CASE Move(m.cmd) \/ FileLine(m.line)
  BY <1>5 DEF Receive, Move, FileLine, suspendVars
<1>6. CASE UNCHANGED <<fileVars, abortVars, suspendVars, threadVars, robotVars>>
  BY <1>6 DEF Receive, suspendVars, robotVars
<1> QED BY <1>1, <1>2, <1>3, <1>4, <1>5, <1>6 DEF Receive

LEMMA ContextSuspends ==
    ASSUME in_command_ctx
    PROVE  /\ pc \in {"receive", "context"} /\ UNCHANGED suspended
           /\ \/ UNCHANGED suspend_loops /\ pc' \in {"receive", "flush"}
              \/ /\ suspended /\ suspend_loops > 0 /\ suspend_loops' = suspend_loops - 1
                 /\ pc' = IF suspend_loops = 1 THEN "suspend_wait" ELSE "receive"
<1>1. CASE Boot
  BY <1>1 DEF in_command_ctx, Boot, suspendVars
<1>2. CASE ~Boot
  BY <1>2 DEF in_command_ctx, CompleteAbort, CountSuspend, NothingToDo, suspendVars
<1> QED BY <1>1, <1>2

(* What a host has sent when the suspend was complete finds it complete,   *)
(* or cancelled.                                                           *)
LEMMA AfterReceive == ASSUME TypeInv, AfterAwaited, Receive PROVE AfterAwaited'
<1> DEFINE m == Head(inbox)
<1>1. inbox # <<>> /\ inbox' = Tail(inbox)
  BY DEF Receive
<1>2. /\ Free(inbox, AfterSuspend) => Free(inbox', AfterSuspend) /\ m.cmd \notin AfterSuspend
      /\ NotAfter(inbox', AfterSuspend, {"suspend", "resume"})
      /\ m.cmd \in {"suspend", "resume"} => Free(inbox', AfterSuspend)
  BY <1>1, TakenFrom DEF AfterAwaited
<1>3. /\ \/ UNCHANGED <<suspended, suspend_loops>>
         \/ ~suspended'
         \/ m.cmd = "suspend"
      /\ pc' = "context" \/ m.cmd = "resume"
  BY ReceiveSuspends
<1> HIDE DEF m
<1> QED BY <1>2, <1>3 DEF AfterAwaited

LEMMA AfterOthers ==
    ASSUME TypeInv, AfterAwaited, HostWaits,
           \/ \E t \in Threads : PlayThread(t)
           \/ RunBlock \/ on_halt \/ Unlock
           \/ \E cmd \in Commands : Send(cmd)
    PROVE  AfterAwaited'
<1>1. ASSUME NEW t \in Threads, PlayThread(t) PROVE AfterAwaited'
  <2>1. UNCHANGED <<pc, suspended, suspend_loops>>
    BY <1>1 DEF PlayThread, Fetch, Look, WakeUp, wait_for_room, send_message_queue, Finish, Close, suspendVars
  <2>2. CASE UNCHANGED inbox
    BY <2>1, <2>2 DEF AfterAwaited
  <2>3. CASE send_message_queue(t)
    <3>1. Line(buf[t]) \in Messages /\ Line(buf[t]).cmd \notin AfterSuspend
      BY DEF Messages, Line, TypeInv, ThreadTypes, AfterSuspend
    <3>2. inbox' = Append(inbox, Line(buf[t]))
      BY <2>3 DEF send_message_queue
    <3> QED BY <2>1, <3>1, <3>2, PutInto DEF AfterAwaited
  <2> QED BY <1>1, <2>2, <2>3 DEF PlayThread, Fetch, Look, WakeUp, wait_for_room, Finish, Close
<1>2. CASE RunBlock \/ Unlock
  BY <1>2 DEF RunBlock, Unlock, suspendVars, AfterAwaited
<1>3. CASE on_halt
  BY <1>3 DEF on_halt, ClearSuspend, suspendVars, AfterAwaited
<1>4. ASSUME NEW cmd \in Commands, Send(cmd) PROVE AfterAwaited'
  <2>1. UNCHANGED <<pc, suspended, suspend_loops>>
    BY <1>4 DEF Send, suspendVars
  <2>2. /\ Message(cmd) \in Messages /\ Message(cmd).cmd = cmd /\ inbox' = Append(inbox, Message(cmd))
        /\ Awaited(cmd)
    BY <1>4 DEF Message, Messages, Send
  <2>3. cmd \in AfterSuspend => /\ suspended /\ suspend_loops = 0 /\ pc = "receive"
                                /\ Free(inbox, {"suspend", "resume"})
    BY <2>2 DEF Awaited, AfterSuspend, Suspended, Pending, Free
  <2> QED BY <2>1, <2>2, <2>3, PutInto DEF AfterAwaited
<1> QED BY <1>1, <1>2, <1>3, <1>4

LEMMA AfterStep == ASSUME TypeInv, AfterAwaited, HostWaits, [Next]_vars PROVE AfterAwaited'
<1>1. CASE in_command_ctx
  <2>1. suspend_loops \in 0 .. 2 /\ UNCHANGED inbox
    BY <1>1 DEF TypeInv, SuspendTypes, in_command_ctx
  <2> QED BY <1>1, <2>1, ContextSuspends DEF AfterAwaited
<1>2. CASE Later
  <2>1. UNCHANGED <<inbox, suspend_loops>> /\ (UNCHANGED suspended \/ ~suspended')
        /\ pc \notin {"receive", "context"} /\ (pc = "flush" => pc' = "receive" /\ UNCHANGED suspended)
    BY <1>2 DEF Later, FlushQueue, SuspendWait, SuspendSave, WaitHeaters, Unsuspend, Restore, Restored,
       suspendVars
  <2> QED BY <2>1 DEF AfterAwaited
<1>3. CASE UNCHANGED vars
  BY <1>3 DEF vars, suspendVars, AfterAwaited
<1> QED BY <1>1, <1>2, <1>3, AfterReceive, AfterOthers DEF Next, Command, Later

LEMMA UserReceive == ASSUME TypeInv, AfterAwaited, UserInv, Receive PROVE UserInv'
<1> DEFINE m == Head(inbox)
<1> SUFFICES ASSUME halts = 0 PROVE UserInv'
  BY DEF UserInv, Receive, hostVars
<1>1. /\ ~halted /\ UserBottom /\ UNCHANGED <<halts, halted>>
      /\ Pushed => Len(state_stack) >= 2
  BY DEF UserInv, Receive, hostVars
<1>2. inbox # <<>> /\ inbox' = Tail(inbox)
  BY DEF Receive
<1>3. Free(inbox, AfterSuspend) => m.cmd \notin AfterSuspend
  BY <1>2, TakenFrom
<1>4. /\ pc = "receive"
      /\ \/ UNCHANGED <<suspended, suspend_loops>>
         \/ ~suspended'
         \/ m.cmd = "suspend" /\ ~suspended /\ suspend_loops' = 2
      /\ \/ UNCHANGED state_stack
         \/ m.cmd = "G28" /\ suspended /\ ~suspended' /\ pop_state(Away)
      /\ \/ pc' = "context"
         \/ /\ m.cmd = "resume" /\ suspended /\ pc' \in {"heat", "unsuspend"}
            /\ UNCHANGED <<suspended, suspend_loops, state_stack>>
  BY ReceiveSuspends
<1>5. m.cmd \in AfterSuspend /\ suspended => suspend_loops = 0 /\ Len(state_stack) >= 2
  BY <1>1, <1>3, <1>4 DEF AfterAwaited, Pushed
<1> HIDE DEF m
<1>6. UserBottom'
  <2>1. CASE UNCHANGED state_stack
    BY <1>1, <2>1 DEF UserBottom
  <2>2. CASE m.cmd = "G28" /\ suspended /\ pop_state(Away)
    BY <1>1, <1>5, <2>2, PopKeeps DEF AfterSuspend
  <2> QED BY <1>4, <2>1, <2>2
<1>7. (Pushed => Len(state_stack) >= 2)'
  BY <1>1, <1>4 DEF Pushed
<1>8. (pc \in {"heat", "unsuspend"} => suspended /\ suspend_loops = 0)'
  BY <1>4, <1>5 DEF AfterSuspend
<1> QED BY <1>1, <1>6, <1>7, <1>8 DEF UserInv

LEMMA UserContext == ASSUME TypeInv, UserInv, in_command_ctx PROVE UserInv'
<1> SUFFICES ASSUME halts = 0 PROVE UserInv'
  BY DEF UserInv, in_command_ctx, hostVars
<1>1. /\ ~halted /\ UserBottom /\ UNCHANGED <<halts, halted, state_stack>>
      /\ Pushed => Len(state_stack) >= 2
  BY DEF UserInv, in_command_ctx, hostVars, robotVars
<1>2. /\ pc \in {"receive", "context"} /\ UNCHANGED suspended
      /\ \/ UNCHANGED suspend_loops /\ pc' \in {"receive", "flush"}
         \/ /\ suspended /\ suspend_loops > 0 /\ suspend_loops' = suspend_loops - 1
            /\ pc' = IF suspend_loops = 1 THEN "suspend_wait" ELSE "receive"
  BY ContextSuspends
<1>3. suspend_loops \in 0 .. 2
  BY DEF TypeInv, SuspendTypes
<1>4. UserBottom' /\ (Pushed => Len(state_stack) >= 2)'
  BY <1>1, <1>2, <1>3 DEF UserBottom, Pushed
<1> QED BY <1>1, <1>2, <1>4 DEF UserInv

LEMMA UserLater == ASSUME TypeInv, UserInv, Restoring, Later PROVE UserInv'
<1> SUFFICES ASSUME halts = 0 PROVE UserInv'
  BY DEF UserInv, Later, FlushQueue, SuspendWait, SuspendSave, WaitHeaters, Unsuspend, Restore, Restored,
     hostVars
<1>1. /\ ~halted /\ UserBottom
      /\ Pushed => Len(state_stack) >= 2
      /\ pc \in {"heat", "unsuspend"} => suspended /\ suspend_loops = 0
  BY DEF UserInv
<1>2. UNCHANGED <<halts, halted, suspend_loops>>
  BY DEF Later, FlushQueue, SuspendWait, SuspendSave, WaitHeaters, Unsuspend, Restore, Restored, hostVars,
     suspendVars
<1>3. CASE FlushQueue
  BY <1>1, <1>2, <1>3 DEF FlushQueue, suspendVars, UserInv, UserBottom, Pushed
<1>4. CASE SuspendWait
  BY <1>1, <1>2, <1>4 DEF SuspendWait, robotVars, UserInv, UserBottom, Pushed
<1>5. CASE SuspendSave
  <2>1. UserBottom' /\ Len(state_stack') >= 2
    BY <1>1, <1>5, PushKeeps DEF SuspendSave
  <2> QED BY <1>1, <1>2, <1>5, <2>1 DEF SuspendSave, UserInv
<1>6. CASE WaitHeaters \/ Unsuspend
  BY <1>1, <1>2, <1>6 DEF WaitHeaters, Unsuspend, UserInv, UserBottom, Pushed
<1>7. CASE Restore
  <2>1. UserBottom'
    BY <1>1, <1>7, PopKeeps DEF Restore, Pushed
  <2> QED BY <1>1, <1>2, <1>7, <2>1 DEF Restore, Restoring, suspendVars, UserInv, Pushed
<1>8. CASE Restored
  BY <1>1, <1>2, <1>8 DEF Restored, Restoring, robotVars, UserInv, UserBottom, Pushed
<1> QED BY <1>3, <1>4, <1>5, <1>6, <1>7, <1>8 DEF Later

LEMMA UserStep == ASSUME TypeInv, AfterAwaited, UserInv, Restoring, [Next]_vars PROVE UserInv'
<1>1. ASSUME UNCHANGED <<pc, suspended, suspend_loops, state_stack, halts, halted>> PROVE UserInv'
  BY <1>1 DEF UserInv, UserBottom, Pushed
<1>2. ASSUME NEW t \in Threads, PlayThread(t) PROVE UserInv'
  BY <1>1, <1>2 DEF PlayThread, Fetch, Look, WakeUp, wait_for_room, send_message_queue, Finish, Close,
     suspendVars, robotVars, hostVars
<1>3. CASE RunBlock \/ \E cmd \in Commands : Send(cmd)
  BY <1>1, <1>3 DEF RunBlock, Send, suspendVars, robotVars, hostVars
<1>4. CASE on_halt
  <2>1. halts' # 0
    BY <1>4 DEF on_halt, TypeInv, OtherTypes
  <2> QED BY <2>1 DEF UserInv
<1>5. CASE Unlock
  <2>1. halts # 0 /\ halts' = halts
    BY <1>5 DEF Unlock, UserInv
  <2> QED BY <2>1 DEF UserInv
<1>6. CASE UNCHANGED vars
  BY <1>1, <1>6 DEF vars, suspendVars, robotVars, hostVars
<1> QED BY <1>2, <1>3, <1>4, <1>5, <1>6, UserReceive, UserContext, UserLater DEF Next, Command, Later

(* A suspend, a resume and a homing pop what the suspend has pushed and    *)
(* not what the user has (Player.cpp, clear_suspend and resume_command).   *)
THEOREM UserStateIsKept == HostWaits => (Spec => []UserStateKept)
<1> SUFFICES ASSUME HostWaits PROVE Spec => []UserStateKept
  OBVIOUS
<1>1. Init => UserInv /\ AfterAwaited /\ Restoring
  <2>1. <<"user">> # <<>> /\ <<"user">>[1] = "user" /\ DOMAIN <<>> = {}
    OBVIOUS
  <2> QED BY <2>1 DEF Init, UserInv, UserBottom, Pushed, AfterAwaited, Free, NotAfter, Restoring
<1>2. TypeInv /\ AfterAwaited /\ UserInv /\ Restoring /\ [Next]_vars => UserInv' /\ AfterAwaited' /\ Restoring'
  BY UserStep, AfterStep, RestoringStep
<1>3. UserInv /\ TypeInv => UserStateKept
  <2>1. ASSUME TypeInv, UserBottom PROVE Head(state_stack) = "user"
    BY <2>1 DEF TypeInv, RobotTypes, UserBottom
  <2> QED BY <2>1 DEF UserInv, UserBottom, UserStateKept
<1> QED BY <1>1, <1>2, <1>3, InitTypes, NextTypes, PTL DEF Spec

-----------------------------------------------------------------------------
(* When no line waits for room meanwhile, an abort leaves nothing behind.  *)

NoLineWaits == \A t \in Threads : at[t] = "room" => Room

(* What is being read is of the last print.                                *)
LastPrint ==
    /\ current_file_handler # NoLine => current_file_handler[1] = prints
    /\ \A t \in Threads : at[t] \in {"look", "pause", "room", "send"} => buf[t][1] = prints

Ending(t) == at[t] \in {"none", "finish", "close"}

(* It will not send any more.                                              *)
Quiet(t) == Ending(t) \/ (at[t] \in {"pause", "look"} /\ abort_thread)

AllQuiet == \A t \in Threads : Quiet(t)

(* The thread has seen the abort, or it will.                              *)
AbortSeen == abort_flg => abort_thread \/ \A t \in Threads : Ending(t)

FlushIsQuiet == pc = "flush" => Free(inbox, {"line"}) /\ AllQuiet

FreshLines == \A i \in DOMAIN inbox : inbox[i].cmd = "line" =>
                  flushed < inbox[i].line[1] /\ inbox[i].line[1] <= prints

Flushed == /\ flushed <= prints
           /\ flushed = prints => AllQuiet
           /\ FreshLines

AbortInv == LastPrint /\ AbortSeen /\ FlushIsQuiet /\ Flushed

LEMMA OpeningLastPrint ==
    ASSUME TypeInv, NoThread, NEW paused, open_file(paused)
    PROVE  /\ LastPrint' /\ prints' \in Nat /\ prints <= prints'
           /\ prints' = prints => \A t \in Threads : at'[t] = "none"
<1>1. prints \in Nat
  BY PlayerAssumption DEF TypeInv, FileTypes
<1>2. \A t \in Threads : at'[t] \in {"none", "fetch"}
  BY Opening
<1>3. CASE prints' = prints + 1 /\ current_file_handler' = <<prints + 1, 1>>
  BY <1>1, <1>2, <1>3 DEF LastPrint
<1>4. CASE prints' = prints /\ current_file_handler' = NoLine /\ UNCHANGED <<playing_file, at>>
  BY <1>1, <1>2, <1>4 DEF LastPrint, NoThread
<1> QED BY <1>3, <1>4, Opening

(* A file that is opened is not one that was flushed.                      *)
LEMMA OpeningAbort ==
    ASSUME TypeInv, AbortInv, NoThread, ~abort_flg', pc' # "flush", UNCHANGED flushed,
           NEW paused, open_file(paused),
           UNCHANGED inbox \/ (inbox # <<>> /\ inbox' = Tail(inbox))
    PROVE  AbortInv'
<1>1. /\ LastPrint' /\ prints' \in Nat /\ prints <= prints'
      /\ prints' = prints => \A t \in Threads : at'[t] = "none"
  BY OpeningLastPrint
<1>2. prints \in Nat /\ flushed \in Nat /\ flushed <= prints
  BY PlayerAssumption DEF TypeInv, FileTypes, OtherTypes, AbortInv, Flushed
<1>3. \A i \in DOMAIN inbox' : \E j \in DOMAIN inbox : inbox'[i] = inbox[j]
  <2>1. CASE UNCHANGED inbox
    BY <2>1
  <2>2. CASE inbox # <<>> /\ inbox' = Tail(inbox)
    BY <2>2, Taken DEF TypeInv, InboxTypes
  <2> QED BY <2>1, <2>2
<1>4. \A j \in DOMAIN inbox : inbox[j].cmd = "line" => inbox[j].line[1] \in Nat
  <2>1. \A j \in DOMAIN inbox : inbox[j].line \in Lines \cup {NoLine}
    <3>1. \A j \in DOMAIN inbox : inbox[j] \in Messages
      BY DEF TypeInv, InboxTypes
    <3> QED BY <3>1, MessageFields
  <2> QED BY <2>1, PlayerAssumption DEF Lines, NoLine
<1>5. FreshLines'
  BY <1>1, <1>2, <1>3, <1>4 DEF AbortInv, Flushed, FreshLines
<1>6. flushed' <= prints' /\ (flushed' = prints' => AllQuiet')
  BY <1>1, <1>2 DEF AllQuiet, Quiet, Ending
<1> QED BY <1>1, <1>5, <1>6 DEF AbortInv, AbortSeen, FlushIsQuiet, Flushed

LEMMA ReceiveAborts == ASSUME Receive PROVE UNCHANGED abortVars \/ abort_thread'
<1> DEFINE m == Head(inbox)
<1>1. CASE Play(m.cmd) \/ M24(m.cmd) \/ M25(m.cmd) \/ G28(m.cmd) \/ suspend_command(m.cmd)
           \/ Move(m.cmd) \/ FileLine(m.line)
  BY <1>1 DEF Play, M24, M25, G28, suspend_command, Move, FileLine
<1>2. CASE AbortCommand(m.cmd) \/ M26(m.cmd)
  BY <1>2 DEF AbortCommand, M26, abort_command
<1> QED BY <1>1, <1>2 DEF Receive

LEMMA AbortReceive == ASSUME TypeInv, ReaderInv, AbortInv, Receive PROVE AbortInv'
<1> DEFINE m == Head(inbox)
<1>1. inbox # <<>> /\ inbox' = Tail(inbox) /\ pc' # "flush" /\ UNCHANGED flushed
  BY DEF Receive
<1>2. UNCHANGED abortVars \/ abort_thread'
  BY ReceiveAborts
<1> HIDE DEF m
<1>3. CASE UNCHANGED <<filename, current_file_handler, prints, threadVars>>
  <2>1. LastPrint' /\ AbortSeen'
    BY <1>2, <1>3 DEF AbortInv, LastPrint, AbortSeen, Ending, threadVars, abortVars
  <2>2. AllQuiet => AllQuiet'
    BY <1>2, <1>3 DEF AllQuiet, Quiet, Ending, threadVars, abortVars
  <2>3. FreshLines'
    <3>1. \A i \in DOMAIN inbox' : i + 1 \in DOMAIN inbox /\ inbox'[i] = inbox[i + 1]
      BY <1>1, Taken DEF TypeInv, InboxTypes
    <3> QED BY <1>1, <1>3, <3>1 DEF AbortInv, Flushed, FreshLines
  <2> QED BY <1>1, <1>3, <2>1, <2>2, <2>3 DEF AbortInv, FlushIsQuiet, Flushed
<1>4. CASE NoThread /\ ~abort_flg /\ UNCHANGED abortVars /\ \E paused \in BOOLEAN : open_file(paused)
  BY <1>1, <1>4, OpeningAbort DEF abortVars
<1> QED BY <1>3, <1>4, ReceiveOpens DEF m

LEMMA AbortContext ==
    ASSUME TypeInv, ReaderInv, AbortInv, abort_flg => NoLineWaits, in_command_ctx
    PROVE  AbortInv'
<1>1. UNCHANGED <<inbox, flushed>>
  BY DEF in_command_ctx
<1>2. CASE ~booted /\ \E paused \in BOOLEAN : open_file(paused)
  <2>1. NoThread /\ ~abort_flg
    BY <1>2 DEF ReaderInv, BeforeBoot
  <2>2. pc' = "receive" /\ UNCHANGED abortVars
    BY <1>2 DEF in_command_ctx, Boot, CompleteAbort, CountSuspend, NothingToDo
  <2> QED BY <1>1, <1>2, <2>1, <2>2, OpeningAbort DEF abortVars
<1>3. CASE UNCHANGED <<fileVars, threadVars, abortVars>> /\ pc' # "flush"
  BY <1>1, <1>3 DEF AbortInv, LastPrint, AbortSeen, FlushIsQuiet, Flushed, FreshLines, AllQuiet, Quiet, Ending,
     fileVars, threadVars, abortVars
<1>4. CASE CompleteAbort(pc = "receive")
  <2>1. /\ pc = "receive" /\ TimesOut /\ UNCHANGED <<fileVars, threadVars, abort_thread>>
        /\ abort_flg /\ ~abort_flg'
    BY <1>4 DEF in_command_ctx, CompleteAbort
  <2>2. Free(inbox, {"line"})
    BY <2>1 DEF TimesOut, Free
  <2>3. AllQuiet
    BY <2>1 DEF TimesOut, Waits, NoLineWaits, AbortInv, AbortSeen, AllQuiet, Quiet, Ending
  <2>4. AllQuiet'
    BY <2>1, <2>3 DEF AllQuiet, Quiet, Ending, threadVars
  <2> QED BY <1>1, <2>1, <2>2, <2>4 DEF AbortInv, LastPrint, AbortSeen, FlushIsQuiet, Flushed, FreshLines,
             fileVars, threadVars
<1>5. CASE Boot
  BY <1>2, <1>3, <1>5, BootOpens DEF Boot
<1> QED BY <1>3, <1>4, <1>5 DEF in_command_ctx, CountSuspend, NothingToDo

LEMMA AbortLater == ASSUME TypeInv, AbortInv, Later PROVE AbortInv'
<1>1. /\ UNCHANGED <<inbox, abortVars, threadVars, current_file_handler, prints>> /\ pc' # "flush"
      /\ flushed' = IF pc = "flush" THEN prints ELSE flushed
  BY DEF Later, FlushQueue, SuspendWait, SuspendSave, WaitHeaters, Unsuspend, Restore, Restored, fileVars
<1>2. LastPrint' /\ AbortSeen' /\ FlushIsQuiet'
  BY <1>1 DEF AbortInv, LastPrint, AbortSeen, FlushIsQuiet, Ending, abortVars, threadVars
<1>3. AllQuiet' = AllQuiet
  BY <1>1 DEF AllQuiet, Quiet, Ending, abortVars, threadVars
<1>4. CASE pc = "flush"
  <2>1. flushed' <= prints'
    BY <1>1, <1>4, PlayerAssumption DEF TypeInv, FileTypes
  <2>2. AllQuiet'
    BY <1>3, <1>4 DEF AbortInv, FlushIsQuiet
  <2>3. FreshLines'
    BY <1>1, <1>4 DEF AbortInv, FlushIsQuiet, Free, FreshLines
  <2> QED BY <1>2, <2>1, <2>2, <2>3 DEF AbortInv, Flushed
<1>5. CASE pc # "flush"
  BY <1>1, <1>2, <1>3, <1>5 DEF AbortInv, Flushed, FreshLines
<1> QED BY <1>4, <1>5

(* The thread of the print, and no other.                                  *)
LEMMA OneThread ==
    ASSUME TypeInv, ReaderInv, NEW t \in Threads, PlayThread(t)
    PROVE  /\ at[t] # "none" /\ current_file_handler # NoLine
           /\ \A u \in Threads \ {t} : at[u] = "none" /\ at'[u] = "none"
           /\ UNCHANGED <<pc, prints, flushed, abort_flg, suspended, suspend_loops>>
           /\ UNCHANGED inbox \/ send_message_queue(t)
<1>1. at[t] # "none" /\ at \in [Threads -> PlayStates]
  BY DEF PlayThread, Fetch, Look, WakeUp, wait_for_room, send_message_queue, Finish, Close, Thread,
     TypeInv, ThreadTypes
<1>2. \A u \in Threads \ {t} : at'[u] = at[u]
  BY <1>1 DEF PlayThread, Fetch, Look, WakeUp, wait_for_room, send_message_queue, Finish, Close, Thread
<1>3. UNCHANGED <<pc, prints, flushed, abort_flg, suspended, suspend_loops>>
  BY DEF PlayThread, Fetch, Look, WakeUp, wait_for_room, send_message_queue, Finish, Close, abortVars,
     fileVars, suspendVars
<1>4. UNCHANGED inbox \/ send_message_queue(t)
  BY DEF PlayThread, Fetch, Look, WakeUp, wait_for_room, Finish, Close
<1> QED BY <1>1, <1>2, <1>3, <1>4 DEF ReaderInv, FileOpen, OneReader

LEMMA QuietThread ==
    ASSUME TypeInv, ReaderInv, NEW t \in Threads, PlayThread(t), AllQuiet
    PROVE  AllQuiet' /\ UNCHANGED inbox
<1>1. /\ \A u \in Threads \ {t} : at'[u] = "none"
      /\ UNCHANGED inbox \/ send_message_queue(t)
      /\ at[t] \in {"finish", "close"} \/ (at[t] \in {"pause", "look"} /\ abort_thread)
      /\ at \in [Threads -> PlayStates]
  BY OneThread DEF AllQuiet, Quiet, Ending, TypeInv, ThreadTypes
<1>2. CASE Look(t)
  <2>1. at'[t] = "finish"
    BY <1>1, <1>2 DEF Look, Thread
  <2> QED BY <1>1, <1>2, <2>1 DEF Look, AllQuiet, Quiet, Ending
<1>3. CASE WakeUp(t)
  <2>1. at'[t] = "look" /\ abort_thread' = abort_thread /\ abort_thread
    BY <1>1, <1>3 DEF WakeUp, Thread, abortVars
  <2> QED BY <1>1, <1>3, <2>1 DEF WakeUp, AllQuiet, Quiet, Ending
<1>4. CASE Finish(t) \/ Close(t)
  <2>1. at'[t] \in {"close", "none"}
    BY <1>1, <1>4 DEF Finish, Close, Thread
  <2> QED BY <1>1, <1>4, <2>1 DEF Finish, Close, AllQuiet, Quiet, Ending
<1> QED BY <1>1, <1>2, <1>3, <1>4 DEF PlayThread, Fetch, wait_for_room, send_message_queue, Thread

LEMMA AbortThread == ASSUME TypeInv, ReaderInv, AbortInv, NEW t \in Threads, PlayThread(t) PROVE AbortInv'
<1>1. /\ at[t] # "none" /\ current_file_handler # NoLine
      /\ \A u \in Threads \ {t} : at[u] = "none" /\ at'[u] = "none"
      /\ UNCHANGED <<pc, prints, flushed, abort_flg>>
      /\ UNCHANGED inbox \/ send_message_queue(t)
  BY OneThread
<1>2. at \in [Threads -> PlayStates] /\ buf \in [Threads -> Lines \cup {NoLine}]
  BY DEF TypeInv, ThreadTypes
<1>3. AllQuiet => AllQuiet' /\ UNCHANGED inbox
  BY QuietThread
<1>4. FlushIsQuiet'
  BY <1>1, <1>3 DEF AbortInv, FlushIsQuiet
<1>5. LastPrint'
  <2>1. CASE Fetch(t)
    <3>1. CASE UNCHANGED <<buf, current_file_handler>> /\ Thread(t, "fetch", "finish")
      BY <1>1, <1>2, <3>1 DEF Thread, AbortInv, LastPrint
    <3>2. CASE /\ Thread(t, "fetch", "look")
               /\ buf' = [buf EXCEPT ![t] = current_file_handler]
               /\ current_file_handler' = [current_file_handler EXCEPT ![2] = @ + 1]
      <4>1. current_file_handler[1] = prints
        BY <1>1 DEF AbortInv, LastPrint
      <4>2. PICK p \in 1 .. MaxPrints, n \in 1 .. FileLines + 1 : current_file_handler = <<p, n>>
        BY <1>1 DEF TypeInv, FileTypes
      <4>3. current_file_handler'[1] = prints /\ buf'[t][1] = prints
        BY <1>2, <3>2, <4>1, <4>2
      <4> QED BY <1>1, <4>3 DEF LastPrint
    <3> QED BY <2>1, <3>1, <3>2 DEF Fetch
  <2>2. CASE Look(t) \/ WakeUp(t) \/ wait_for_room(t)
    <3>1. /\ at[t] \in {"look", "pause", "room"} /\ UNCHANGED <<buf, current_file_handler>>
      BY <2>2 DEF Look, WakeUp, wait_for_room, Thread, fileVars
    <3> QED BY <1>1, <3>1 DEF AbortInv, LastPrint
  <2>3. CASE send_message_queue(t) \/ Finish(t) \/ Close(t)
    <3>1. /\ at'[t] \in {"fetch", "close", "none"}
          /\ UNCHANGED current_file_handler \/ current_file_handler' = NoLine
      BY <1>2, <2>3 DEF send_message_queue, Finish, Close, Thread, fileVars
    <3> QED BY <1>1, <3>1 DEF AbortInv, LastPrint
  <2> QED BY <2>1, <2>2, <2>3 DEF PlayThread
<1>6. AbortSeen'
  <2>1. CASE Look(t)
    <3>1. abort_thread' = abort_thread \/ at'[t] = "finish"
      BY <1>2, <2>1 DEF Look, Thread
    <3>2. ~Ending(t)
      BY <2>1 DEF Look, Thread, Ending
    <3> QED BY <1>1, <3>1, <3>2 DEF AbortInv, AbortSeen, Ending
  <2>2. CASE ~Look(t)
    <3>1. UNCHANGED abort_thread
      BY <2>2 DEF PlayThread, Fetch, WakeUp, wait_for_room, send_message_queue, Finish, Close, abortVars
    <3>2. Ending(t) => at'[t] \in {"close", "none"}
      BY <1>1, <1>2, <2>2 DEF PlayThread, Fetch, WakeUp, wait_for_room, send_message_queue, Finish, Close, Thread,
         Ending
    <3> QED BY <1>1, <3>1, <3>2 DEF AbortInv, AbortSeen, Ending
  <2> QED BY <2>1, <2>2
<1>7. Flushed'
  <2>1. CASE UNCHANGED inbox
    BY <1>1, <1>3, <2>1 DEF AbortInv, Flushed, FreshLines
  <2>2. CASE send_message_queue(t)
    <3>1. ~AllQuiet /\ flushed < prints
      <4>1. ~Quiet(t)
        BY <2>2 DEF send_message_queue, Thread, Quiet, Ending
      <4>2. flushed <= prints /\ flushed # prints /\ flushed \in Nat /\ prints \in Nat
        BY <4>1, PlayerAssumption DEF AbortInv, Flushed, AllQuiet, TypeInv, FileTypes, OtherTypes
      <4> QED BY <4>1, <4>2 DEF AllQuiet
    <3>2. Line(buf[t]) \in Messages /\ Line(buf[t]).line[1] = prints
      BY <1>2, <2>2 DEF send_message_queue, Thread, Messages, Line, AbortInv, LastPrint
    <3>3. \A i \in DOMAIN inbox' : (i \in DOMAIN inbox /\ inbox'[i] = inbox[i]) \/ inbox'[i] = Line(buf[t])
      BY <2>2, <3>2, Put DEF send_message_queue, TypeInv, InboxTypes
    <3>4. prints <= prints
      BY PlayerAssumption DEF TypeInv, FileTypes
    <3>5. FreshLines'
      BY <1>1, <3>1, <3>2, <3>3, <3>4 DEF AbortInv, Flushed, FreshLines
    <3> QED BY <1>1, <3>1, <3>5 DEF AbortInv, Flushed
  <2> QED BY <1>1, <2>1, <2>2
<1> QED BY <1>4, <1>5, <1>6, <1>7 DEF AbortInv

LEMMA AbortOthers ==
    ASSUME TypeInv, AbortInv, RunBlock \/ on_halt \/ Unlock \/ \E cmd \in Commands : Send(cmd)
    PROVE  AbortInv'
<1>1. UNCHANGED <<pc, fileVars, abortVars, threadVars, flushed>>
  BY DEF RunBlock, on_halt, Unlock, Send
<1>2. AllQuiet' = AllQuiet /\ LastPrint' /\ AbortSeen'
  BY <1>1 DEF AbortInv, LastPrint, AbortSeen, AllQuiet, Quiet, Ending, fileVars, abortVars, threadVars
<1>3. CASE UNCHANGED inbox
  BY <1>1, <1>2, <1>3 DEF AbortInv, FlushIsQuiet, Flushed, FreshLines, fileVars
<1>4. ASSUME NEW cmd \in Commands, Send(cmd) PROVE AbortInv'
  <2>1. /\ Message(cmd) \in Messages /\ Message(cmd).cmd # "line" /\ inbox' = Append(inbox, Message(cmd))
    BY <1>4, PlayerAssumption DEF Message, Messages, Send
  <2>2. Free(inbox, {"line"}) => Free(inbox', {"line"})
    BY <2>1, PutInto
  <2>3. \A i \in DOMAIN inbox' : (i \in DOMAIN inbox /\ inbox'[i] = inbox[i]) \/ inbox'[i] = Message(cmd)
    BY <2>1, Put DEF TypeInv, InboxTypes
  <2>4. FreshLines'
    BY <1>1, <2>1, <2>3 DEF AbortInv, Flushed, FreshLines, fileVars
  <2> QED BY <1>1, <1>2, <2>2, <2>4 DEF AbortInv, FlushIsQuiet, Flushed, fileVars
<1> QED BY <1>3, <1>4 DEF RunBlock, on_halt, Unlock

LEMMA AbortStep ==
    ASSUME TypeInv, ReaderInv, AbortInv, abort_flg => NoLineWaits, [Next]_vars
    PROVE  AbortInv'
<1>1. CASE UNCHANGED vars
  BY <1>1 DEF vars, AbortInv, LastPrint, AbortSeen, FlushIsQuiet, Flushed, FreshLines, AllQuiet, Quiet, Ending,
     fileVars, abortVars, threadVars
<1> QED BY <1>1, AbortReceive, AbortContext, AbortLater, AbortThread, AbortOthers DEF Next, Command, Later

(* When the host waits, and no line waits for room while an abort is       *)
(* completed, nothing of a print is executed after its abort (Player.cpp,  *)
(* abort_command).                                                         *)
THEOREM AbortIsComplete == HostWaits => (Spec /\ [](abort_flg => NoLineWaits) => AbortLeavesNothing)
<1> SUFFICES ASSUME HostWaits PROVE Spec /\ [](abort_flg => NoLineWaits) => AbortLeavesNothing
  OBVIOUS
<1>1. Init => ReaderInv /\ AbortInv
  <2>1. Init => ReaderInv
    BY DEF Init, ReaderInv, BeforeBoot, NoThread, PlayAwaited, M26Awaited, FileOpen, OneReader, Free, NotAfter
  <2>2. Init => AbortInv
    BY DEF Init, AbortInv, LastPrint, AbortSeen, FlushIsQuiet, Flushed, FreshLines, AllQuiet, Quiet, Ending
  <2> QED BY <2>1, <2>2
<1>2. TypeInv /\ ReaderInv /\ [Next]_vars => ReaderInv'
  BY ReaderStep
<1>3. TypeInv /\ ReaderInv /\ AbortInv /\ (abort_flg => NoLineWaits) /\ [Next]_vars => AbortInv'
  BY AbortStep
<1>4. TypeInv /\ AbortInv /\ [Next]_vars => [\A l \in Lines : Executes(l) => l[1] > flushed]_vars
  <2> SUFFICES ASSUME TypeInv, AbortInv, NEW l \in Lines, Executes(l) PROVE l[1] > flushed
    OBVIOUS
  <2>1. 1 \in DOMAIN inbox /\ inbox[1] = Line(l)
    BY Taken DEF Executes, TypeInv, InboxTypes
  <2>2. flushed < l[1]
    BY <2>1 DEF Line, AbortInv, Flushed, FreshLines
  <2>3. flushed \in Nat /\ l[1] \in Nat
    BY PlayerAssumption DEF TypeInv, OtherTypes, Lines
  <2> QED BY <2>2, <2>3
<1> QED BY <1>1, <1>2, <1>3, <1>4, InitTypes, NextTypes, PTL DEF Spec, AbortLeavesNothing

-----------------------------------------------------------------------------
(* When no line waits for room meanwhile, a suspended print is quiet.      *)

M24Awaited == /\ Free(inbox, {"M24"}) \/ ~suspended
              /\ NotAfter(inbox, {"M24"}, {"suspend"})

(* The thread of a suspended print looks, and sleeps.                      *)
Idling(t) == Ending(t) \/ at[t] \in {"pause", "look"}

AllIdle == Free(inbox, {"line"}) /\ \A t \in Threads : Idling(t)

SuspendInv == /\ suspended => ~playing_file
              /\ M24Awaited
              /\ suspended /\ suspend_loops <= 1 => AllIdle

LEMMA SuspendReceive == ASSUME TypeInv, ReaderInv, SuspendInv, Receive PROVE SuspendInv'
<1> DEFINE m == Head(inbox)
<1>1. inbox # <<>> /\ inbox' = Tail(inbox)
  BY DEF Receive
<1>2. /\ Free(inbox, {"M24"}) => Free(inbox', {"M24"}) /\ m.cmd # "M24"
      /\ NotAfter(inbox', {"M24"}, {"suspend"})
      /\ m.cmd = "suspend" => Free(inbox', {"M24"})
      /\ Free(inbox, {"line"}) => Free(inbox', {"line"})
  <2>1. /\ Free(inbox, {"M24"}) => Free(inbox', {"M24"}) /\ m.cmd \notin {"M24"}
        /\ NotAfter(inbox', {"M24"}, {"suspend"})
        /\ m.cmd \in {"suspend"} => Free(inbox', {"M24"})
    BY <1>1, TakenFrom DEF SuspendInv, M24Awaited
  <2>2. Free(inbox, {"line"}) => Free(inbox', {"line"})
    BY <1>1, TakenFrom
  <2> QED BY <2>1, <2>2
<1>3. \/ UNCHANGED <<suspended, suspend_loops>>
      \/ ~suspended'
      \/ m.cmd = "suspend" /\ ~suspended /\ suspend_loops' = 2
  BY ReceiveSuspends
<1>4. M24Awaited'
  BY <1>2, <1>3 DEF SuspendInv, M24Awaited
<1>5. suspended' => UNCHANGED threadVars
  BY <1>3, ReceiveOpens DEF suspendVars
<1>6. suspended' /\ suspend_loops' <= 1 => AllIdle'
  <2> SUFFICES ASSUME suspended', suspend_loops' <= 1 PROVE AllIdle'
    OBVIOUS
  <2>1. suspend_loops' # 2
    OBVIOUS
  <2>2. UNCHANGED <<suspended, suspend_loops>>
    BY <1>3, <2>1
  <2>3. UNCHANGED at
    BY <1>5 DEF threadVars
  <2>4. AllIdle
    BY <2>2 DEF SuspendInv
  <2> QED BY <1>2, <2>3, <2>4 DEF AllIdle, Idling, Ending
<1>7. suspended' => ~playing_file'
  <2> SUFFICES ASSUME suspended' PROVE ~playing_file'
    OBVIOUS
  <2>1. CASE m.cmd = "suspend"
    <3>1. CASE suspended
      BY <2>1, <3>1 DEF Receive, Refused, Play, AbortCommand, M24, M25, M26, G28, Move, FileLine,
         suspend_command, SuspendInv, fileVars, suspendVars
    <3>2. CASE ~suspended
      BY <2>1, <3>2 DEF Receive, Refused, Play, AbortCommand, M24, M25, M26, G28, Move, FileLine,
         suspend_command, suspendVars
    <3> QED BY <3>1, <3>2
  <2>2. CASE m.cmd # "suspend"
    <3>1. suspended /\ ~playing_file /\ m.cmd # "M24"
      BY <1>2, <1>3, <2>2 DEF SuspendInv, M24Awaited
    <3>2. CASE Play(m.cmd)
      BY <3>1, <3>2 DEF Play, play_command, fileVars
    <3>3. CASE M26(m.cmd)
      <4>1. playing_file \/ ~filename
        BY <1>1, <3>3, TakenFrom DEF M26, ReaderInv, M26Awaited
      <4> QED BY <3>1, <3>3, <4>1 DEF M26, fileVars
    <3> QED BY <2>2, <3>1, <3>2, <3>3 DEF Receive, AbortCommand, M24, M25, G28, suspend_command, Move,
               FileLine, fileVars
  <2> QED BY <2>1, <2>2
<1> HIDE DEF m
<1> QED BY <1>4, <1>6, <1>7 DEF SuspendInv

LEMMA SuspendContext ==
    ASSUME TypeInv, ReaderInv, SuspendInv, suspended => NoLineWaits, in_command_ctx
    PROVE  SuspendInv'
<1>1. UNCHANGED <<inbox, suspended>>
  <2>1. CASE Boot
    BY <2>1 DEF in_command_ctx, Boot, suspendVars
  <2>2. CASE ~Boot
    BY <2>2 DEF in_command_ctx, CompleteAbort, CountSuspend, NothingToDo, suspendVars
  <2> QED BY <2>1, <2>2
<1>2. M24Awaited'
  BY <1>1 DEF SuspendInv, M24Awaited
<1>3. CASE Boot
  <2>1. UNCHANGED suspendVars
    BY <1>3 DEF Boot
  <2>2. CASE suspended
    <3>1. UNCHANGED <<fileVars, threadVars>>
      <4>1. CASE on_boot_gcode_enable
        BY <1>3, <2>2, <4>1 DEF Boot, play_command
      <4>2. CASE ~on_boot_gcode_enable
        BY <1>3, <4>2 DEF Boot
      <4> QED BY <4>1, <4>2
    <3> QED BY <1>1, <1>2, <2>1, <3>1 DEF SuspendInv, AllIdle, Idling, Ending, suspendVars, threadVars, fileVars
  <2>3. CASE ~suspended
    BY <1>1, <1>2, <2>3 DEF SuspendInv
  <2> QED BY <2>2, <2>3
<1>4. CASE CompleteAbort(pc = "receive") \/ NothingToDo(pc = "receive")
  BY <1>1, <1>2, <1>4 DEF CompleteAbort, NothingToDo, SuspendInv, AllIdle, Idling, Ending, suspendVars, threadVars,
     fileVars
<1>5. CASE CountSuspend(pc = "receive")
  <2>1. UNCHANGED <<fileVars, threadVars>> /\ TimesOut /\ NoLineWaits
    BY <1>5 DEF in_command_ctx, CountSuspend
  <2>2. AllIdle'
    BY <1>1, <2>1 DEF TimesOut, Waits, NoLineWaits, AllIdle, Free, Idling, Ending, threadVars
  <2> QED BY <1>1, <1>2, <2>1, <2>2 DEF SuspendInv, fileVars
<1> QED BY <1>3, <1>4, <1>5 DEF in_command_ctx

LEMMA SuspendLater == ASSUME TypeInv, Restoring, SuspendInv, Later PROVE SuspendInv'
<1>1. UNCHANGED <<inbox, threadVars, suspend_loops>> /\ (UNCHANGED suspended \/ ~suspended')
  BY DEF Later, FlushQueue, SuspendWait, SuspendSave, WaitHeaters, Unsuspend, Restore, Restored, suspendVars
<1>2. suspended' => UNCHANGED playing_file
  BY <1>1 DEF Later, FlushQueue, SuspendWait, SuspendSave, WaitHeaters, Unsuspend, Restore, Restored, fileVars,
     Restoring
<1> QED BY <1>1, <1>2 DEF SuspendInv, M24Awaited, AllIdle, Idling, Ending, threadVars

LEMMA IdleThread ==
    ASSUME TypeInv, ReaderInv, NEW t \in Threads, PlayThread(t), AllIdle, ~playing_file
    PROVE  AllIdle' /\ UNCHANGED inbox
<1>1. /\ \A u \in Threads \ {t} : at[u] = "none" /\ at'[u] = "none"
      /\ UNCHANGED inbox \/ send_message_queue(t)
      /\ Idling(t) /\ at \in [Threads -> PlayStates]
  BY OneThread DEF AllIdle, TypeInv, ThreadTypes
<1>2. UNCHANGED inbox
  BY <1>1 DEF Idling, Ending, send_message_queue, Thread
<1>3. Idling(t)'
  BY <1>1 DEF PlayThread, Fetch, Look, WakeUp, wait_for_room, send_message_queue, Finish, Close, Thread,
     Idling, Ending
<1> QED BY <1>1, <1>2, <1>3 DEF AllIdle, Idling, Ending

LEMMA SuspendThread == ASSUME TypeInv, ReaderInv, SuspendInv, NEW t \in Threads, PlayThread(t) PROVE SuspendInv'
<1>1. /\ \A u \in Threads \ {t} : at[u] = "none" /\ at'[u] = "none"
      /\ UNCHANGED <<suspended, suspend_loops>>
      /\ UNCHANGED inbox \/ send_message_queue(t)
  BY OneThread
<1>2. UNCHANGED playing_file \/ ~playing_file'
  BY DEF PlayThread, Fetch, Look, WakeUp, wait_for_room, send_message_queue, Finish, Close, fileVars
<1>3. M24Awaited'
  <2>1. CASE UNCHANGED inbox
    BY <1>1, <2>1 DEF SuspendInv, M24Awaited
  <2>2. CASE send_message_queue(t)
    <3>1. Line(buf[t]) \in Messages /\ Line(buf[t]).cmd \notin {"M24"}
      BY DEF Messages, Line, TypeInv, ThreadTypes
    <3>2. inbox' = Append(inbox, Line(buf[t]))
      BY <2>2 DEF send_message_queue
    <3> QED BY <1>1, <3>1, <3>2, PutInto DEF SuspendInv, M24Awaited
  <2> QED BY <1>1, <2>1, <2>2
<1>4. ASSUME suspended, suspend_loops <= 1 PROVE AllIdle'
  BY <1>4, IdleThread DEF SuspendInv
<1> QED BY <1>1, <1>2, <1>3, <1>4 DEF SuspendInv

LEMMA SuspendOthers ==
    ASSUME TypeInv, SuspendInv, HostWaits, RunBlock \/ on_halt \/ Unlock \/ \E cmd \in Commands : Send(cmd)
    PROVE  SuspendInv'
<1>1. /\ UNCHANGED <<threadVars, fileVars>>
      /\ UNCHANGED <<suspended, suspend_loops>> \/ ~suspended'
  BY DEF RunBlock, on_halt, ClearSuspend, Unlock, Send, suspendVars
<1>2. CASE UNCHANGED inbox
  BY <1>1, <1>2 DEF SuspendInv, M24Awaited, AllIdle, Idling, Ending, fileVars, threadVars
<1>3. ASSUME NEW cmd \in Commands, Send(cmd) PROVE SuspendInv'
  <2>1. /\ Message(cmd) \in Messages /\ Message(cmd).cmd = cmd /\ inbox' = Append(inbox, Message(cmd))
        /\ Awaited(cmd) /\ cmd # "line" /\ UNCHANGED <<suspended, suspend_loops>>
    BY <1>3, PlayerAssumption DEF Message, Messages, Send, suspendVars
  <2>2. cmd = "M24" => ~suspended /\ Free(inbox, {"suspend"})
    BY <2>1 DEF Awaited, Pending, Free
  <2>3. M24Awaited'
    BY <2>1, <2>2, PutInto DEF SuspendInv, M24Awaited
  <2>4. Free(inbox, {"line"}) => Free(inbox', {"line"})
    BY <2>1, PutInto
  <2> QED BY <1>1, <2>1, <2>3, <2>4 DEF SuspendInv, AllIdle, Idling, Ending, fileVars, threadVars
<1> QED BY <1>2, <1>3 DEF RunBlock, on_halt, Unlock

LEMMA SuspendStep ==
    ASSUME TypeInv, ReaderInv, Restoring, SuspendInv, HostWaits, suspended => NoLineWaits, [Next]_vars
    PROVE  SuspendInv'
<1>1. CASE UNCHANGED vars
  BY <1>1 DEF vars, SuspendInv, M24Awaited, AllIdle, Idling, Ending, fileVars, suspendVars, threadVars
<1> QED BY <1>1, SuspendReceive, SuspendContext, SuspendLater, SuspendThread, SuspendOthers
        DEF Next, Command, Later

(* When the host waits, and no line waits for room in a suspend, nothing   *)
(* of the file is executed once the print is suspended (Player.cpp,        *)
(* suspend_command and in_command_ctx).                                    *)
THEOREM SuspendIsQuiet == HostWaits => (Spec /\ [](suspended => NoLineWaits) => SuspendedIsQuiet)
<1> SUFFICES ASSUME HostWaits PROVE Spec /\ [](suspended => NoLineWaits) => SuspendedIsQuiet
  OBVIOUS
<1>1. Init => ReaderInv /\ Restoring /\ SuspendInv
  <2>1. Init => ReaderInv
    BY DEF Init, ReaderInv, BeforeBoot, NoThread, PlayAwaited, M26Awaited, FileOpen, OneReader, Free, NotAfter
  <2>2. Init => Restoring /\ SuspendInv
    BY DEF Init, Restoring, SuspendInv, M24Awaited, Free, NotAfter
  <2> QED BY <2>1, <2>2
<1>2. TypeInv /\ ReaderInv /\ [Next]_vars => ReaderInv'
  BY ReaderStep
<1>3. Restoring /\ [Next]_vars => Restoring'
  BY RestoringStep
<1>4. TypeInv /\ ReaderInv /\ Restoring /\ SuspendInv /\ (suspended => NoLineWaits) /\ [Next]_vars => SuspendInv'
  BY SuspendStep
<1>5. TypeInv /\ SuspendInv /\ [Next]_vars =>
          [\A l \in Lines : Executes(l) => ~(suspended /\ suspend_loops = 0)]_vars
  <2> SUFFICES ASSUME TypeInv, SuspendInv, NEW l \in Lines, Executes(l), suspended, suspend_loops = 0
               PROVE  FALSE
    OBVIOUS
  <2>1. 1 \in DOMAIN inbox /\ inbox[1] = Line(l)
    BY Taken DEF Executes, TypeInv, InboxTypes
  <2>2. Free(inbox, {"line"})
    BY DEF SuspendInv, AllIdle
  <2> QED BY <2>1, <2>2 DEF Free, Line
<1> QED BY <1>1, <1>2, <1>3, <1>4, <1>5, InitTypes, NextTypes, PTL DEF Spec, SuspendedIsQuiet

-----------------------------------------------------------------------------
(* The lines of a print are executed in order, each where the one before   *)
(* it ended.                                                               *)

Moves == {"G0", "G28"}

Holding(t) == at[t] \in {"look", "pause", "room", "send"}

HoldsNext == \A t \in Threads : Holding(t) => current_file_handler[2] = buf[t][2] + 1

(* A file is opened behind the lines of the one before, and what the host  *)
(* does in a suspend before the lines that follow it.                      *)
LinesBehind == /\ NotAfter(inbox, {"line"}, Plays)
               /\ NotAfter(inbox, Moves, {"line"})
               /\ ~booted => Free(inbox, {"line"})

Suspending == ~halted /\ pc \in {"suspend_wait", "suspend_save", "heat", "unsuspend"} =>
                  suspended /\ suspend_loops = 0

PushedStack == Pushed => state_stack # <<>>

QueueInv == HoldsNext /\ LinesBehind /\ Suspending /\ PushedStack

LEMMA HoldsStep == ASSUME TypeInv, ReaderInv, HoldsNext, [Next]_vars PROVE HoldsNext'
<1>1. ASSUME UNCHANGED <<at, buf, current_file_handler>> PROVE HoldsNext'
  BY <1>1 DEF HoldsNext, Holding
<1>2. ASSUME NoThread, NEW paused, open_file(paused) PROVE HoldsNext'
  BY <1>2, Opening DEF HoldsNext, Holding
<1>3. CASE Receive
  <2>1. CASE UNCHANGED <<filename, current_file_handler, prints, threadVars>>
    BY <1>1, <2>1 DEF threadVars
  <2> QED BY <1>2, <1>3, <2>1, ReceiveOpens
<1>4. CASE in_command_ctx
  <2>1. CASE UNCHANGED <<fileVars, threadVars>>
    BY <1>1, <2>1 DEF threadVars, fileVars
  <2>2. CASE ~booted /\ \E paused \in BOOLEAN : open_file(paused)
    BY <1>2, <2>2 DEF ReaderInv, BeforeBoot
  <2> QED BY <1>4, <2>1, <2>2, BootOpens DEF in_command_ctx, CompleteAbort, CountSuspend, NothingToDo
<1>5. CASE Later
  BY <1>1, <1>5 DEF Later, FlushQueue, SuspendWait, SuspendSave, WaitHeaters, Unsuspend, Restore, Restored,
     threadVars, fileVars
<1>6. ASSUME NEW t \in Threads, PlayThread(t) PROVE HoldsNext'
  <2>1. /\ current_file_handler # NoLine
        /\ \A u \in Threads \ {t} : at'[u] = "none"
        /\ at \in [Threads -> PlayStates] /\ buf \in [Threads -> Lines \cup {NoLine}]
    BY <1>6, OneThread DEF TypeInv, ThreadTypes
  <2>2. CASE Fetch(t)
    <3>1. CASE Thread(t, "fetch", "finish")
      BY <2>1, <3>1 DEF Thread, HoldsNext, Holding
    <3>2. CASE /\ buf' = [buf EXCEPT ![t] = current_file_handler]
               /\ current_file_handler' = [current_file_handler EXCEPT ![2] = @ + 1]
      <4>1. PICK p \in 1 .. MaxPrints, n \in 1 .. FileLines + 1 : current_file_handler = <<p, n>>
        BY <2>1 DEF TypeInv, FileTypes
      <4>2. current_file_handler' = <<p, n + 1>> /\ buf'[t] = <<p, n>>
        BY <2>1, <3>2, <4>1
      <4> QED BY <2>1, <4>2 DEF HoldsNext, Holding
    <3> QED BY <2>2, <3>1, <3>2 DEF Fetch
  <2>3. CASE Look(t) \/ WakeUp(t) \/ wait_for_room(t)
    <3>1. Holding(t) /\ UNCHANGED <<buf, current_file_handler>>
      BY <2>3 DEF Look, WakeUp, wait_for_room, Thread, Holding, fileVars
    <3> QED BY <2>1, <3>1 DEF HoldsNext, Holding
  <2>4. CASE send_message_queue(t) \/ Finish(t) \/ Close(t)
    <3>1. at'[t] \in {"fetch", "close", "none"}
      BY <2>1, <2>4 DEF send_message_queue, Finish, Close, Thread
    <3> QED BY <2>1, <3>1 DEF HoldsNext, Holding
  <2> QED BY <1>6, <2>2, <2>3, <2>4 DEF PlayThread
<1>7. CASE RunBlock \/ on_halt \/ Unlock \/ \E cmd \in Commands : Send(cmd)
  BY <1>1, <1>7 DEF RunBlock, on_halt, Unlock, Send, threadVars, fileVars
<1>8. CASE UNCHANGED vars
  BY <1>1, <1>8 DEF vars, threadVars, fileVars
<1> QED BY <1>3, <1>4, <1>5, <1>6, <1>7, <1>8 DEF Next, Command, Later

LEMMA BehindStep ==
    ASSUME TypeInv, ReaderInv, SuspendInv, LinesBehind, HostWaits, [Next]_vars
    PROVE  LinesBehind'
<1>1. ASSUME UNCHANGED inbox, ~booted' => ~booted PROVE LinesBehind'
  BY <1>1 DEF LinesBehind
<1>2. CASE Receive
  <2>1. inbox # <<>> /\ inbox' = Tail(inbox) /\ UNCHANGED booted
    BY <1>2 DEF Receive
  <2> QED BY <2>1, TakenFrom DEF LinesBehind
<1>3. CASE in_command_ctx
  <2>1. ~booted' => ~booted
    BY ReaderContext, <1>3 DEF in_command_ctx, Boot, CompleteAbort, CountSuspend, NothingToDo
  <2> QED BY <1>1, <1>3, <2>1 DEF in_command_ctx
<1>4. CASE Later
  BY <1>1, <1>4 DEF Later, FlushQueue, SuspendWait, SuspendSave, WaitHeaters, Unsuspend, Restore, Restored
<1>5. ASSUME NEW t \in Threads, PlayThread(t) PROVE LinesBehind'
  <2>1. UNCHANGED booted
    BY <1>5 DEF PlayThread, Fetch, Look, WakeUp, wait_for_room, send_message_queue, Finish, Close
  <2>2. CASE send_message_queue(t)
    <3>1. Free(inbox, Plays) /\ booted
      BY <1>5, OneThread DEF ReaderInv, PlayAwaited, BeforeBoot, NoThread
    <3>2. Line(buf[t]) \in Messages /\ Line(buf[t]).cmd = "line" /\ inbox' = Append(inbox, Line(buf[t]))
      BY <2>2 DEF Messages, Line, TypeInv, ThreadTypes, send_message_queue
    <3> QED BY <2>1, <3>1, <3>2, PutInto DEF LinesBehind, Moves
  <2> QED BY <1>1, <1>5, <2>1, <2>2, OneThread
<1>6. CASE RunBlock \/ on_halt \/ Unlock
  BY <1>1, <1>6 DEF RunBlock, on_halt, Unlock
<1>7. ASSUME NEW cmd \in Commands, Send(cmd) PROVE LinesBehind'
  <2>1. /\ Message(cmd) \in Messages /\ Message(cmd).cmd = cmd /\ inbox' = Append(inbox, Message(cmd))
        /\ Awaited(cmd) /\ cmd # "line" /\ UNCHANGED booted
    BY <1>7, PlayerAssumption DEF Message, Messages, Send
  <2>2. cmd \in Moves => Free(inbox, {"line"})
    <3>1. cmd \in Moves => Suspended
      BY <2>1 DEF Awaited, Moves
    <3>2. Suspended => suspended /\ suspend_loops <= 1
      BY DEF Suspended
    <3> QED BY <3>1, <3>2 DEF SuspendInv, AllIdle
  <2> QED BY <2>1, <2>2, PutInto DEF LinesBehind
<1>8. CASE UNCHANGED vars
  BY <1>1, <1>8 DEF vars
<1> QED BY <1>2, <1>3, <1>4, <1>5, <1>6, <1>7, <1>8 DEF Next, Command, Later

LEMMA SuspendingStep ==
    ASSUME TypeInv, AfterAwaited, Suspending, HostWaits, [Next]_vars
    PROVE  Suspending'
<1>1. CASE Receive
  <2>1. inbox # <<>> /\ inbox' = Tail(inbox)
    BY <1>1 DEF Receive
  <2>2. pc' # "context" => Head(inbox).cmd = "resume" /\ suspended /\ UNCHANGED <<suspended, suspend_loops>>
    BY <1>1, ReceiveSuspends
  <2>3. Head(inbox).cmd = "resume" => (suspended => suspend_loops = 0)
    BY <2>1, TakenFrom DEF AfterAwaited, AfterSuspend
  <2> QED BY <2>2, <2>3 DEF Suspending
<1>2. CASE in_command_ctx
  <2>1. suspend_loops \in 0 .. 2
    BY DEF TypeInv, SuspendTypes
  <2> QED BY <1>2, <2>1, ContextSuspends DEF Suspending
<1>3. CASE Later
  BY <1>3 DEF Later, FlushQueue, SuspendWait, SuspendSave, WaitHeaters, Unsuspend, Restore, Restored, suspendVars,
     hostVars, Suspending
<1>4. CASE \E t \in Threads : PlayThread(t)
  BY <1>4 DEF PlayThread, Fetch, Look, WakeUp, wait_for_room, send_message_queue, Finish, Close, suspendVars,
     hostVars, Suspending
<1>5. CASE RunBlock \/ on_halt \/ \E cmd \in Commands : Send(cmd)
  BY <1>5 DEF RunBlock, on_halt, Send, suspendVars, hostVars, Suspending
<1>6. CASE Unlock
  BY <1>6 DEF Unlock, HaltSettled, Suspending
<1>7. CASE UNCHANGED vars
  BY <1>7 DEF vars, suspendVars, hostVars, Suspending
<1> QED BY <1>1, <1>2, <1>3, <1>4, <1>5, <1>6, <1>7 DEF Next, Command, Later

LEMMA PushedStep ==
    ASSUME TypeInv, Restoring, Suspending, PushedStack, [Next]_vars
    PROVE  PushedStack'
<1>1. CASE Receive
  BY <1>1, ReceiveSuspends DEF PushedStack, Pushed
<1>2. CASE in_command_ctx
  <2>1. suspend_loops \in 0 .. 2 /\ UNCHANGED state_stack
    BY <1>2 DEF TypeInv, SuspendTypes, in_command_ctx, robotVars
  <2> QED BY <1>2, <2>1, ContextSuspends DEF PushedStack, Pushed
<1>3. CASE SuspendSave
  <2>1. state_stack' # <<>>
    <3>1. state_stack \in Seq(Modes) /\ robot.mode \in Modes
      BY DEF TypeInv, RobotTypes
    <3>2. Len(state_stack') = Len(state_stack) + 1 /\ Len(state_stack) \in Nat
      BY <1>3, <3>1, Put DEF SuspendSave, push_state
    <3> QED BY <3>2
  <2> QED BY <2>1 DEF PushedStack
<1>4. CASE FlushQueue \/ SuspendWait
  BY <1>4 DEF FlushQueue, SuspendWait, suspendVars, robotVars, PushedStack, Pushed
<1>5. CASE WaitHeaters \/ Unsuspend
  <2>1. ~halted => suspended /\ suspend_loops = 0
    BY <1>5 DEF WaitHeaters, Unsuspend, Suspending
  <2> QED BY <1>5, <2>1 DEF WaitHeaters, Unsuspend, PushedStack, Pushed
<1>6. CASE Restore \/ Restored
  BY <1>6 DEF Restore, Restored, Restoring, suspendVars, PushedStack, Pushed
<1>7. CASE \E t \in Threads : PlayThread(t)
  BY <1>7 DEF PlayThread, Fetch, Look, WakeUp, wait_for_room, send_message_queue, Finish, Close, suspendVars,
     robotVars, PushedStack, Pushed
<1>8. CASE RunBlock \/ Unlock \/ \E cmd \in Commands : Send(cmd)
  BY <1>8 DEF RunBlock, Unlock, Send, suspendVars, robotVars, PushedStack, Pushed
<1>9. CASE on_halt
  BY <1>9 DEF on_halt, ClearSuspend, Restoring, suspendVars, PushedStack, Pushed
<1>10. CASE UNCHANGED vars
  BY <1>10 DEF vars, suspendVars, robotVars, PushedStack, Pushed
<1> QED BY <1>1, <1>2, <1>3, <1>4, <1>5, <1>6, <1>7, <1>8, <1>9, <1>10 DEF Next, Command

(* The line v was executed last, the line n is the next to be sent.        *)
Queued(k) == \E i \in DOMAIN inbox : inbox[i].cmd = "line" /\ inbox[i].line[2] = k

InOrder(v, n) ==
    /\ v < n
    /\ \A i \in DOMAIN inbox : inbox[i].cmd = "line" =>
           inbox[i].line[1] = prints /\ v < inbox[i].line[2] /\ inbox[i].line[2] < n
    /\ \A k \in v + 1 .. n - 1 : Queued(k)
    /\ \A i, j \in DOMAIN inbox : i < j /\ inbox[i].cmd = "line" /\ inbox[j].cmd = "line" =>
           inbox[i].line[2] < inbox[j].line[2]
    /\ \A t \in Threads : /\ Holding(t) => buf[t][2] = n
                          /\ at[t] = "fetch" => current_file_handler[2] = n

LEMMA OrderSame ==
    ASSUME UNCHANGED <<inbox, prints, at, buf, current_file_handler>>, NEW v, NEW n, InOrder(v, n)
    PROVE  InOrder(v, n)'
BY DEF InOrder, Queued, Holding

LEMMA LineNumbers ==
    ASSUME TypeInv, NEW i \in DOMAIN inbox
    PROVE  inbox[i].line[2] \in Nat /\ i \in Nat
<1>1. inbox[i] \in Messages /\ i \in Nat
  BY DEF TypeInv, InboxTypes
<1>2. inbox[i].line \in Lines \cup {NoLine}
  BY <1>1, MessageFields
<1> QED BY <1>1, <1>2, PlayerAssumption DEF Lines, NoLine

LEMMA TakenPlaces ==
    ASSUME TypeInv, inbox # <<>>, inbox' = Tail(inbox)
    PROVE  /\ 1 \in DOMAIN inbox /\ inbox[1] = Head(inbox)
           /\ \A i \in DOMAIN inbox' : i + 1 \in DOMAIN inbox /\ inbox'[i] = inbox[i + 1] /\ i \in Nat \ {0}
           /\ \A i \in DOMAIN inbox : i # 1 => i - 1 \in DOMAIN inbox' /\ inbox'[i - 1] = inbox[i] /\ i > 1
<1>1. inbox \in Seq(Messages)
  BY DEF TypeInv, InboxTypes
<1>2. /\ Tail(inbox) \in Seq(Messages) /\ Len(Tail(inbox)) = Len(inbox) - 1 /\ Len(inbox) \in Nat \ {0}
      /\ Head(inbox) = inbox[1] /\ 1 \in DOMAIN inbox
      /\ \A i \in DOMAIN Tail(inbox) : i + 1 \in DOMAIN inbox /\ Tail(inbox)[i] = inbox[i + 1] /\ i \in Nat \ {0}
  BY <1>1, Taken
<1>3. ASSUME NEW i \in DOMAIN inbox, i # 1
      PROVE  i - 1 \in DOMAIN inbox' /\ inbox'[i - 1] = inbox[i] /\ i > 1
  <2>1. i \in 1 .. Len(inbox) /\ i > 1
    BY <1>1, <1>2, <1>3
  <2>2. i - 1 \in 1 .. Len(Tail(inbox)) /\ (i - 1) + 1 = i
    BY <1>2, <2>1
  <2>3. i - 1 \in DOMAIN Tail(inbox)
    BY <1>2, <2>2
  <2>4. Tail(inbox)[i - 1] = inbox[(i - 1) + 1]
    BY <1>2, <2>3
  <2> QED BY <2>1, <2>2, <2>3, <2>4
<1> QED BY <1>2, <1>3

(* A message that is not a line leaves the lines in order.                 *)
LEMMA OrderTaken ==
    ASSUME TypeInv, inbox # <<>>, inbox' = Tail(inbox), Head(inbox).cmd # "line",
           UNCHANGED <<prints, at, buf, current_file_handler>>, NEW v, NEW n, InOrder(v, n)
    PROVE  InOrder(v, n)'
<1>1. /\ inbox[1] = Head(inbox)
      /\ \A i \in DOMAIN inbox' : i + 1 \in DOMAIN inbox /\ inbox'[i] = inbox[i + 1] /\ i \in Nat \ {0}
      /\ \A i \in DOMAIN inbox : i # 1 => i - 1 \in DOMAIN inbox' /\ inbox'[i - 1] = inbox[i]
  BY TakenPlaces
<1>2. \A k : Queued(k) => Queued(k)'
  BY <1>1 DEF Queued
<1>3. \A i, j \in DOMAIN inbox' : i < j => i + 1 < j + 1
  BY <1>1
<1>4. \A i, j \in DOMAIN inbox' : i < j /\ inbox'[i].cmd = "line" /\ inbox'[j].cmd = "line" =>
          inbox'[i].line[2] < inbox'[j].line[2]
  BY <1>1, <1>3 DEF InOrder
<1>5. \A i \in DOMAIN inbox' : inbox'[i].cmd = "line" =>
          inbox'[i].line[1] = prints /\ v < inbox'[i].line[2] /\ inbox'[i].line[2] < n
  BY <1>1 DEF InOrder
<1>6. \A k \in v + 1 .. n - 1 : Queued(k)'
  BY <1>2 DEF InOrder
<1>7. \A t \in Threads : /\ Holding(t)' => buf'[t][2] = n
                         /\ at'[t] = "fetch" => current_file_handler'[2] = n
  BY DEF InOrder, Holding
<1>8. v < n /\ UNCHANGED prints
  BY DEF InOrder
<1> QED BY <1>4, <1>5, <1>6, <1>7, <1>8 DEF InOrder

(* A line that is taken is the next of its print.                          *)
LEMMA LineIsNext ==
    ASSUME TypeInv, inbox # <<>>, inbox' = Tail(inbox), Head(inbox).cmd = "line",
           NEW v \in Nat, NEW n \in Nat, InOrder(v, n)
    PROVE  /\ Head(inbox).line[1] = prints /\ Head(inbox).line[2] = v + 1 /\ v + 1 < n
           /\ \A j \in DOMAIN inbox : j # 1 /\ inbox[j].cmd = "line" => v + 1 < inbox[j].line[2]
<1>1. /\ inbox[1] = Head(inbox) /\ 1 \in DOMAIN inbox /\ \A i \in DOMAIN inbox : i # 1 => i > 1
  BY TakenPlaces
<1> DEFINE first == inbox[1].line[2]
<1>2. /\ first \in Nat /\ v < first /\ first < n /\ inbox[1].line[1] = prints
      /\ \A i \in DOMAIN inbox : inbox[i].line[2] \in Nat
  BY <1>1, LineNumbers DEF InOrder
<1>3. \A j \in DOMAIN inbox : j # 1 /\ inbox[j].cmd = "line" => first < inbox[j].line[2]
  BY <1>1 DEF InOrder
<1>4. first = v + 1
  <2>1. v + 1 \in v + 1 .. n - 1
    <3> HIDE DEF first
    <3> QED BY <1>2
  <2>2. PICK j \in DOMAIN inbox : inbox[j].cmd = "line" /\ inbox[j].line[2] = v + 1
    BY <2>1 DEF InOrder, Queued
  <2>3. CASE j = 1
    BY <2>2, <2>3
  <2>4. CASE j # 1
    <3>1. first < v + 1
      BY <1>3, <2>2, <2>4
    <3> HIDE DEF first
    <3> QED BY <1>2, <3>1
  <2> QED BY <2>3, <2>4
<1> QED BY <1>1, <1>2, <1>3, <1>4

LEMMA LineTaken ==
    ASSUME TypeInv, inbox # <<>>, inbox' = Tail(inbox), Head(inbox).cmd = "line",
           UNCHANGED <<prints, at, buf, current_file_handler>>,
           NEW v \in Nat, NEW n \in Nat, InOrder(v, n)
    PROVE  Head(inbox).line[1] = prints /\ Head(inbox).line[2] = v + 1 /\ InOrder(v + 1, n)'
<1>1. /\ inbox[1] = Head(inbox) /\ 1 \in DOMAIN inbox
      /\ \A i \in DOMAIN inbox' : i + 1 \in DOMAIN inbox /\ inbox'[i] = inbox[i + 1] /\ i \in Nat \ {0}
      /\ \A i \in DOMAIN inbox : i # 1 => i - 1 \in DOMAIN inbox' /\ inbox'[i - 1] = inbox[i] /\ i > 1
  BY TakenPlaces
<1>2. /\ Head(inbox).line[1] = prints /\ Head(inbox).line[2] = v + 1 /\ v + 1 < n
      /\ \A j \in DOMAIN inbox : j # 1 /\ inbox[j].cmd = "line" => v + 1 < inbox[j].line[2]
  BY LineIsNext
<1>3. \A i \in DOMAIN inbox' : inbox'[i].cmd = "line" =>
          inbox'[i].line[1] = prints /\ v + 1 < inbox'[i].line[2] /\ inbox'[i].line[2] < n
  <2> SUFFICES ASSUME NEW i \in DOMAIN inbox', inbox'[i].cmd = "line"
               PROVE  inbox'[i].line[1] = prints /\ v + 1 < inbox'[i].line[2] /\ inbox'[i].line[2] < n
    OBVIOUS
  <2>1. i + 1 \in DOMAIN inbox /\ inbox'[i] = inbox[i + 1] /\ i + 1 # 1
    BY <1>1
  <2>2. v + 1 < inbox[i + 1].line[2]
    BY <1>2, <2>1
  <2> QED BY <2>1, <2>2 DEF InOrder
<1>4. \A k \in (v + 1) + 1 .. n - 1 : Queued(k)'
  <2> SUFFICES ASSUME NEW k \in (v + 1) + 1 .. n - 1 PROVE Queued(k)'
    OBVIOUS
  <2>1. k \in v + 1 .. n - 1 /\ k # v + 1
    OBVIOUS
  <2>2. PICK j \in DOMAIN inbox : inbox[j].cmd = "line" /\ inbox[j].line[2] = k
    BY <2>1 DEF InOrder, Queued
  <2>3. j # 1
    BY <1>1, <1>2, <2>1, <2>2
  <2>4. j - 1 \in DOMAIN inbox' /\ inbox'[j - 1].cmd = "line" /\ inbox'[j - 1].line[2] = k
    BY <1>1, <2>2, <2>3
  <2> QED BY <2>4 DEF Queued
<1>5. \A i, j \in DOMAIN inbox' : i < j /\ inbox'[i].cmd = "line" /\ inbox'[j].cmd = "line" =>
          inbox'[i].line[2] < inbox'[j].line[2]
  <2>1. \A i, j \in DOMAIN inbox' : i < j => i + 1 < j + 1
    BY <1>1
  <2> QED BY <1>1, <2>1 DEF InOrder
<1>6. \A t \in Threads : /\ Holding(t)' => buf'[t][2] = n
                         /\ at'[t] = "fetch" => current_file_handler'[2] = n
  BY DEF InOrder, Holding
<1>7. v + 1 < n /\ UNCHANGED prints
  BY <1>2
<1> QED BY <1>2, <1>3, <1>4, <1>5, <1>6, <1>7 DEF InOrder

(* What a host sends is no line.                                           *)
LEMMA OrderSent ==
    ASSUME TypeInv, NEW m \in Messages, m.cmd # "line", inbox' = Append(inbox, m),
           UNCHANGED <<prints, at, buf, current_file_handler>>, NEW v, NEW n, InOrder(v, n)
    PROVE  InOrder(v, n)'
<1>1. /\ \A i \in DOMAIN inbox : i \in DOMAIN inbox' /\ inbox'[i] = inbox[i]
      /\ \A i \in DOMAIN inbox' : inbox'[i].cmd = "line" => i \in DOMAIN inbox
  BY Put DEF TypeInv, InboxTypes
<1>2. \A k : Queued(k) => Queued(k)'
  BY <1>1 DEF Queued
<1>3. \A i, j \in DOMAIN inbox' : i < j /\ inbox'[i].cmd = "line" /\ inbox'[j].cmd = "line" =>
          inbox'[i].line[2] < inbox'[j].line[2]
  BY <1>1 DEF InOrder
<1>4. \A i \in DOMAIN inbox' : inbox'[i].cmd = "line" =>
          inbox'[i].line[1] = prints /\ v < inbox'[i].line[2] /\ inbox'[i].line[2] < n
  BY <1>1 DEF InOrder
<1>5. \A k \in v + 1 .. n - 1 : Queued(k)'
  BY <1>2 DEF InOrder
<1>6. \A t \in Threads : /\ Holding(t)' => buf'[t][2] = n
                         /\ at'[t] = "fetch" => current_file_handler'[2] = n
  BY DEF InOrder, Holding
<1>7. v < n /\ UNCHANGED prints
  BY DEF InOrder
<1> QED BY <1>3, <1>4, <1>5, <1>6, <1>7 DEF InOrder

(* The thread sends the next line.                                         *)
LEMMA OrderThread ==
    ASSUME TypeInv, ReaderInv, LastPrint, HoldsNext, NEW t \in Threads, PlayThread(t),
           NEW v \in Nat, NEW n \in Nat, InOrder(v, n)
    PROVE  \E m \in Nat : InOrder(v, m)'
<1>1. /\ current_file_handler # NoLine
      /\ \A u \in Threads \ {t} : at'[u] = "none"
      /\ UNCHANGED prints
      /\ UNCHANGED inbox \/ send_message_queue(t)
      /\ at \in [Threads -> PlayStates] /\ buf \in [Threads -> Lines \cup {NoLine}]
  BY OneThread DEF TypeInv, ThreadTypes
<1>2. ASSUME UNCHANGED inbox,
             Holding(t)' => buf'[t][2] = n,
             at'[t] = "fetch" => current_file_handler'[2] = n
      PROVE  InOrder(v, n)'
  <2>1. \A u \in Threads : /\ Holding(u)' => buf'[u][2] = n
                           /\ at'[u] = "fetch" => current_file_handler'[2] = n
    BY <1>1, <1>2 DEF Holding
  <2>2. /\ v < n
        /\ \A i \in DOMAIN inbox' : inbox'[i].cmd = "line" =>
               inbox'[i].line[1] = prints' /\ v < inbox'[i].line[2] /\ inbox'[i].line[2] < n
        /\ \A k \in v + 1 .. n - 1 : Queued(k)'
        /\ \A i, j \in DOMAIN inbox' : i < j /\ inbox'[i].cmd = "line" /\ inbox'[j].cmd = "line" =>
               inbox'[i].line[2] < inbox'[j].line[2]
    BY <1>1, <1>2 DEF InOrder, Queued
  <2> QED BY <2>1, <2>2 DEF InOrder
<1>3. CASE Fetch(t)
  <2>1. UNCHANGED inbox
    BY <1>3 DEF Fetch
  <2>2. CASE Thread(t, "fetch", "finish")
    <3>1. at'[t] = "finish"
      BY <1>1, <2>2 DEF Thread
    <3> QED BY <1>2, <2>1, <3>1 DEF Holding
  <2>3. CASE Thread(t, "fetch", "look") /\ buf' = [buf EXCEPT ![t] = current_file_handler]
    <3>1. at'[t] = "look" /\ buf'[t] = current_file_handler /\ current_file_handler[2] = n
      BY <1>1, <2>3 DEF Thread, InOrder
    <3> QED BY <1>2, <2>1, <3>1
  <2> QED BY <1>3, <2>2, <2>3 DEF Fetch
<1>4. CASE Look(t) \/ WakeUp(t) \/ wait_for_room(t)
  <2>1. UNCHANGED <<inbox, buf, current_file_handler>> /\ Holding(t) /\ at'[t] # "fetch"
    BY <1>1, <1>4 DEF Look, WakeUp, wait_for_room, Thread, Holding, fileVars
  <2>2. buf'[t][2] = n
    BY <2>1 DEF InOrder
  <2> QED BY <1>2, <2>1, <2>2
<1>5. CASE Finish(t) \/ Close(t)
  <2>1. UNCHANGED inbox /\ at'[t] \in {"close", "none"}
    BY <1>1, <1>5 DEF Finish, Close, Thread
  <2> QED BY <1>2, <2>1 DEF Holding
<1>6. CASE send_message_queue(t)
  <2>1. /\ Holding(t) /\ at'[t] = "fetch" /\ UNCHANGED current_file_handler
        /\ inbox' = Append(inbox, Line(buf[t]))
    BY <1>1, <1>6 DEF send_message_queue, Thread, Holding, fileVars
  <2>2. buf[t][2] = n /\ buf[t][1] = prints /\ current_file_handler[2] = n + 1
    BY <2>1 DEF InOrder, LastPrint, HoldsNext, Holding
  <2> DEFINE l == Line(buf[t])
             last == Len(inbox) + 1
  <2>3. l \in Messages /\ l.cmd = "line" /\ l.line[1] = prints /\ l.line[2] = n
    BY <1>1, <2>2 DEF Messages, Line
  <2>4. /\ DOMAIN inbox' = DOMAIN inbox \cup {last} /\ inbox'[last] = l
        /\ \A i \in DOMAIN inbox : inbox'[i] = inbox[i] /\ i < last /\ i \in Nat /\ ~(last < i)
        /\ last \in Nat /\ ~(last < last)
    <3>1. inbox \in Seq(Messages)
      BY DEF TypeInv, InboxTypes
    <3>2. /\ Len(inbox) \in Nat /\ DOMAIN inbox' = DOMAIN inbox \cup {last} /\ DOMAIN inbox = 1 .. Len(inbox)
          /\ inbox'[last] = l /\ \A i \in DOMAIN inbox : inbox'[i] = inbox[i]
      BY <2>1, <2>3, <3>1, Put
    <3> QED BY <3>2
  <2> HIDE DEF l, last
  <2>5. n < n + 1 /\ v < n + 1 /\ v < n /\ \A i \in DOMAIN inbox : inbox[i].line[2] < n => inbox[i].line[2] < n + 1
    BY LineNumbers DEF InOrder
  <2>6. \A i \in DOMAIN inbox' : inbox'[i].cmd = "line" =>
            inbox'[i].line[1] = prints /\ v < inbox'[i].line[2] /\ inbox'[i].line[2] < n + 1
    BY <2>3, <2>4, <2>5 DEF InOrder
  <2>7. \A k \in v + 1 .. (n + 1) - 1 : Queued(k)'
    <3>1. \A k : Queued(k) => Queued(k)'
      BY <2>4 DEF Queued
    <3>2. Queued(n)'
      BY <2>3, <2>4 DEF Queued
    <3>3. \A k \in v + 1 .. (n + 1) - 1 : k = n \/ k \in v + 1 .. n - 1
      OBVIOUS
    <3> QED BY <3>1, <3>2, <3>3 DEF InOrder
  <2>8. \A i, j \in DOMAIN inbox' : i < j /\ inbox'[i].cmd = "line" /\ inbox'[j].cmd = "line" =>
            inbox'[i].line[2] < inbox'[j].line[2]
    BY <2>3, <2>4 DEF InOrder
  <2>9. \A u \in Threads : /\ Holding(u)' => buf'[u][2] = n + 1
                           /\ at'[u] = "fetch" => current_file_handler'[2] = n + 1
    BY <1>1, <2>1, <2>2 DEF Holding
  <2>10. InOrder(v, n + 1)'
    BY <1>1, <2>5, <2>6, <2>7, <2>8, <2>9 DEF InOrder
  <2> QED BY <2>10
<1> QED BY <1>3, <1>4, <1>5, <1>6 DEF PlayThread

(* Where the robot will be when a suspend is over.                         *)
Place == IF Pushed THEN [at |-> saved_position, mode |-> Last(state_stack)] ELSE robot

Linked == \E v, n \in Nat : /\ InOrder(v, n)
                            /\ v > 0 => Place = [at |-> <<prints, v>>, mode |-> "print"]

(* A print is at its beginning, goes on, has ended, or was cancelled by a  *)
(* homing in its suspend.                                                  *)
Fresh == \E n \in Nat : InOrder(0, n)

Going == Linked /\ (Free(inbox, Moves) \/ Pushed)

Dead == Free(inbox, {"line"}) /\ AllQuiet

Cancelled == /\ AllIdle /\ ~playing_file /\ Free(inbox, {"M24"})
             /\ suspended \/ pc \in {"restore", "restored"} => ~was_playing_file
             /\ robot.at = Away
             /\ Pushed => saved_position = Away

PlaceInv == ~halted => Fresh \/ Going \/ Dead \/ Cancelled

Base == TypeInv /\ ReaderInv /\ AbortInv /\ SuspendInv /\ AfterAwaited /\ Restoring /\ QueueInv

LEMMA FreshOpening ==
    ASSUME TypeInv, NoThread, NEW paused, open_file(paused), Free(inbox', {"line"})
    PROVE  Fresh'
<1>1. /\ \A t \in Threads : at'[t] \in {"none", "fetch"}
      /\ \A t \in Threads : at'[t] = "fetch" => current_file_handler'[2] = 1
  <2>1. CASE prints' = prints + 1 /\ current_file_handler' = <<prints + 1, 1>>
    BY <2>1, Opening
  <2>2. CASE UNCHANGED at
    BY <2>2 DEF NoThread
  <2> QED BY <2>1, <2>2, Opening
<1>2. InOrder(0, 1)'
  <2>1. \A k \in 0 + 1 .. 1 - 1 : Queued(k)'
    OBVIOUS
  <2>2. \A i \in DOMAIN inbox' : inbox'[i].cmd # "line"
    BY DEF Free
  <2>3. \A t \in Threads : /\ Holding(t)' => buf'[t][2] = 1
                           /\ at'[t] = "fetch" => current_file_handler'[2] = 1
    BY <1>1 DEF Holding
  <2>4. 0 < 1
    OBVIOUS
  <2> QED BY <2>1, <2>2, <2>3, <2>4 DEF InOrder
<1> QED BY <1>2 DEF Fresh

(* What a message that is not a line does to a print that goes on.         *)
LEMMA ReceiveKinds ==
    ASSUME TypeInv, ReaderInv, Receive, ~halted, Head(inbox).cmd # "line",
           UNCHANGED <<filename, current_file_handler, prints, threadVars>>
    PROVE  LET m == Head(inbox) IN
           \/ /\ UNCHANGED <<suspended, suspend_loops, saved_position, was_playing_file, state_stack, robot>>
              /\ playing_file' => playing_file \/ m.cmd = "M24"
           \/ /\ abort_thread' /\ ~suspended'
              /\ UNCHANGED <<suspend_loops, saved_position, was_playing_file, state_stack, robot, playing_file>>
           \/ /\ m.cmd = "suspend" /\ ~suspended /\ suspend_loops' = 2 /\ ~playing_file'
              /\ was_playing_file' = playing_file
              /\ UNCHANGED <<saved_position, state_stack, robot>>
           \/ /\ m.cmd = "G28" /\ ~suspended' /\ robot'.at = Away /\ UNCHANGED playing_file
              /\ suspended => ~was_playing_file'
           \/ /\ m.cmd = "G0" /\ robot'.at = Away
              /\ UNCHANGED <<suspended, suspend_loops, saved_position, was_playing_file, state_stack, playing_file>>
<1> DEFINE m == Head(inbox)
<1>1. inbox # <<>> /\ inbox' = Tail(inbox) /\ pc = "receive" /\ m \in Messages
  <2>1. inbox # <<>> /\ inbox' = Tail(inbox) /\ pc = "receive"
    BY DEF Receive
  <2> QED BY <2>1, TakenFrom
<1>2. CASE Play(m.cmd)
  <2>1. prints' # prints + 1
    BY PlayerAssumption DEF TypeInv, FileTypes
  <2>2. UNCHANGED playing_file
    <3>1. (m.cmd = "M23") \in BOOLEAN
      OBVIOUS
    <3>2. PICK paused \in BOOLEAN : play_command(paused)
      BY <1>2, <3>1 DEF Play
    <3>3. CASE UNCHANGED <<fileVars, threadVars>>
      BY <3>3 DEF fileVars
    <3>4. CASE open_file(paused)
      BY <2>1, <3>4 DEF open_file
    <3> QED BY <3>2, <3>3, <3>4, PlayOpens
  <2> QED BY <1>2, <2>2 DEF Play, suspendVars, robotVars
<1>3. CASE AbortCommand(m.cmd)
  BY <1>3 DEF AbortCommand, abort_command, fileVars, robotVars
<1>4. CASE M24(m.cmd) \/ M25(m.cmd)
  <2>1. playing_file' => playing_file \/ m.cmd = "M24"
    BY <1>4 DEF M24, M25
  <2> QED BY <1>4, <2>1 DEF M24, M25, suspendVars, robotVars
<1>5. CASE M26(m.cmd)
  <2>1. playing_file \/ ~filename
    BY <1>1, <1>5, TakenFrom DEF M26, ReaderInv, M26Awaited
  <2> QED BY <1>5, <2>1 DEF M26, abort_command, fileVars, robotVars
<1>6. CASE G28(m.cmd)
  <2>1. robot'.at = Away
    <3>1. robot \in [at : Lines \cup {Away}, mode : Modes]
      BY DEF TypeInv, RobotTypes
    <3> QED BY <1>6, <3>1 DEF G28, ClearSuspend, pop_state
  <2>2. ~suspended' /\ UNCHANGED playing_file /\ (suspended => ~was_playing_file')
    BY <1>6 DEF G28, ClearSuspend, fileVars, suspendVars
  <2> QED BY <1>6, <2>1, <2>2 DEF G28
<1>7. CASE suspend_command(m.cmd)
  BY <1>7 DEF suspend_command, suspendVars, robotVars
<1>8. CASE Move(m.cmd)
  BY <1>8 DEF Move, fileVars, suspendVars
<1>9. CASE UNCHANGED <<fileVars, abortVars, suspendVars, threadVars, robotVars>>
  BY <1>9 DEF fileVars, suspendVars, robotVars
<1>10. ~FileLine(m.line)
  BY <1>1, MessageFields DEF FileLine
<1> HIDE DEF m
<1> QED BY <1>2, <1>3, <1>4, <1>5, <1>6, <1>7, <1>8, <1>9, <1>10 DEF Receive, m

LEMMA GoingOn ==
    ASSUME NEW v \in Nat, NEW n \in Nat, InOrder(v, n)',
           v > 0 => Place' = [at |-> <<prints', v>>, mode |-> "print"],
           Free(inbox', Moves) \/ Pushed'
    PROVE  Going'
BY DEF Going, Linked

(* A line of the file.                                                     *)
LEMMA PlaceLine ==
    ASSUME Base, PlaceInv, ~halted, Receive, Head(inbox).cmd = "line",
           UNCHANGED <<filename, current_file_handler, prints, threadVars>>
    PROVE  Going'
<1> DEFINE m == Head(inbox)
<1> USE DEF Base
<1>1. inbox # <<>> /\ inbox' = Tail(inbox) /\ pc = "receive" /\ 1 \in DOMAIN inbox /\ inbox[1] = m
      /\ m \in Messages
  <2>1. inbox # <<>> /\ inbox' = Tail(inbox) /\ pc = "receive"
    BY DEF Receive
  <2> QED BY <2>1, TakenFrom
<1>2. ~Free(inbox, {"line"})
  BY <1>1 DEF Free
<1>3. PICK v \in Nat, n \in Nat : InOrder(v, n)
  BY <1>2 DEF PlaceInv, Fresh, Going, Linked, Dead, Cancelled, AllIdle
<1>4. ~Pushed
  BY <1>1, <1>2 DEF Pushed, SuspendInv, AllIdle
<1>5. /\ pc' = "context" /\ robot' = [at |-> m.line, mode |-> "print"] /\ m.line # NoLine
      /\ UNCHANGED <<suspended, suspend_loops>>
  <2>1. FileLine(m.line) /\ pc' = "context"
    BY DEF Receive, Refused, Play, AbortCommand, M24, M25, M26, G28, suspend_command, Move
  <2> QED BY <2>1 DEF FileLine, suspendVars
<1>6. m.line \in Lines
  BY <1>1, <1>5, MessageFields
<1>7. m.line[1] = prints /\ m.line[2] = v + 1 /\ InOrder(v + 1, n)'
  BY <1>1, <1>3, LineTaken DEF threadVars
<1> HIDE DEF m
<1>8. m.line = <<prints, v + 1>>
  BY <1>6, <1>7 DEF Lines
<1>9. Place' = [at |-> <<prints, v + 1>>, mode |-> "print"]
  BY <1>1, <1>4, <1>5, <1>8 DEF Place, Pushed
<1>10. Free(inbox', Moves)
  BY <1>1, TakenFrom DEF QueueInv, LinesBehind, m
<1>11. v + 1 \in Nat
  OBVIOUS
<1> QED BY <1>7, <1>9, <1>10, <1>11, GoingOn

(* Another message, and a print that goes on.                              *)
LEMMA PlaceGoing ==
    ASSUME Base, Going, ~halted, Receive, Head(inbox).cmd # "line",
           UNCHANGED <<filename, current_file_handler, prints, threadVars>>
    PROVE  Going' \/ Dead' \/ Cancelled'
<1> DEFINE m == Head(inbox)
<1> USE DEF Base
<1>1. inbox # <<>> /\ inbox' = Tail(inbox) /\ pc = "receive" /\ pc' \in {"context", "heat", "unsuspend"}
  <2>1. inbox # <<>> /\ inbox' = Tail(inbox)
    BY DEF Receive
  <2> QED BY <2>1, ReceiveSuspends
<1>2. PICK v \in Nat, n \in Nat : InOrder(v, n) /\ (v > 0 => Place = [at |-> <<prints, v>>, mode |-> "print"])
  BY DEF Going, Linked
<1>3. InOrder(v, n)' /\ prints' = prints
  BY <1>1, <1>2, OrderTaken DEF threadVars
<1>4. /\ Free(inbox, Moves) => Free(inbox', Moves) /\ m.cmd \notin Moves
      /\ Free(inbox, {"line"}) => Free(inbox', {"line"})
      /\ Free(inbox, {"M24"}) => Free(inbox', {"M24"})
  BY <1>1, TakenFrom
<1>5. Pushed => suspended /\ suspend_loops = 0 /\ AllIdle
  BY <1>1 DEF Pushed, SuspendInv
<1>6. AllIdle => AllIdle'
  BY <1>4 DEF AllIdle, Idling, Ending, threadVars
<1>7. ASSUME Place' = Place, Pushed' <=> Pushed PROVE Going'
  <2>1. Free(inbox', Moves) \/ Pushed'
    BY <1>4, <1>7 DEF Going
  <2>2. v > 0 => Place' = [at |-> <<prints', v>>, mode |-> "print"]
    BY <1>2, <1>3, <1>7
  <2> QED BY <1>3, <2>1, <2>2, GoingOn
<1>8. CASE UNCHANGED <<suspended, suspend_loops, saved_position, state_stack, robot>>
  BY <1>1, <1>7, <1>8 DEF Pushed, Place
<1>9. CASE /\ abort_thread' /\ ~suspended'
           /\ UNCHANGED <<suspend_loops, saved_position, state_stack, robot>>
  <2>1. CASE Pushed
    BY <1>5, <1>6, <1>9, <2>1 DEF Dead, AllIdle, Idling, AllQuiet, Quiet, Ending
  <2>2. CASE ~Pushed
    BY <1>1, <1>7, <1>9, <2>2 DEF Pushed, Place
  <2> QED BY <2>1, <2>2
<1>10. CASE /\ ~suspended /\ suspend_loops' = 2 /\ UNCHANGED <<saved_position, state_stack, robot>>
  BY <1>1, <1>5, <1>7, <1>10 DEF Pushed, Place
<1>11. CASE m.cmd = "G28" /\ ~suspended' /\ robot'.at = Away /\ UNCHANGED playing_file
  <2>1. Pushed
    BY <1>4, <1>11 DEF Going, Moves
  <2>2. AllIdle' /\ ~playing_file' /\ Free(inbox', {"M24"})
    BY <1>4, <1>5, <1>6, <1>11, <2>1 DEF SuspendInv, M24Awaited
  <2>3. pc' \notin {"restore", "restored"} /\ ~Pushed'
    BY <1>1, <1>11 DEF Pushed
  <2> QED BY <1>11, <2>2, <2>3 DEF Cancelled
<1>12. CASE m.cmd = "G0" /\ UNCHANGED <<suspended, suspend_loops, saved_position, state_stack>>
  <2>1. Pushed
    BY <1>4, <1>12 DEF Going, Moves
  <2> QED BY <1>1, <1>7, <1>12, <2>1 DEF Pushed, Place
<1> QED BY <1>8, <1>9, <1>10, <1>11, <1>12, ReceiveKinds

LEMMA PlaceCancelled ==
    ASSUME Base, Cancelled, ~halted, Receive,
           UNCHANGED <<filename, current_file_handler, prints, threadVars>>
    PROVE  Cancelled'
<1> DEFINE m == Head(inbox)
<1> USE DEF Base
<1>1. inbox # <<>> /\ inbox' = Tail(inbox) /\ pc = "receive" /\ pc' \in {"context", "heat", "unsuspend"}
  <2>1. inbox # <<>> /\ inbox' = Tail(inbox)
    BY DEF Receive
  <2> QED BY <2>1, ReceiveSuspends
<1>2. /\ Free(inbox', {"line"}) /\ Free(inbox', {"M24"}) /\ m.cmd # "line" /\ m.cmd # "M24"
  BY <1>1, TakenFrom DEF Cancelled, AllIdle
<1>3. AllIdle'
  BY <1>2 DEF Cancelled, AllIdle, Idling, Ending, threadVars
<1> HIDE DEF m
<1>4. ASSUME ~playing_file', suspended' => ~was_playing_file', robot'.at = Away, Pushed' => saved_position' = Away
      PROVE  Cancelled'
  BY <1>1, <1>2, <1>3, <1>4 DEF Cancelled
<1>5. CASE /\ UNCHANGED <<suspended, suspend_loops, saved_position, was_playing_file, state_stack, robot>>
           /\ playing_file' => playing_file \/ m.cmd = "M24"
  BY <1>1, <1>2, <1>4, <1>5 DEF Cancelled, Pushed
<1>6. CASE /\ ~suspended'
           /\ UNCHANGED <<suspend_loops, saved_position, was_playing_file, state_stack, robot, playing_file>>
  BY <1>1, <1>2, <1>4, <1>6 DEF Cancelled, Pushed
<1>7. CASE /\ suspend_loops' = 2 /\ ~playing_file' /\ was_playing_file' = playing_file
           /\ UNCHANGED <<saved_position, state_stack, robot>>
  BY <1>1, <1>2, <1>4, <1>7 DEF Cancelled, Pushed
<1>8. CASE ~suspended' /\ robot'.at = Away /\ UNCHANGED playing_file
  BY <1>1, <1>2, <1>4, <1>8 DEF Cancelled, Pushed
<1>9. CASE /\ robot'.at = Away
           /\ UNCHANGED <<suspended, suspend_loops, saved_position, was_playing_file, state_stack, playing_file>>
  BY <1>1, <1>2, <1>4, <1>9 DEF Cancelled, Pushed
<1>10. \/ /\ UNCHANGED <<suspended, suspend_loops, saved_position, was_playing_file, state_stack, robot>>
          /\ playing_file' => playing_file \/ m.cmd = "M24"
       \/ /\ ~suspended'
          /\ UNCHANGED <<suspend_loops, saved_position, was_playing_file, state_stack, robot, playing_file>>
       \/ /\ suspend_loops' = 2 /\ ~playing_file' /\ was_playing_file' = playing_file
          /\ UNCHANGED <<saved_position, state_stack, robot>>
       \/ ~suspended' /\ robot'.at = Away /\ UNCHANGED playing_file
       \/ /\ robot'.at = Away
          /\ UNCHANGED <<suspended, suspend_loops, saved_position, was_playing_file, state_stack, playing_file>>
  BY <1>2, ReceiveKinds DEF m
<1> QED BY <1>5, <1>6, <1>7, <1>8, <1>9, <1>10

LEMMA PlaceReceive == ASSUME Base, PlaceInv, Receive PROVE PlaceInv'
<1> USE DEF Base
<1>1. inbox # <<>> /\ inbox' = Tail(inbox) /\ UNCHANGED halted
  BY DEF Receive, hostVars
<1> SUFFICES ASSUME ~halted PROVE PlaceInv'
  BY <1>1 DEF PlaceInv
<1>2. CASE UNCHANGED <<filename, current_file_handler, prints, threadVars>>
  <2>1. CASE Head(inbox).cmd = "line"
    BY <1>2, <2>1, PlaceLine DEF PlaceInv
  <2>2. CASE Head(inbox).cmd # "line" /\ Fresh
    <3>1. PICK n \in Nat : InOrder(0, n)
      BY <2>2 DEF Fresh
    <3>2. InOrder(0, n)'
      BY <1>1, <1>2, <2>2, <3>1, OrderTaken DEF threadVars
    <3> QED BY <3>2 DEF PlaceInv, Fresh
  <2>3. CASE Head(inbox).cmd # "line" /\ Going
    BY <1>2, <2>3, PlaceGoing DEF PlaceInv
  <2>4. CASE Dead
    <3>1. Free(inbox', {"line"})
      BY <1>1, <2>4, TakenFrom DEF Dead
    <3>2. abort_thread => abort_thread'
      <4>1. CASE UNCHANGED abortVars
        <5>1. abort_thread' = abort_thread
          BY <4>1 DEF abortVars
        <5> QED BY <5>1
      <4>2. CASE abort_thread'
        BY <4>2
      <4> QED BY <4>1, <4>2, ReceiveAborts
    <3> QED BY <1>2, <2>4, <3>1, <3>2 DEF PlaceInv, Dead, AllQuiet, Quiet, Ending, threadVars
  <2>5. CASE Cancelled
    BY <1>2, <2>5, PlaceCancelled DEF PlaceInv
  <2> QED BY <2>1, <2>2, <2>3, <2>4, <2>5 DEF PlaceInv
<1>3. CASE NoThread /\ Head(inbox).cmd \in Plays /\ \E paused \in BOOLEAN : open_file(paused)
  <2>1. PICK paused : open_file(paused)
    BY <1>3
  <2>2. Free(inbox', {"line"})
    BY <1>1, <1>3, TakenFrom DEF QueueInv, LinesBehind
  <2>3. Fresh'
    BY <1>3, <2>1, <2>2, FreshOpening
  <2> QED BY <2>3 DEF PlaceInv
<1> QED BY <1>2, <1>3, ReceiveOpens

LEMMA PlaceContext == ASSUME Base, PlaceInv, in_command_ctx PROVE PlaceInv'
<1> USE DEF Base
<1>1. UNCHANGED <<inbox, robotVars, halted>>
  BY DEF in_command_ctx, hostVars
<1> SUFFICES ASSUME ~halted PROVE PlaceInv'
  BY <1>1 DEF PlaceInv
<1>2. CASE ~booted /\ \E paused \in BOOLEAN : open_file(paused)
  <2>1. PICK paused : open_file(paused)
    BY <1>2
  <2>2. NoThread /\ Free(inbox', {"line"})
    BY <1>1, <1>2 DEF ReaderInv, BeforeBoot, QueueInv, LinesBehind
  <2>3. Fresh'
    BY <2>1, <2>2, FreshOpening
  <2> QED BY <2>3 DEF PlaceInv
<1>3. CASE UNCHANGED <<fileVars, threadVars>>
  <2>1. UNCHANGED <<saved_position, was_playing_file, abort_thread>>
    <3>1. CASE Boot
      BY <3>1 DEF Boot, suspendVars, abortVars
    <3>2. CASE ~Boot
      BY <3>2 DEF in_command_ctx, CompleteAbort, CountSuspend, NothingToDo, suspendVars, abortVars
    <3> QED BY <3>1, <3>2
  <2>2. (Pushed' <=> Pushed) /\ UNCHANGED suspended /\ pc' \in {"receive", "flush", "suspend_wait"}
    <3>1. suspend_loops \in 0 .. 2
      BY DEF TypeInv, SuspendTypes
    <3> QED BY <3>1, ContextSuspends DEF Pushed
  <2>3. Place' = Place
    BY <1>1, <2>1, <2>2 DEF Place, robotVars
  <2>4. \A v, n \in Nat : InOrder(v, n) => InOrder(v, n)'
    BY <1>1, <1>3, OrderSame DEF threadVars, fileVars
  <2>5. Fresh => Fresh'
    BY <2>4 DEF Fresh
  <2>6. Going => Going'
    BY <1>1, <1>3, <2>2, <2>3, <2>4 DEF Going, Linked, fileVars
  <2>7. Dead => Dead'
    BY <1>1, <1>3, <2>1 DEF Dead, AllQuiet, Quiet, Ending, threadVars
  <2>8. Cancelled => Cancelled'
    BY <1>1, <1>3, <2>1, <2>2 DEF Cancelled, AllIdle, Idling, Ending, threadVars, fileVars, robotVars
  <2> QED BY <2>5, <2>6, <2>7, <2>8 DEF PlaceInv
<1> QED BY <1>2, <1>3, BootOpens DEF in_command_ctx, CompleteAbort, CountSuspend, NothingToDo

(* The steps of a suspend and of a resume, while there is no halt.         *)
LEMMA LaterKeeps ==
    ASSUME Base, Later, ~halted, pc # "flush"
    PROVE  /\ UNCHANGED <<inbox, threadVars, current_file_handler, prints, abort_thread>>
           /\ Free(inbox, Moves)
           /\ Place' = Place
<1> USE DEF Base
<1>1. UNCHANGED <<inbox, threadVars, current_file_handler, prints, abort_thread>>
  BY DEF Later, FlushQueue, SuspendWait, SuspendSave, WaitHeaters, Unsuspend, Restore, Restored, fileVars, abortVars
<1>2. Free(inbox, Moves)
  <2>1. pc \notin {"receive", "context", "flush"}
    BY DEF Later, FlushQueue, SuspendWait, SuspendSave, WaitHeaters, Unsuspend, Restore, Restored
  <2> QED BY <2>1 DEF AfterAwaited, AfterSuspend, Free, Moves
<1>3. CASE SuspendSave
  <2>1. suspended /\ suspend_loops = 0 /\ ~Pushed /\ UNCHANGED <<suspended, suspend_loops>> /\ pc' = "receive"
    BY <1>3 DEF SuspendSave, QueueInv, Suspending, Pushed
  <2>2. Pushed'
    BY <2>1 DEF Pushed
  <2>3. robot \in [at : Lines \cup {Away}, mode : Modes] /\ state_stack \in Seq(Modes)
    BY DEF TypeInv, RobotTypes
  <2>4. Last(state_stack') = robot.mode
    BY <1>3, <2>3 DEF SuspendSave, push_state, Last
  <2>5. robot = [at |-> saved_position', mode |-> Last(state_stack')]
    BY <1>3, <2>3, <2>4 DEF SuspendSave
  <2> QED BY <1>1, <1>2, <2>1, <2>2, <2>5 DEF Place
<1>4. CASE Restore
  <2>1. Pushed /\ state_stack # <<>>
    BY <1>4 DEF Restore, Pushed, QueueInv, PushedStack
  <2>2. ~Pushed'
    BY <1>4 DEF Restore, Pushed, Restoring, suspendVars
  <2>3. robot' = [at |-> saved_position, mode |-> Last(state_stack)]
    BY <1>4, <2>1 DEF Restore, pop_state
  <2> QED BY <1>1, <1>2, <2>1, <2>2, <2>3 DEF Place
<1>5. CASE Unsuspend
  <2>1. Pushed /\ Pushed' /\ UNCHANGED <<saved_position, state_stack>>
    BY <1>5 DEF Unsuspend, QueueInv, Suspending, Pushed
  <2> QED BY <1>1, <1>2, <2>1 DEF Place
<1>6. CASE SuspendWait \/ WaitHeaters
  <2>1. (Pushed' <=> Pushed) /\ UNCHANGED <<saved_position, state_stack, robot>>
    BY <1>6 DEF SuspendWait, WaitHeaters, Pushed, robotVars
  <2> QED BY <1>1, <1>2, <2>1 DEF Place
<1>7. CASE Restored
  <2>1. ~Pushed /\ ~Pushed' /\ UNCHANGED <<saved_position, state_stack, robot>>
    BY <1>7 DEF Restored, Pushed, Restoring, robotVars
  <2> QED BY <1>1, <1>2, <2>1 DEF Place
<1> QED BY <1>3, <1>4, <1>5, <1>6, <1>7 DEF Later, FlushQueue

LEMMA CancelledLater == ASSUME Base, Cancelled, Later, ~halted, pc # "flush" PROVE Cancelled'
<1> USE DEF Base
<1>1. AllIdle' /\ Free(inbox', {"M24"})
  BY LaterKeeps DEF Cancelled, AllIdle, Idling, Ending, threadVars
<1>2. CASE SuspendWait \/ WaitHeaters
  BY <1>1, <1>2 DEF SuspendWait, WaitHeaters, Cancelled, Pushed, fileVars, robotVars
<1>3. CASE SuspendSave
  BY <1>1, <1>3 DEF SuspendSave, Cancelled, Pushed, fileVars
<1>4. CASE Unsuspend
  BY <1>1, <1>4 DEF Unsuspend, Cancelled, QueueInv, Suspending, Pushed, fileVars
<1>5. CASE Restore
  <2>1. robot'.at = saved_position /\ pc = "restore" /\ pc' = "restored"
    BY <1>5 DEF Restore, pop_state
  <2>2. saved_position = Away /\ ~was_playing_file /\ ~suspended
    BY <2>1 DEF Cancelled, Pushed, Restoring
  <2>3. UNCHANGED <<playing_file, was_playing_file, suspended>>
    BY <1>5 DEF Restore, fileVars, suspendVars
  <2> QED BY <1>1, <2>1, <2>2, <2>3 DEF Cancelled, Pushed
<1>6. CASE Restored
  <2>1. ~playing_file' /\ ~suspended' /\ pc' = "context" /\ UNCHANGED robot
    BY <1>6 DEF Restored, Cancelled, Restoring, robotVars
  <2> QED BY <1>1, <2>1 DEF Cancelled, Pushed
<1> QED BY <1>2, <1>3, <1>4, <1>5, <1>6 DEF Later, FlushQueue

LEMMA PlaceLater == ASSUME Base, PlaceInv, Later PROVE PlaceInv'
<1> USE DEF Base
<1>1. UNCHANGED halted
  BY DEF Later, FlushQueue, SuspendWait, SuspendSave, WaitHeaters, Unsuspend, Restore, Restored, hostVars
<1> SUFFICES ASSUME ~halted PROVE PlaceInv'
  BY <1>1 DEF PlaceInv
<1>2. CASE pc = "flush"
  <2>1. UNCHANGED <<inbox, threadVars, abort_thread>>
    BY <1>2 DEF Later, FlushQueue, SuspendWait, SuspendSave, WaitHeaters, Unsuspend, Restore, Restored, abortVars
  <2> QED BY <1>2, <2>1 DEF AbortInv, FlushIsQuiet, PlaceInv, Dead, AllQuiet, Quiet, Ending, threadVars
<1>3. CASE pc # "flush"
  <2>1. \A v, n \in Nat : InOrder(v, n) => InOrder(v, n)'
    BY <1>3, LaterKeeps, OrderSame DEF threadVars
  <2>2. Fresh => Fresh'
    BY <2>1 DEF Fresh
  <2>3. Going => Going'
    BY <1>3, <2>1, LaterKeeps DEF Going, Linked
  <2>4. Dead => Dead'
    BY <1>3, LaterKeeps DEF Dead, AllQuiet, Quiet, Ending, threadVars
  <2>5. Cancelled => Cancelled'
    BY <1>3, CancelledLater
  <2> QED BY <2>2, <2>3, <2>4, <2>5 DEF PlaceInv
<1> QED BY <1>2, <1>3

LEMMA PlaceThread ==
    ASSUME Base, PlaceInv, NEW t \in Threads, PlayThread(t)
    PROVE  PlaceInv'
<1> USE DEF Base
<1>1. UNCHANGED <<halted, robotVars, saved_position, was_playing_file>>
  BY DEF PlayThread, Fetch, Look, WakeUp, wait_for_room, send_message_queue, Finish, Close, hostVars, suspendVars
<1> SUFFICES ASSUME ~halted PROVE PlaceInv'
  BY <1>1 DEF PlaceInv
<1>2. UNCHANGED <<pc, prints, suspended, suspend_loops>> /\ (UNCHANGED inbox \/ send_message_queue(t))
  BY OneThread
<1>3. (Pushed' <=> Pushed) /\ Place' = Place
  BY <1>1, <1>2 DEF Pushed, Place, robotVars
<1>4. \A v, n \in Nat : InOrder(v, n) => \E m \in Nat : InOrder(v, m)'
  BY OrderThread DEF AbortInv, QueueInv
<1>5. Fresh => Fresh'
  BY <1>4 DEF Fresh
<1>6. Free(inbox, Moves) => Free(inbox', Moves)
  <2>1. CASE send_message_queue(t)
    <3>1. Line(buf[t]) \in Messages /\ Line(buf[t]).cmd \notin Moves /\ inbox' = Append(inbox, Line(buf[t]))
      BY <2>1 DEF Messages, Line, Moves, TypeInv, ThreadTypes, send_message_queue
    <3> QED BY <3>1, PutInto
  <2> QED BY <1>2, <2>1
<1>7. Going => Going'
  <2> SUFFICES ASSUME Going PROVE Going'
    OBVIOUS
  <2>1. PICK v \in Nat, n \in Nat : InOrder(v, n) /\ (v > 0 => Place = [at |-> <<prints, v>>, mode |-> "print"])
    BY DEF Going, Linked
  <2>2. PICK m \in Nat : InOrder(v, m)'
    BY <1>4, <2>1
  <2> QED BY <1>2, <1>3, <1>6, <2>1, <2>2, GoingOn DEF Going
<1>8. Dead => Dead'
  BY QuietThread DEF Dead
<1>9. Cancelled => Cancelled'
  <2> SUFFICES ASSUME Cancelled PROVE Cancelled'
    OBVIOUS
  <2>1. AllIdle' /\ UNCHANGED inbox
    BY IdleThread DEF Cancelled
  <2>2. ~playing_file'
    BY DEF PlayThread, Fetch, Look, WakeUp, wait_for_room, send_message_queue, Finish, Close, fileVars, Cancelled
  <2> QED BY <1>1, <1>2, <1>3, <2>1, <2>2 DEF Cancelled, robotVars
<1> QED BY <1>5, <1>7, <1>8, <1>9 DEF PlaceInv

(* A print that a homing has cancelled is started again only if the line   *)
(* that its thread holds is the first.                                     *)
LEMMA CancelledStarts ==
    ASSUME Base, Cancelled, current_file_handler[2] <= 2
    PROVE  Dead \/ InOrder(0, 1)
<1> USE DEF Base
<1>1. ASSUME NEW t \in Threads, Holding(t) PROVE buf[t][2] = 1
  <2>1. /\ current_file_handler[2] = buf[t][2] + 1 /\ buf[t][1] = prints
        /\ current_file_handler # NoLine /\ current_file_handler[1] = prints
    BY <1>1 DEF QueueInv, HoldsNext, Holding, AbortInv, LastPrint, ReaderInv, FileOpen
  <2>2. PICK p \in 1 .. MaxPrints, n \in 1 .. FileLines + 1 : current_file_handler = <<p, n>>
    BY <2>1 DEF TypeInv, FileTypes
  <2>3. prints = p /\ p # 0
    BY <2>1, <2>2
  <2>4. buf[t] \in Lines
    BY <2>1, <2>3 DEF TypeInv, ThreadTypes, NoLine
  <2>5. buf[t][2] \in 1 .. FileLines
    BY <2>4 DEF Lines
  <2> QED BY <2>1, <2>5, PlayerAssumption
<1>2. Free(inbox, {"line"}) /\ \A t \in Threads : at[t] # "fetch"
  BY DEF Cancelled, AllIdle, Idling, Ending
<1>3. \A i \in DOMAIN inbox : inbox[i].cmd # "line"
  BY <1>2 DEF Free
<1>4. 0 < 1 /\ \A k \in 0 + 1 .. 1 - 1 : Queued(k)
  OBVIOUS
<1> QED BY <1>1, <1>2, <1>3, <1>4 DEF InOrder

LEMMA PlaceSend ==
    ASSUME Base, PlaceInv, HostWaits, NEW cmd \in Commands, Send(cmd)
    PROVE  PlaceInv'
<1> USE DEF Base
<1>1. /\ Message(cmd) \in Messages /\ Message(cmd).cmd = cmd /\ inbox' = Append(inbox, Message(cmd))
      /\ Awaited(cmd) /\ cmd # "line"
      /\ UNCHANGED <<pc, fileVars, abortVars, suspendVars, threadVars, robotVars, halted>>
  BY PlayerAssumption DEF Message, Messages, Send
<1> SUFFICES ASSUME ~halted PROVE PlaceInv'
  BY <1>1 DEF PlaceInv
<1>2. (Pushed' <=> Pushed) /\ Place' = Place
  BY <1>1 DEF Pushed, Place, robotVars, suspendVars
<1>3. \A v, n \in Nat : InOrder(v, n) => InOrder(v, n)'
  BY <1>1, OrderSent DEF threadVars, fileVars
<1>4. Fresh => Fresh'
  BY <1>3 DEF Fresh
<1>5. cmd \in Moves => Pushed
  BY <1>1 DEF Awaited, Moves, Suspended, Pushed
<1>6. Free(inbox, Moves) /\ cmd \notin Moves => Free(inbox', Moves)
  BY <1>1, PutInto
<1>7. Going => Going'
  BY <1>1, <1>2, <1>3, <1>5, <1>6 DEF Going, Linked, fileVars
<1>8. Free(inbox, {"line"}) => Free(inbox', {"line"})
  BY <1>1, PutInto
<1>9. Dead => Dead'
  BY <1>1, <1>8 DEF Dead, AllQuiet, Quiet, Ending, threadVars, abortVars
<1>10. ASSUME Cancelled PROVE Cancelled' \/ Dead' \/ Fresh'
  <2>1. CASE cmd = "M24"
    <3>1. robot.at = Away /\ current_file_handler[2] <= 2
      BY <1>1, <1>10, <2>1 DEF Awaited, Cancelled
    <3>2. CASE Dead
      BY <1>9, <3>2
    <3>3. CASE InOrder(0, 1)
      BY <1>3, <3>3 DEF Fresh
    <3> QED BY <1>10, <3>1, <3>2, <3>3, CancelledStarts
  <2>2. CASE cmd # "M24"
    <3>1. Free(inbox, {"M24"}) => Free(inbox', {"M24"})
      BY <1>1, <2>2, PutInto
    <3> QED BY <1>1, <1>2, <1>8, <1>10, <3>1
            DEF Cancelled, AllIdle, Idling, Ending, threadVars, fileVars, suspendVars, robotVars
  <2> QED BY <2>1, <2>2
<1> QED BY <1>4, <1>7, <1>9, <1>10 DEF PlaceInv

LEMMA PlaceSame ==
    ASSUME Base, PlaceInv,
           UNCHANGED <<pc, inbox, fileVars, abortVars, suspendVars, threadVars, robot, state_stack, halted>>
    PROVE  PlaceInv'
<1>1. (Pushed' <=> Pushed) /\ Place' = Place
  BY DEF Pushed, Place, suspendVars
<1>2. \A v, n \in Nat : InOrder(v, n) => InOrder(v, n)'
  BY OrderSame DEF threadVars, fileVars
<1>3. Fresh => Fresh'
  BY <1>2 DEF Fresh
<1>4. Going => Going'
  BY <1>1, <1>2 DEF Going, Linked, fileVars
<1>5. Dead => Dead'
  BY DEF Dead, AllQuiet, Quiet, Ending, threadVars, abortVars
<1>6. Cancelled => Cancelled'
  BY <1>1 DEF Cancelled, AllIdle, Idling, Ending, threadVars, fileVars, suspendVars
<1> QED BY <1>3, <1>4, <1>5, <1>6 DEF PlaceInv

LEMMA PlaceStep == ASSUME Base, PlaceInv, HostWaits, [Next]_vars PROVE PlaceInv'
<1>1. CASE RunBlock
  BY <1>1, PlaceSame DEF RunBlock, hostVars
<1>2. CASE on_halt
  BY <1>2 DEF on_halt, PlaceInv
<1>3. CASE Unlock
  <2>1. HaltSettled /\ UNCHANGED <<inbox, abortVars, threadVars>>
    BY <1>3 DEF Unlock
  <2>2. Dead'
    BY <2>1 DEF HaltSettled, Pending, Dead, Free, AllQuiet, Quiet, Ending, threadVars
  <2> QED BY <2>2 DEF PlaceInv
<1>4. CASE UNCHANGED vars
  BY <1>4, PlaceSame DEF vars, robotVars, hostVars
<1> QED BY <1>1, <1>2, <1>3, <1>4, PlaceReceive, PlaceContext, PlaceLater, PlaceThread, PlaceSend
        DEF Next, Command, Later

LEMMA BaseInit == Init => Base /\ PlaceInv
<1> SUFFICES ASSUME Init PROVE Base /\ PlaceInv
  OBVIOUS
<1>1. ReaderInv
  BY DEF Init, ReaderInv, BeforeBoot, NoThread, PlayAwaited, M26Awaited, FileOpen, OneReader, Free, NotAfter
<1>2. AbortInv
  BY DEF Init, AbortInv, LastPrint, AbortSeen, FlushIsQuiet, Flushed, FreshLines, AllQuiet, Quiet, Ending
<1>3. SuspendInv /\ AfterAwaited /\ Restoring
  BY DEF Init, SuspendInv, M24Awaited, AfterAwaited, Restoring, Free, NotAfter
<1>4. QueueInv
  BY DEF Init, QueueInv, HoldsNext, Holding, LinesBehind, Suspending, PushedStack, Pushed, Free, NotAfter
<1>5. PlaceInv
  BY DEF Init, PlaceInv, Dead, Free, AllQuiet, Quiet, Ending
<1> QED BY <1>1, <1>2, <1>3, <1>4, <1>5, InitTypes DEF Base

LEMMA BaseStep == ASSUME Base, HostWaits, abort_flg \/ suspended => NoLineWaits, [Next]_vars PROVE Base'
BY NextTypes, ReaderStep, AbortStep, SuspendStep, AfterStep, RestoringStep, HoldsStep, BehindStep, SuspendingStep,
   PushedStep DEF Base, QueueInv

(* When the host waits, and no line waits for room in an abort or a        *)
(* suspend, a line of a print is executed where the line before it ended   *)
(* and with the modes of the print (Player.cpp, play_thread,               *)
(* suspend_part2, resume_command).                                         *)
THEOREM PrintIsContinued ==
    HostWaits => (Spec /\ [](abort_flg \/ suspended => NoLineWaits) => PrintContinues)
<1> SUFFICES ASSUME HostWaits
             PROVE  Spec /\ [](abort_flg \/ suspended => NoLineWaits) => PrintContinues
  OBVIOUS
<1>1. Init => Base /\ PlaceInv
  BY BaseInit
<1>2. Base /\ PlaceInv /\ (abort_flg \/ suspended => NoLineWaits) /\ [Next]_vars => Base' /\ PlaceInv'
  BY BaseStep, PlaceStep
<1>3. Base /\ PlaceInv /\ [Next]_vars =>
          [\A l \in Lines : Executes(l) /\ l[2] > 1 =>
               robot = [at |-> <<l[1], l[2] - 1>>, mode |-> "print"]]_vars
  <2> SUFFICES ASSUME Base, PlaceInv, [Next]_vars, NEW l \in Lines, Executes(l), l[2] > 1
               PROVE  robot = [at |-> <<l[1], l[2] - 1>>, mode |-> "print"]
    OBVIOUS
  <2>1. /\ inbox # <<>> /\ inbox' = Tail(inbox) /\ Head(inbox) = Line(l) /\ ~halted /\ pc = "receive"
        /\ 1 \in DOMAIN inbox /\ inbox[1] = Line(l)
    <3>1. inbox # <<>> /\ inbox' = Tail(inbox) /\ Head(inbox) = Line(l) /\ ~halted /\ pc = "receive"
      BY DEF Executes
    <3> QED BY <3>1, TakenFrom DEF Base
  <2>2. ~Free(inbox, {"line"})
    BY <2>1 DEF Free, Line
  <2>3. ~Pushed
    BY <2>1, <2>2 DEF Pushed, Base, SuspendInv, AllIdle
  <2>4. PICK v \in Nat, n \in Nat :
            InOrder(v, n) /\ (v > 0 => robot = [at |-> <<prints, v>>, mode |-> "print"])
    <3>1. Fresh \/ Linked
      BY <2>1, <2>2 DEF PlaceInv, Going, Dead, Cancelled, AllIdle
    <3> QED BY <2>3, <3>1 DEF Fresh, Linked, Place
  <2>5. l[1] = prints /\ l[2] = v + 1
    BY <2>1, <2>4, LineIsNext DEF Base, Line
  <2>6. v > 0 /\ l[2] - 1 = v
    BY <2>5
  <2> QED BY <2>4, <2>5, <2>6
<1> QED BY <1>1, <1>2, <1>3, PTL DEF Spec, PrintContinues
====
