------------------------- MODULE ContinuousJogProofs -------------------------
(* Proofs about ContinuousJog, for a block of any length.                   *)
EXTENDS ContinuousJog, TLAPS

-----------------------------------------------------------------------------
(* Types: flags and values apart, for no prover takes both.                *)

Flags ==
    /\ stop_request \in BOOLEAN /\ continuous \in BOOLEAN /\ transform \in BOOLEAN
    /\ halted \in BOOLEAN /\ flush \in BOOLEAN
    /\ queued \in BOOLEAN /\ running \in BOOLEAN /\ continuing \in BOOLEAN /\ moving \in BOOLEAN

Values ==
    /\ pc \in {"idle", "sent", "check", "wait", "set", "move", "append", "jog", "unset"}
    /\ current_tick \in 0 .. total_move_ticks + 1
    /\ change \in {"up", "flat", "down"}
    /\ step_count \in 0 .. steps_to_move - 1
    /\ asked \in {"no", "requested", "stopped"}

LEMMA InitType == Init => Flags /\ Values
  <1>1. Init => Flags
    BY DEF Init, Flags
  <1>2. Init => Values
    BY TicksAssumption DEF Init, Values
  <1> QED BY <1>1, <1>2

LEMMA NextFlags == Flags /\ [Next]_vars => Flags'
  <1> SUFFICES ASSUME Flags, [Next]_vars
               PROVE  Flags'
    OBVIOUS
  <1> USE DEF Flags, jogVars, tickVars
  <1>1. CASE SendJog
    BY <1>1 DEF SendJog
  <1>2. CASE StopJog
    BY <1>2 DEF StopJog
  <1>3. CASE Halt
    BY <1>3 DEF Halt
  <1>4. CASE Unlock
    BY <1>4 DEF Unlock
  <1>5. CASE jog_cmd
    BY <1>5 DEF jog_cmd
  <1>6. CASE CheckStopRequest
    BY <1>6 DEF CheckStopRequest
  <1>7. CASE WaitIdle
    BY <1>7 DEF WaitIdle, Idle
  <1>8. CASE SetContinuous
    BY <1>8 DEF SetContinuous
  <1>9. CASE delta_move
    BY <1>9 DEF delta_move
  <1>10. CASE append_block
    BY <1>10 DEF append_block
  <1>11. CASE WaitJog
    BY <1>11 DEF WaitJog, Idle
  <1>12. CASE UnsetContinuous
    BY <1>12 DEF UnsetContinuous
  <1>13. CASE HaltedTick
    BY <1>13 DEF HaltedTick
  <1>14. CASE IdleTick
    BY <1>14 DEF IdleTick
  <1>15. CASE \E step \in BOOLEAN : MotorTick(step)
    BY <1>15 DEF MotorTick
  <1>16. CASE UNCHANGED vars
    BY <1>16 DEF vars
  <1> QED BY <1>1, <1>2, <1>3, <1>4, <1>5, <1>6, <1>7, <1>8, <1>9, <1>10, <1>11,
             <1>12, <1>13, <1>14, <1>15, <1>16 DEF Next, Comms, Command, Tick

(* One tick of the motor: the last step of the block empties the queue.     *)
LEMMA MotorValues == ASSUME Values, NEW step \in BOOLEAN, MotorTick(step) PROVE Values'
  <1> DEFINE event == current_tick = NextAccelEvent
             plateau == event /\ current_tick = accelerate_until /\ current_tick # decelerate_after
             holds == plateau /\ continuous
             tick == IF holds THEN current_tick + 1 ELSE current_tick
             held == continuing \/ holds
             count == IF step /\ ~held THEN step_count + 1 ELSE step_count
  <1>1. change' \in {"up", "flat", "down"}
    BY DEF MotorTick, Values
  <1>2. tick \in 0 .. total_move_ticks + 1
    BY TicksAssumption DEF Values
  <1>3. count \in 0 .. steps_to_move
    BY TicksAssumption DEF Values
  <1>4. /\ \/ LastStep(count) /\ current_tick' = 0 /\ step_count' = 0
           \/ ~LastStep(count) /\ current_tick' = Advance(tick, continuing') /\ step_count' = count
        /\ UNCHANGED <<pc, asked>>
    BY DEF MotorTick, jogVars
  <1> HIDE DEF count, tick
  <1>5. current_tick' \in 0 .. total_move_ticks + 1
    BY <1>2, <1>4, TicksAssumption DEF Advance
  <1>6. step_count' \in 0 .. steps_to_move - 1
    BY <1>3, <1>4, TicksAssumption DEF LastStep
  <1> QED BY <1>1, <1>4, <1>5, <1>6 DEF Values

LEMMA NextValues == Values /\ [Next]_vars => Values'
  <1> SUFFICES ASSUME Values, [Next]_vars
               PROVE  Values'
    OBVIOUS
  <1> USE TicksAssumption DEF Values, jogVars, tickVars
  <1>1. CASE SendJog
    BY <1>1 DEF SendJog
  <1>2. CASE StopJog
    BY <1>2 DEF StopJog
  <1>3. CASE Halt
    BY <1>3 DEF Halt
  <1>4. CASE Unlock
    BY <1>4 DEF Unlock
  <1>5. CASE jog_cmd
    BY <1>5 DEF jog_cmd
  <1>6. CASE CheckStopRequest
    BY <1>6 DEF CheckStopRequest
  <1>7. CASE WaitIdle
    BY <1>7 DEF WaitIdle, Idle
  <1>8. CASE SetContinuous
    BY <1>8 DEF SetContinuous
  <1>9. CASE delta_move
    BY <1>9 DEF delta_move
  <1>10. CASE append_block
    BY <1>10 DEF append_block
  <1>11. CASE WaitJog
    BY <1>11 DEF WaitJog, Idle
  <1>12. CASE UnsetContinuous
    BY <1>12 DEF UnsetContinuous
  <1>13. CASE HaltedTick
    BY <1>13 DEF HaltedTick
  <1>14. CASE IdleTick
    BY <1>14 DEF IdleTick
  <1>15. CASE \E step \in BOOLEAN : MotorTick(step)
    BY <1>15, MotorValues
  <1>16. CASE UNCHANGED vars
    BY <1>16 DEF vars
  <1> QED BY <1>1, <1>2, <1>3, <1>4, <1>5, <1>6, <1>7, <1>8, <1>9, <1>10, <1>11,
             <1>12, <1>13, <1>14, <1>15, <1>16 DEF Next, Comms, Command, Tick

(* Type correctness, for a block of any length: the step ticker never       *)
(* counts more steps or ticks than the block has.                          *)
THEOREM TypeCorrect == Spec => []TypeOK
  <1>1. Flags /\ Values /\ [Next]_vars => Flags' /\ Values'
    BY NextFlags, NextValues
  <1>2. Flags /\ Values => TypeOK
    BY DEF Flags, Values, TypeOK
  <1> QED BY InitType, <1>1, <1>2, PTL DEF Spec

-----------------------------------------------------------------------------
(* What a jog leaves behind.                                               *)

(* Continuous mode, the block and the missing transform belong to jog_cmd   *)
(* from where it sets them to where it has seen them gone.                  *)
LeftInv ==
    /\ continuous => pc \in {"move", "append", "jog", "unset"}
    /\ queued => pc = "jog"
    /\ running => queued
    /\ continuing => running
    /\ transform \/ pc \in {"wait", "set", "move", "append", "jog", "unset"}

(* The last step is not made while the plateau is held.                     *)
LEMMA MotorLeft == ASSUME Values, LeftInv, NEW step \in BOOLEAN, MotorTick(step) PROVE LeftInv'
  <1> DEFINE holds == /\ current_tick = NextAccelEvent /\ current_tick = accelerate_until
                      /\ current_tick # decelerate_after /\ continuous
             held == continuing \/ holds
             count == IF step /\ ~held THEN step_count + 1 ELSE step_count
  <1>1. LastStep(count) => ~held
    BY TicksAssumption DEF Values, LastStep
  <1>2. /\ running
        /\ continuing' = (held /\ (step => continuous))
        /\ IF LastStep(count) THEN queued' = FALSE /\ running' = FALSE
           ELSE UNCHANGED <<queued, running>>
        /\ UNCHANGED <<pc, transform, continuous>>
    BY DEF MotorTick, jogVars
  <1> HIDE DEF held, count
  <1> QED BY <1>1, <1>2 DEF LeftInv

LEMMA NextLeft == Values /\ LeftInv /\ [Next]_vars => LeftInv'
  <1> SUFFICES ASSUME Values, LeftInv, [Next]_vars
               PROVE  LeftInv'
    OBVIOUS
  <1> USE DEF LeftInv, jogVars, tickVars
  <1>1. CASE SendJog
    BY <1>1 DEF SendJog
  <1>2. CASE StopJog
    BY <1>2 DEF StopJog
  <1>3. CASE Halt
    BY <1>3 DEF Halt
  <1>4. CASE Unlock
    BY <1>4 DEF Unlock
  <1>5. CASE jog_cmd
    <2>1. pc = "sent" /\ UNCHANGED <<transform, continuous, queued, running, continuing>>
      BY <1>5 DEF jog_cmd
    <2>2. ~continuous' /\ ~queued' /\ ~running' /\ ~continuing' /\ transform'
      BY <2>1
    <2> QED BY <2>2
  <1>6. CASE CheckStopRequest
    <2>1. /\ pc = "check" /\ UNCHANGED <<continuous, queued, running, continuing>>
          /\ UNCHANGED transform \/ pc' = "wait"
      BY <1>6 DEF CheckStopRequest
    <2>2. ~continuous' /\ ~queued' /\ ~running' /\ ~continuing' /\ (transform' \/ pc' = "wait")
      BY <2>1
    <2> QED BY <2>2
  <1>7. CASE WaitIdle
    BY <1>7 DEF WaitIdle, Idle
  <1>8. CASE SetContinuous
    BY <1>8 DEF SetContinuous
  <1>9. CASE delta_move
    BY <1>9 DEF delta_move
  <1>10. CASE append_block
    BY <1>10 DEF append_block
  <1>11. CASE WaitJog
    BY <1>11 DEF WaitJog, Idle
  <1>12. CASE UnsetContinuous
    BY <1>12 DEF UnsetContinuous
  <1>13. CASE HaltedTick
    BY <1>13 DEF HaltedTick
  <1>14. CASE IdleTick
    BY <1>14 DEF IdleTick
  <1>15. CASE \E step \in BOOLEAN : MotorTick(step)
    BY <1>15, MotorLeft
  <1>16. CASE UNCHANGED vars
    BY <1>16 DEF vars
  <1> QED BY <1>1, <1>2, <1>3, <1>4, <1>5, <1>6, <1>7, <1>8, <1>9, <1>10, <1>11,
             <1>12, <1>13, <1>14, <1>15, <1>16 DEF Next, Comms, Command, Tick

(* However a jog ends, by a ^Y, a halt at any step, or refused, jog_cmd      *)
(* leaves no continuous mode, no block and no missing transform behind.    *)
THEOREM NothingLeft == Spec => []JogLeavesNothing
  <1>1. Init => LeftInv
    BY DEF Init, LeftInv
  <1>2. LeftInv => JogLeavesNothing
    BY DEF LeftInv, JogLeavesNothing
  <1> QED BY InitType, NextValues, NextLeft, <1>1, <1>2, PTL DEF Spec

-----------------------------------------------------------------------------
(* The held plateau.                                                       *)

(* The tick of a plateau that is held is the one after accelerate_until.    *)
HeldInv == continuing => change = "flat" /\ current_tick = accelerate_until + 1

LEMMA MotorHeld ==
    ASSUME decelerate_after # accelerate_until + 1, Values, LeftInv, HeldInv,
           NEW step \in BOOLEAN, MotorTick(step)
    PROVE  HeldInv'
  <1> DEFINE event == current_tick = NextAccelEvent
             plateau == event /\ current_tick = accelerate_until /\ current_tick # decelerate_after
             holds == plateau /\ continuous
             tick == IF holds THEN current_tick + 1 ELSE current_tick
             held == continuing \/ holds
             count == IF step /\ ~held THEN step_count + 1 ELSE step_count
  <1> SUFFICES ASSUME continuing'
               PROVE  change' = "flat" /\ current_tick' = accelerate_until + 1
    BY DEF HeldInv
  <1>1. held
    BY DEF MotorTick
  <1>2. ~LastStep(count)
    BY <1>1, TicksAssumption DEF Values, LastStep
  <1>3. current_tick' = tick
    BY <1>2 DEF MotorTick, Advance
  <1>4. change' = IF event /\ tick = decelerate_after THEN "down" ELSE IF plateau THEN "flat" ELSE change
    BY DEF MotorTick
  <1>5. CASE continuing
    <2>1. change = "flat" /\ current_tick = accelerate_until + 1
      BY <1>5 DEF HeldInv
    <2>2. ~event
      BY <2>1, TicksAssumption DEF NextAccelEvent
    <2> QED BY <1>3, <1>4, <2>1, <2>2
  <1>6. CASE holds
    <2>1. tick = accelerate_until + 1
      BY <1>6
    <2> QED BY <1>3, <1>4, <1>6, <2>1, TicksAssumption
  <1> QED BY <1>1, <1>5, <1>6

LEMMA NextHeld ==
    ASSUME decelerate_after # accelerate_until + 1
    PROVE  Values /\ LeftInv /\ HeldInv /\ [Next]_vars => HeldInv'
  <1> SUFFICES ASSUME Values, LeftInv, HeldInv, [Next]_vars
               PROVE  HeldInv'
    OBVIOUS
  <1> USE DEF LeftInv, HeldInv, jogVars, tickVars
  <1>1. CASE SendJog
    BY <1>1 DEF SendJog
  <1>2. CASE StopJog
    BY <1>2 DEF StopJog
  <1>3. CASE Halt
    BY <1>3 DEF Halt
  <1>4. CASE Unlock
    BY <1>4 DEF Unlock
  <1>5. CASE jog_cmd
    BY <1>5 DEF jog_cmd
  <1>6. CASE CheckStopRequest
    BY <1>6 DEF CheckStopRequest
  <1>7. CASE WaitIdle
    BY <1>7 DEF WaitIdle, Idle
  <1>8. CASE SetContinuous
    BY <1>8 DEF SetContinuous
  <1>9. CASE delta_move
    BY <1>9 DEF delta_move
  <1>10. CASE append_block
    BY <1>10 DEF append_block
  <1>11. CASE WaitJog
    BY <1>11 DEF WaitJog, Idle
  <1>12. CASE UnsetContinuous
    BY <1>12 DEF UnsetContinuous
  <1>13. CASE HaltedTick
    BY <1>13 DEF HaltedTick
  <1>14. CASE IdleTick
    BY <1>14 DEF IdleTick
  <1>15. CASE \E step \in BOOLEAN : MotorTick(step)
    BY <1>15, MotorHeld
  <1>16. CASE UNCHANGED vars
    BY <1>16 DEF vars
  <1> QED BY <1>1, <1>2, <1>3, <1>4, <1>5, <1>6, <1>7, <1>8, <1>9, <1>10, <1>11,
             <1>12, <1>13, <1>14, <1>15, <1>16 DEF Next, Comms, Command, Tick

(* Held at its plateau the motor keeps its speed, for every block whose      *)
(* plateau is not exactly one tick long: there the extra increment of       *)
(* step_tick lands on decelerate_after.                                    *)
THEOREM HeldAtSpeed ==
    ASSUME decelerate_after # accelerate_until + 1
    PROVE  Spec => []ContinuingHoldsSpeed
  <1>1. Init => LeftInv /\ HeldInv
    BY DEF Init, LeftInv, HeldInv
  <1>2. HeldInv => ContinuingHoldsSpeed
    BY DEF HeldInv, ContinuingHoldsSpeed
  <1> QED BY InitType, NextValues, NextLeft, NextHeld, <1>1, <1>2, PTL DEF Spec
=============================================================================
