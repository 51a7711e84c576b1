------------------------------ MODULE TimerProofs ------------------------------
(* Proofs about what the timer task runs: Heater, for any temperatures,     *)
(* ranges, timeouts and widths, and KillButton, for any long press.         *)
EXTENDS Heater, TLAPS

-----------------------------------------------------------------------------
(* Types.                                                                  *)

(* Flags and values apart, for no prover takes both.                        *)
Flags ==
    /\ use_bangbang \in BOOLEAN /\ target \in BOOLEAN
    /\ halted \in BOOLEAN /\ clean \in BOOLEAN

Values ==
    /\ o \in {0, 1} /\ heater \in {0, 1}
    /\ last_reading \in Deltas \cup {Bad} /\ reading \in Deltas \cup {Bad}
    /\ runaway_state \in {"NOT_HEATING", "HEATING_UP", "COOLING_DOWN", "TARGET_TEMPERATURE_REACHED"}
    /\ runaway_timer \in 0 .. TimerValues - 1
    /\ at \in {"idle", "pid", "drive", "alarm", "runaway"}
    /\ power \in {0, 1}
    /\ pc \in Places /\ wanted \in Commands \cup {"none"}
    /\ commands \in 0 .. MaxCommands
    /\ misses \in 0 .. 2

LEMMA Parts == TypeOK <=> Flags /\ Values
  BY DEF TypeOK, Flags, Values

LEMMA InitType == Init => TypeOK
  <1>1. Init => Flags
    BY DEF Init, Flags
  <1>2. Init => Values
    BY HeaterAssumption DEF Init, Values, Places, Commands
  <1> QED BY <1>1, <1>2, Parts

LEMMA NextFlags == Flags /\ [Next]_vars => Flags'
  <1> SUFFICES ASSUME Flags, [Next]_vars
               PROVE  Flags'
    OBVIOUS
  <1> USE DEF Flags
  <1>1. CASE \E command \in Commands : handle_mcode(command)
    BY <1>1 DEF handle_mcode, Dispatched
  <1>2. CASE set_temperature
    BY <1>2 DEF set_temperature, SetOff, TurnOff, Driving, set_desired_temperature, Dispatched
  <1>3. CASE run_auto_pid
    BY <1>3 DEF run_auto_pid, Driving
  <1>4. CASE Set
    BY <1>4 DEF Set, SetOff, TurnOff, set_desired_temperature, Driving
  <1>5. CASE HeatEnds
    BY <1>5 DEF HeatEnds
  <1>6. CASE Tune
    BY <1>6 DEF Tune, TuneEnds, Driving
  <1>7. CASE TuneDrive
    BY <1>7 DEF TuneDrive
  <1>8. CASE ReadTick
    BY <1>8 DEF ReadTick, TurnOff
  <1>9. CASE Alarm
    BY <1>9 DEF Alarm, broadcast_halt, on_halt, TurnOff, Setting, Driving
  <1>10. CASE pid_process
    BY <1>10 DEF pid_process
  <1>11. CASE Drive
    BY <1>11 DEF Drive
  <1>12. CASE check_runaway
    BY <1>12 DEF check_runaway
  <1>13. CASE RunawayHalt
    BY <1>13 DEF RunawayHalt, broadcast_halt, on_halt, TurnOff, Setting, Driving
  <1>14. CASE Halt \/ Unlock
    BY <1>14 DEF Halt, Unlock, broadcast_halt, on_halt, TurnOff, Setting, Driving
  <1>15. CASE UNCHANGED vars
    BY <1>15 DEF vars
  <1> QED BY <1>1, <1>2, <1>3, <1>4, <1>5, <1>6, <1>7, <1>8, <1>9, <1>10, <1>11, <1>12, <1>13,
             <1>14, <1>15 DEF Next, Command, Tick

(* What one check may leave.                                               *)
LEMMA CheckValues == Values /\ check_runaway => Values'
  <1> SUFFICES ASSUME Values, check_runaway
               PROVE  Values'
    OBVIOUS
  <1>1. misses' \in 0 .. 2
    BY DEF Values, check_runaway
  <1>2. \/ runaway_state' = "NOT_HEATING" /\ UNCHANGED <<at, runaway_timer>>
        \/ \E d \in Readings(last_reading) : Start(d) \/ Approach(d) \/ Hold(d)
    BY DEF check_runaway
  <1>3. runaway_timer' \in 0 .. TimerValues - 1
    <2>1. (runaway_timer + 1) % TimerValues \in 0 .. TimerValues - 1
      BY HeaterAssumption DEF Values
    <2>2. 0 \in 0 .. TimerValues - 1 /\ 1 \in 0 .. TimerValues - 1
      BY HeaterAssumption
    <2> QED BY <1>2, <2>1, <2>2 DEF Values, Start, Approach, Hold, Enter, Runaway
  <1>4. /\ at' \in {"idle", "pid", "drive", "alarm", "runaway"}
        /\ runaway_state' \in {"NOT_HEATING", "HEATING_UP", "COOLING_DOWN",
                                "TARGET_TEMPERATURE_REACHED"}
    BY <1>2 DEF Values, Start, Approach, Hold, Enter, Runaway
  <1> QED BY <1>1, <1>3, <1>4 DEF Values, check_runaway, pinVars, commandVars

LEMMA NextValues == Values /\ [Next]_vars => Values'
  <1> SUFFICES ASSUME Values, [Next]_vars
               PROVE  Values'
    OBVIOUS
  <1> USE HeaterAssumption DEF Values, pinVars, runawayVars, tickVars, commandVars
  <1>1. CASE \E command \in Commands : handle_mcode(command)
    BY <1>1 DEF handle_mcode, Dispatched, Places
  <1>2. CASE set_temperature
    <2>1. /\ o' \in {0, 1} /\ heater' \in {0, 1}
          /\ last_reading' \in Deltas \cup {Bad} /\ reading' \in Deltas \cup {Bad}
          /\ misses' \in 0 .. 2
      BY <1>2 DEF set_temperature, SetOff, TurnOff, set_desired_temperature
    <2>2. runaway_state' = "NOT_HEATING" /\ commands' \in 0 .. MaxCommands
      BY <1>2 DEF set_temperature, Dispatched, set_desired_temperature
    <2>3. UNCHANGED <<runaway_timer, at, power, pc, wanted>>
      BY <1>2 DEF set_temperature
    <2> QED BY <2>1, <2>2, <2>3
  <1>3. CASE run_auto_pid
    BY <1>3 DEF run_auto_pid, Dispatched, Places
  <1>4. CASE Set
    <2>1. /\ o' \in {0, o} /\ heater' \in {0, heater} /\ misses' \in {0, misses}
          /\ last_reading' \in Deltas \cup {last_reading}
          /\ reading' \in Deltas \cup {reading}
      <3>1. CASE SetOff
        BY <3>1 DEF SetOff, TurnOff
      <3>2. CASE set_desired_temperature /\ UNCHANGED <<o, heater>>
        BY <3>2 DEF set_desired_temperature
      <3>3. CASE TurnOff /\ misses' = 0 /\ UNCHANGED <<last_reading, reading>>
        BY <3>3 DEF TurnOff
      <3> QED BY <1>4, <3>1, <3>2, <3>3 DEF Set
    <2>2. runaway_state' \in {runaway_state, "NOT_HEATING"} /\ pc' \in {"idle", "heating"}
      BY <1>4 DEF Set, set_desired_temperature
    <2>3. wanted' = "none" /\ UNCHANGED <<runaway_timer, at, power, commands>>
      BY <1>4 DEF Set
    <2> QED BY <2>1, <2>2, <2>3 DEF Places
  <1>5. CASE HeatEnds
    BY <1>5 DEF HeatEnds, Places
  <1>6. CASE Tune
    BY <1>6 DEF Tune, TuneEnds, Places
  <1>7. CASE TuneDrive
    BY <1>7 DEF TuneDrive, Places
  <1>8. CASE ReadTick
    BY <1>8 DEF ReadTick, TurnOff, Unrelated
  <1>9. CASE Alarm
    BY <1>9 DEF Alarm, broadcast_halt, on_halt, TurnOff, EndTick
  <1>10. CASE pid_process
    BY <1>10 DEF pid_process, BangBang, PID, EndTick
  <1>11. CASE Drive
    BY <1>11 DEF Drive, EndTick
  <1>12. CASE check_runaway
    BY <1>12, CheckValues
  <1>13. CASE RunawayHalt
    BY <1>13 DEF RunawayHalt, broadcast_halt, on_halt, TurnOff, EndTick
  <1>14. CASE Halt \/ Unlock
    BY <1>14 DEF Halt, Unlock, broadcast_halt, on_halt, TurnOff
  <1>15. CASE UNCHANGED vars
    BY <1>15 DEF vars
  <1> QED BY <1>1, <1>2, <1>3, <1>4, <1>5, <1>6, <1>7, <1>8, <1>9, <1>10, <1>11, <1>12, <1>13,
             <1>14, <1>15 DEF Next, Command, Tick

LEMMA NextType == TypeOK /\ [Next]_vars => TypeOK'
  <1> SUFFICES ASSUME TypeOK, [Next]_vars
               PROVE  TypeOK'
    OBVIOUS
  <1>1. Flags' /\ Values'
    BY Parts, NextFlags, NextValues
  <1> QED BY <1>1 DEF TypeOK, Flags, Values

(* Type correctness, for any temperatures, ranges and widths: the bit-field *)
(* of the runaway timer included.                                          *)
THEOREM TypeCorrect == Spec => []TypeOK
  BY InitType, NextType, PTL DEF Spec

-----------------------------------------------------------------------------
(* A heater that was turned off stays off.                                 *)

Tuning == pc \in {"tune", "tune_drive"}

(* What was turned off with nobody in between is not being driven.          *)
OffIsLeft == clean /\ ~target => ~Driving

(* In a halt nobody is on his way to turn a heater on, or the halt was      *)
(* not clean; and who is has yet to set the target.                        *)
HaltIsLeft == halted /\ Setting => ~target /\ ~clean

ColdInv == TypeOK /\ OffIsLeft /\ HaltIsLeft /\ UnsetIsOff /\ HaltStaysCold

LEMMA ColdInit == Init => ColdInv
  BY InitType DEF Init, ColdInv, OffIsLeft, HaltIsLeft, UnsetIsOff, HaltStaysCold, Driving, Setting

LEMMA ColdNext == ColdInv /\ [Next]_vars => ColdInv'
  <1> SUFFICES ASSUME ColdInv, [Next]_vars
               PROVE  (OffIsLeft /\ HaltIsLeft /\ UnsetIsOff /\ HaltStaysCold)'
    BY NextType DEF ColdInv
  <1> USE DEF ColdInv, TypeOK, OffIsLeft, HaltIsLeft, UnsetIsOff, HaltStaysCold, Driving, Setting,
              pinVars, runawayVars, tickVars, commandVars
  <1>1. CASE \E command \in Commands : handle_mcode(command)
    BY <1>1 DEF handle_mcode, Dispatched
  <1>2. CASE set_temperature
    BY <1>2 DEF set_temperature, Dispatched, SetOff, TurnOff, set_desired_temperature
  <1>3. CASE run_auto_pid
    BY <1>3 DEF run_auto_pid, Dispatched
  <1>4. CASE Set
    <2>1. CASE SetOff /\ pc' = "idle" /\ UNCHANGED halted
      BY <1>4, <2>1 DEF Set, SetOff, TurnOff
    <2>2. CASE set_desired_temperature /\ pc' \in {"heating", "idle"} /\ UNCHANGED <<halted, clean>>
      BY <1>4, <2>2 DEF Set, set_desired_temperature
    <2>3. CASE TurnOff /\ halted' = TRUE /\ pc' = "idle" /\ clean' = ~Driving
      BY <1>4, <2>3 DEF Set, TurnOff
    <2> QED BY <1>4, <2>1, <2>2, <2>3 DEF Set
  <1>5. CASE HeatEnds
    BY <1>5 DEF HeatEnds
  <1>6. CASE Tune
    BY <1>6 DEF Tune, TuneEnds
  <1>7. CASE TuneDrive
    BY <1>7 DEF TuneDrive
  <1>8. CASE ReadTick
    BY <1>8 DEF ReadTick, TurnOff
  <1>9. CASE Alarm
    BY <1>9 DEF Alarm, broadcast_halt, on_halt, TurnOff, EndTick
  <1>10. CASE pid_process
    BY <1>10 DEF pid_process, BangBang, PID, EndTick
  <1>11. CASE Drive
    BY <1>11 DEF Drive, EndTick
  <1>12. CASE check_runaway
    <2>1. at = "idle" /\ at' \in {"idle", "runaway"}
      BY <1>12 DEF check_runaway, Start, Approach, Hold, Enter, Runaway
    <2> QED BY <1>12, <2>1 DEF check_runaway
  <1>13. CASE RunawayHalt
    BY <1>13 DEF RunawayHalt, broadcast_halt, on_halt, TurnOff, EndTick
  <1>14. CASE Halt
    BY <1>14 DEF Halt, broadcast_halt, on_halt, TurnOff
  <1>15. CASE Unlock
    BY <1>15 DEF Unlock
  <1>16. CASE UNCHANGED vars
    BY <1>16 DEF vars
  <1> QED BY <1>1, <1>2, <1>3, <1>4, <1>5, <1>6, <1>7, <1>8, <1>9, <1>10, <1>11, <1>12, <1>13,
             <1>14, <1>15, <1>16 DEF Next, Command, Tick

LEMMA Cold == Spec => []ColdInv
  BY ColdInit, ColdNext, PTL DEF Spec

(* A heater nobody tunes or was driving when it was turned off is off for   *)
(* as long as it has no target; and a halt that overtook neither the timer  *)
(* task nor a command leaves it off as long as it lasts, since the timer    *)
(* task drives it only after it has seen a target, and commands are        *)
(* refused.                                                                *)
THEOREM OffIsOff == Spec => []OffStaysOff
  <1>1. ColdInv => OffStaysOff
    BY DEF ColdInv, OffStaysOff
  <1> QED BY Cold, <1>1, PTL

-----------------------------------------------------------------------------
(* The noise of a sensor halts nothing.                                    *)

(* The timer counts while the target is awaited, and once it is reached if   *)
(* a range is configured.                                                  *)
Counting ==
    \/ runaway_state \in {"HEATING_UP", "COOLING_DOWN"}
    \/ runaway_state = "TARGET_TEMPERATURE_REACHED" /\ runaway_range # 0

(* What the timer has counted, the last check has found.                    *)
CountedIsSeen == Counting /\ runaway_timer >= 1 => misses >= 1

SeenInv == TypeOK /\ CountedIsSeen

LEMMA Checked ==
    ASSUME SeenInv, check_runaway, runaway_range = 0 \/ runaway_error_range <= runaway_range
    PROVE  CountedIsSeen' /\ (at # "runaway" /\ at' = "runaway" => misses' = 2)
  <1> USE DEF SeenInv
  <1>1. CASE ~target
    BY <1>1 DEF check_runaway, CountedIsSeen, Counting
  <1>2. CASE target
    <2>1. PICK d \in Readings(last_reading) :
             /\ Start(d) \/ Approach(d) \/ Hold(d)
             /\ misses' = IF ~Stray(d) THEN 0 ELSE IF misses < 2 THEN misses + 1 ELSE misses
      BY <1>2 DEF check_runaway
    <2>2. d \in Int
      BY HeaterAssumption DEF TypeOK, Readings
    <2>3. Stray(d) => misses' >= 1 /\ (misses >= 1 => misses' = 2)
      BY <2>1 DEF TypeOK
    <2>4. CASE Start(d)
      BY <2>4 DEF Start, Enter, CountedIsSeen, check_runaway
    <2>5. CASE Approach(d)
      <3>1. CASE Reached(d)
        BY <2>5, <3>1 DEF Approach, Enter, CountedIsSeen, check_runaway
      <3>2. CASE ~Reached(d)
        <4>1. Stray(d)
          BY <2>2, <2>5, <3>2, HeaterAssumption DEF Approach, Reached, Stray, Abs
        <4>2. CASE Timeout # 0 /\ (runaway_timer + 1) % TimerValues > Timeout
          <5>1. Timeout \in Nat /\ runaway_timer \in Nat
            BY HeaterAssumption DEF Timeout, TypeOK
          <5>2. runaway_timer = 0 => (runaway_timer + 1) % TimerValues = 1
            BY HeaterAssumption
          <5>3. runaway_timer >= 1
            BY <4>2, <5>1, <5>2
          <5>4. misses >= 1
            BY <2>5, <5>3 DEF Approach, CountedIsSeen, Counting
          <5> QED BY <2>3, <4>1, <5>4 DEF CountedIsSeen
        <4>3. CASE ~(Timeout # 0 /\ (runaway_timer + 1) % TimerValues > Timeout)
          BY <2>3, <2>5, <3>2, <4>1, <4>3 DEF Approach, CountedIsSeen, check_runaway
        <4> QED BY <4>2, <4>3
      <3> QED BY <3>1, <3>2
    <2>6. CASE Hold(d)
      <3>1. CASE runaway_range = 0 \/ Abs(d) <= runaway_range
        BY <2>6, <3>1 DEF Hold, CountedIsSeen, Counting, check_runaway
      <3>2. CASE ~(runaway_range = 0 \/ Abs(d) <= runaway_range)
        <4>1. Stray(d)
          BY <2>2, <3>2, HeaterAssumption DEF Stray, Abs
        <4>2. CASE runaway_timer >= 1
          BY <2>3, <2>6, <3>2, <4>1, <4>2 DEF Hold, CountedIsSeen, Counting
        <4>3. CASE ~(runaway_timer >= 1)
          BY <2>3, <2>6, <3>2, <4>1, <4>3 DEF Hold, CountedIsSeen, check_runaway
        <4> QED BY <4>2, <4>3
      <3> QED BY <3>1, <3>2
    <2> QED BY <2>1, <2>4, <2>5, <2>6
  <1> QED BY <1>1, <1>2

(* No other step counts, forgets what was found without leaving the state,  *)
(* or calls a runaway.                                                     *)
LEMMA Elsewhere ==
    ASSUME SeenInv, [Next]_vars, ~check_runaway
    PROVE  CountedIsSeen' /\ (at # "runaway" => at' # "runaway")
  <1> USE DEF SeenInv, CountedIsSeen, Counting, runawayVars, tickVars, commandVars, pinVars
  <1>1. CASE \E command \in Commands : handle_mcode(command)
    BY <1>1 DEF handle_mcode
  <1>2. CASE set_temperature
    BY <1>2 DEF set_temperature, SetOff, set_desired_temperature
  <1>3. CASE run_auto_pid
    BY <1>3 DEF run_auto_pid
  <1>4. CASE Set
    BY <1>4 DEF Set, SetOff, set_desired_temperature
  <1>5. CASE HeatEnds \/ Tune \/ TuneDrive
    BY <1>5 DEF HeatEnds, Tune, TuneDrive
  <1>6. CASE ReadTick
    BY <1>6 DEF ReadTick
  <1>7. CASE Alarm \/ Drive
    BY <1>7 DEF Alarm, Drive, EndTick
  <1>8. CASE pid_process
    BY <1>8 DEF pid_process, BangBang, PID, EndTick
  <1>9. CASE RunawayHalt
    BY <1>9 DEF RunawayHalt, EndTick
  <1>10. CASE Halt \/ Unlock
    BY <1>10 DEF Halt, Unlock
  <1>11. CASE UNCHANGED vars
    BY <1>11 DEF vars
  <1> QED BY <1>1, <1>2, <1>3, <1>4, <1>5, <1>6, <1>7, <1>8, <1>9, <1>10, <1>11
          DEF Next, Command, Tick

(* With an error range within the runaway range, as configured by default,  *)
(* a runaway is never called on what a single check found, whatever the     *)
(* timeouts, the width of the timer, and the commands in between.          *)
THEOREM SpikesAllowed ==
    ASSUME runaway_range = 0 \/ runaway_error_range <= runaway_range
    PROVE  Spec => SpikesAreAllowed
  <1> DEFINE Allowed == at # "runaway" /\ at' = "runaway" => misses' = 2
  <1>1. Init => SeenInv
    BY InitType DEF Init, SeenInv, CountedIsSeen, Counting
  <1>2. SeenInv /\ [Next]_vars => SeenInv'
    BY Checked, Elsewhere, NextType DEF SeenInv
  <1>3. SeenInv /\ [Next]_vars => [Allowed]_vars
    BY Checked, Elsewhere
  <1> QED BY <1>1, <1>2, <1>3, PTL DEF Spec, SpikesAreAllowed

-----------------------------------------------------------------------------
(* The kill button, which the timer task runs like the heaters.  The two    *)
(* share Module::halted; UnkillTicks is as KillButton assumes it.           *)
CONSTANT UnkillTicks
VARIABLES toggle_enable, unkill_enable, pressed, state, unkill_timer, ticking, killed, held

Button == INSTANCE KillButton

(* What a button that is being timed has been counted for, it was held.     *)
TimerIsHeld == state = "UNKILL_TIMING_BUTTON_DOWN" => unkill_timer <= held

ButtonInv == Button!TypeOK /\ TimerIsHeld

LEMMA ButtonInit ==
    ASSUME UnkillTicks \in Nat \ {0}
    PROVE  Button!Init => ButtonInv
  <1>1. 0 \in 0 .. UnkillTicks
    OBVIOUS
  <1> QED BY <1>1 DEF Button!Init, ButtonInv, Button!TypeOK, TimerIsHeld, Button!States

(* The next state is a state, and the timer stays within the long press.    *)
LEMMA AfterType ==
    ASSUME UnkillTicks \in Nat \ {0}
    PROVE  ButtonInv => Button!After \in Button!States /\ Button!Timer \in 0 .. UnkillTicks
  <1> SUFFICES ASSUME ButtonInv
               PROVE  Button!After \in Button!States /\ Button!Timer \in 0 .. UnkillTicks
    OBVIOUS
  <1>1. Button!After \in Button!States
    BY DEF ButtonInv, Button!TypeOK, Button!States, Button!After, Button!Idle, Button!KilledDown,
           Button!KilledUp, Button!Timing
  <1>2. CASE Button!StillTiming /\ pressed
    <2>1. state = "UNKILL_TIMING_BUTTON_DOWN" /\ Button!Timing = "UNKILL_TIMING_BUTTON_DOWN"
      BY <1>2 DEF Button!StillTiming, Button!After
    <2>2. ~(unkill_timer + 1 > UnkillTicks)
      BY <2>1 DEF Button!Timing
    <2> QED BY <1>1, <1>2, <2>2 DEF ButtonInv, Button!TypeOK, Button!Timer
  <1>3. CASE ~(Button!StillTiming /\ pressed)
    BY <1>1, <1>3 DEF Button!Timer
  <1> QED BY <1>2, <1>3

LEMMA ButtonTick ==
    ASSUME UnkillTicks \in Nat \ {0}
    PROVE  ButtonInv /\ Button!button_tick => ButtonInv'
  <1> SUFFICES ASSUME ButtonInv, Button!button_tick
               PROVE  ButtonInv'
    OBVIOUS
  <1>1. Button!TypeOK'
    <2>1. held' \in 0 .. UnkillTicks
      BY DEF ButtonInv, Button!TypeOK, Button!button_tick
    <2>2. state' \in Button!States /\ unkill_timer' \in 0 .. UnkillTicks
      BY AfterType DEF Button!button_tick
    <2>3. halted' \in BOOLEAN /\ ticking' \in BOOLEAN /\ killed' \in BOOLEAN
      BY DEF ButtonInv, Button!TypeOK, Button!button_tick
    <2> QED BY <2>1, <2>2, <2>3 DEF ButtonInv, Button!TypeOK, Button!button_tick, Button!configVars
  <1>2. TimerIsHeld'
    <2> SUFFICES ASSUME Button!After = "UNKILL_TIMING_BUTTON_DOWN"
                 PROVE  unkill_timer' <= held'
      BY DEF TimerIsHeld, Button!button_tick
    <2>1. CASE Button!StillTiming /\ pressed
      <3>1. state = "UNKILL_TIMING_BUTTON_DOWN" /\ unkill_timer <= held
        BY <2>1 DEF Button!StillTiming, ButtonInv, TimerIsHeld
      <3>2. unkill_timer' = unkill_timer + 1 /\ unkill_timer' \in 0 .. UnkillTicks
        BY <2>1, AfterType DEF Button!button_tick, Button!Timer
      <3> QED BY <2>1, <3>1, <3>2 DEF ButtonInv, Button!TypeOK, Button!button_tick
    <2>2. CASE ~(Button!StillTiming /\ pressed)
      BY <2>2, <1>1 DEF Button!button_tick, Button!Timer, Button!TypeOK
    <2> QED BY <2>1, <2>2
  <1> QED BY <1>1, <1>2 DEF ButtonInv

LEMMA ButtonNext ==
    ASSUME UnkillTicks \in Nat \ {0}
    PROVE  ButtonInv /\ [Button!Next]_Button!killVars => ButtonInv'
  <1> SUFFICES ASSUME ButtonInv, [Button!Next]_Button!killVars
               PROVE  ButtonInv'
    OBVIOUS
  <1> USE DEF ButtonInv, Button!TypeOK, TimerIsHeld, Button!configVars, Button!buttonVars
  <1>1. CASE Button!Push
    BY <1>1 DEF Button!Push
  <1>2. CASE Button!Halt
    BY <1>2 DEF Button!Halt
  <1>3. CASE Button!Unlock
    BY <1>3 DEF Button!Unlock
  <1>4. CASE Button!BeginTick
    BY <1>4 DEF Button!BeginTick
  <1>5. CASE Button!button_tick
    BY <1>5, ButtonTick
  <1>6. CASE UNCHANGED Button!killVars
    BY <1>6 DEF Button!killVars
  <1> QED BY <1>1, <1>2, <1>3, <1>4, <1>5, <1>6 DEF Button!Next, Button!Tick

LEMMA ButtonInvariance ==
    ASSUME UnkillTicks \in Nat \ {0}
    PROVE  Button!Spec => []ButtonInv
  BY ButtonInit, ButtonNext, PTL DEF Button!Spec

(* Type correctness of the state machine, for any length of the long press. *)
THEOREM ButtonTypes ==
    ASSUME UnkillTicks \in Nat \ {0}
    PROVE  Button!Spec => []Button!TypeOK
  BY ButtonInvariance, PTL DEF ButtonInv

(* A button that does not lock lifts a halt only when it was held for the   *)
(* whole of the long press, whatever came between: it follows from what the *)
(* timer counts, and from the states that lead to UNKILL_FIRE.              *)
THEOREM LongPressNeeded ==
    ASSUME UnkillTicks \in Nat \ {0}
    PROVE  Button!Spec => Button!UnkillNeedsLongPress
  <1> DEFINE Held == ticking /\ halted /\ Button!button_tick /\ ~halted' /\ state # "UNKILL_FIRE"
                       => toggle_enable \/ held = UnkillTicks
  <1>1. ButtonInv /\ [Button!Next]_Button!killVars => [Held]_Button!killVars
    <2> SUFFICES ASSUME ButtonInv, Button!button_tick, halted, ~halted', state # "UNKILL_FIRE",
                        ~toggle_enable
                 PROVE  held = UnkillTicks
      OBVIOUS
    <2>1. Button!After = "UNKILL_FIRE"
      BY DEF Button!button_tick
    <2>2. state = "UNKILL_TIMING_BUTTON_DOWN" /\ Button!Timing = "UNKILL_FIRE"
      BY <2>1 DEF ButtonInv, Button!TypeOK, Button!States, Button!After, Button!Idle,
                  Button!KilledDown, Button!KilledUp
    <2>3. unkill_timer + 1 > UnkillTicks
      BY <2>2 DEF Button!Timing
    <2> QED BY <2>2, <2>3 DEF ButtonInv, Button!TypeOK, TimerIsHeld
  <1> QED BY <1>1, ButtonInvariance, PTL DEF Button!Spec, Button!UnkillNeedsLongPress
=============================================================================
