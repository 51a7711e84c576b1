-------------------------------- MODULE Heater --------------------------------
(***************************************************************************)
(* modules/tools/temperaturecontrol: one heater.  The timer task reads its *)
(* sensor and drives its pin, and looks for a runaway; the command thread  *)
(* sets its temperature, waits for it or tunes its PID; a halt turns it    *)
(* off.                                                                    *)
(*                                                                         *)
(* The timer task has the lowest priority, so commands and halts come      *)
(* between what it reads and what it does with it; the command thread      *)
(* is cut where it sleeps, and where a halt may come between its test and  *)
(* what depends on it.  A temperature is its difference to the target; how *)
(* it changes is free, and so is what the PID makes of it.  A broadcast is *)
(* one step here; Motion takes it apart.                                   *)
(***************************************************************************)
EXTENDS Integers

CONSTANTS Deltas,                 \* what a temperature differs from the target
          Bad,                    \* a reading that is infinite or beyond min_temp, max_temp
          runaway_error_range, runaway_range, hysteresis,
          runaway_heating_timeout, runaway_cooling_timeout,
          TimerValues,            \* how many values runaway_timer has: it is a bit-field
          MaxCommands             \* bound: commands about the temperature

ASSUME HeaterAssumption ==
    /\ Deltas \subseteq Int /\ 0 \in Deltas
    /\ Bad \notin Deltas
    /\ runaway_error_range \in Nat /\ runaway_range \in Nat /\ hysteresis \in Nat
    /\ TimerValues \in Nat /\ TimerValues > 1
    /\ runaway_heating_timeout \in 0 .. TimerValues - 1
    /\ runaway_cooling_timeout \in 0 .. TimerValues - 1
    /\ MaxCommands \in Nat

VARIABLES use_bangbang,
          target,                   \* target_temperature is above 2, not UNDEFINED
          o, heater,                \* the output, and what the pin was told: 0 or more
          last_reading,
          runaway_state, runaway_timer,
          at, reading, power,       \* the timer task, its reading, its output
          pc, wanted,               \* the command thread, the command it executes
          commands,
          halted,
          clean,                    \* history: the last turning off overtook nobody
          misses                    \* history: checks in a row that found a wrong temperature

pinVars == <<o, heater>>
runawayVars == <<runaway_state, runaway_timer, misses>>
tickVars == <<at, reading, power>>
commandVars == <<pc, wanted, commands>>
vars == <<use_bangbang, target, pinVars, last_reading, runawayVars, tickVars, commandVars, halted,
          clean>>

Init ==
    /\ use_bangbang \in BOOLEAN
    /\ target = FALSE
    /\ o = 0
    /\ heater = 0
    /\ last_reading = 0
    /\ runaway_state = "NOT_HEATING"
    /\ runaway_timer = 0
    /\ at = "idle"
    /\ reading = 0
    /\ power = 0
    /\ pc = "idle"
    /\ wanted = "none"
    /\ commands = 0
    /\ halted = FALSE
    /\ clean = TRUE
    /\ misses = 0

-----------------------------------------------------------------------------
(* Turning off, by whoever does it.                                        *)

(* The timer task has tested the target and has still to drive the pin.    *)
Driving == at \in {"pid", "drive"}

(* The command thread has been let in and has still to turn the heater on. *)
Setting == pc \in {"wait", "tune", "tune_drive"}

TurnOff == target' = FALSE /\ o' = 0 /\ heater' = 0

on_halt == TurnOff

broadcast_halt ==
    /\ halted' = TRUE
    /\ on_halt
    /\ clean' = (~Setting /\ ~Driving)

(* ^X, the kill button, a limit.                                           *)
Halt ==
    /\ ~halted
    /\ broadcast_halt
    /\ UNCHANGED <<use_bangbang, last_reading, runawayVars, tickVars, commandVars>>

Unlock ==
    /\ halted
    /\ halted' = FALSE
    /\ UNCHANGED <<use_bangbang, target, pinVars, last_reading, runawayVars, tickVars, commandVars,
                   clean>>

-----------------------------------------------------------------------------
(* The command thread.                                                     *)

(* mutant: moves and temperatures are taken in a halt *)
Dispatched_InHalt == pc = "idle" /\ commands < MaxCommands /\ commands' = commands + 1

(* Commands are refused in a halt.                                         *)
Dispatched == pc = "idle" /\ ~halted /\ commands < MaxCommands /\ commands' = commands + 1

(* M104 S0, M104 and M109: first the moves that are queued.                *)
handle_mcode(command) ==
    /\ Dispatched
    /\ pc' = "wait"
    /\ wanted' = command
    /\ UNCHANGED <<use_bangbang, target, pinVars, last_reading, runawayVars, tickVars, halted, clean>>

(* Another target, and any temperature may differ from it by anything.     *)
set_desired_temperature ==
    /\ target' = TRUE
    /\ last_reading' \in IF last_reading = Bad THEN {Bad} ELSE Deltas
    /\ reading' \in IF Driving THEN Deltas ELSE {reading}
    /\ runaway_state' = "NOT_HEATING"
    /\ misses' = 0

SetOff == TurnOff /\ clean' = ~Driving /\ UNCHANGED <<last_reading, reading, misses>>

(* The queue is empty.                                                     *)
Set ==
    /\ pc = "wait"
    /\ IF wanted = "M104 S0"
       THEN SetOff /\ pc' = "idle" /\ UNCHANGED <<halted, runaway_state>>
       ELSE \/ /\ set_desired_temperature
               /\ pc' = IF wanted = "M109" THEN "heating" ELSE "idle"
               /\ UNCHANGED <<pinVars, halted, clean>>
            \/ /\ wanted = "M109" /\ last_reading = Bad
               /\ halted' = TRUE
               /\ TurnOff
               /\ runaway_state' = "NOT_HEATING"
               /\ misses' = 0
               /\ clean' = ~Driving
               /\ pc' = "idle"
               /\ UNCHANGED <<last_reading, reading>>
    /\ wanted' = "none"
    /\ UNCHANGED <<use_bangbang, runaway_timer, at, power, commands>>

(* A reading that is bad may compare as any.                               *)
Readings(r) == IF r = Bad THEN Deltas ELSE {r}

(* The loop of M109: the temperature is reached, or somebody turned the    *)
(* heater off.                                                             *)
HeatEnds ==
    /\ pc = "heating"
    /\ halted \/ ~target \/ \E d \in Readings(last_reading) : d >= 0
    /\ pc' = "idle"
    /\ UNCHANGED <<use_bangbang, target, pinVars, last_reading, runawayVars, tickVars, wanted,
                   commands, halted, clean>>

(* The player suspends or resumes a print.                                 *)
set_temperature ==
    /\ Dispatched
    /\ \/ SetOff /\ runaway_state' = "NOT_HEATING"
       \/ set_desired_temperature /\ UNCHANGED <<pinVars, clean>>
    /\ UNCHANGED <<use_bangbang, runaway_timer, at, power, pc, wanted, halted>>

(* M303: the autotuner drives the pin itself.                              *)
run_auto_pid ==
    /\ Dispatched
    /\ pc' = "tune"
    /\ target' = FALSE
    /\ heater' = 0
    /\ clean' = ~Driving
    /\ UNCHANGED <<use_bangbang, o, last_reading, runawayVars, tickVars, wanted, halted>>

TuneEnds ==
    /\ pc' = "idle"
    /\ target' = FALSE
    /\ heater' = 0
    /\ clean' = ~Driving

(* Every 50 ms: in a halt, or when it has cycled often enough, it ends.    *)
Tune ==
    /\ pc = "tune"
    /\ \/ TuneEnds
       \/ ~halted /\ pc' = "tune_drive" /\ UNCHANGED <<target, heater, clean>>
    /\ UNCHANGED <<use_bangbang, o, last_reading, runawayVars, tickVars, wanted, commands, halted>>

TuneDrive ==
    /\ pc = "tune_drive"
    /\ heater' \in {0, 1, heater}
    /\ pc' = "tune"
    /\ UNCHANGED <<use_bangbang, target, o, last_reading, runawayVars, tickVars, wanted, commands,
                   halted, clean>>

-----------------------------------------------------------------------------
(* The timer task: thermistor_read_tick.                                   *)

(* Without a target there is nothing to differ from.                       *)
Unrelated(r) == IF r = Bad THEN Bad ELSE 0

EndTick == at' = "idle" /\ reading' = 0 /\ power' = 0

(* mutant: the reading is not tested *)
ReadTick_Untested ==
    /\ at = "idle"
    /\ \E r \in Deltas \cup {Bad} :
        IF target /\ r # Bad
        THEN at' = "pid" /\ reading' = r /\ UNCHANGED <<last_reading, power>>
        ELSE last_reading' = Unrelated(r) /\ UNCHANGED tickVars
    /\ UNCHANGED <<use_bangbang, target, pinVars, clean, runawayVars, commandVars, halted>>

(* What the sensor reads; a bad reading turns the heater off and is        *)
(* reported before the halt.                                               *)
ReadTick ==
    /\ at = "idle"
    /\ \E r \in Deltas \cup {Bad} :
        \/ /\ ~target
           /\ last_reading' = Unrelated(r)
           /\ UNCHANGED <<target, pinVars, tickVars, clean>>
        \/ /\ target /\ r = Bad
           /\ at' = "alarm"
           /\ reading' = r
           /\ TurnOff
           /\ clean' = TRUE
           /\ UNCHANGED <<last_reading, power>>
        \/ /\ target /\ r # Bad
           /\ at' = "pid"
           /\ reading' = r
           /\ UNCHANGED <<target, pinVars, last_reading, power, clean>>
    /\ UNCHANGED <<use_bangbang, runawayVars, commandVars, halted>>

Alarm ==
    /\ at = "alarm"
    /\ broadcast_halt
    /\ last_reading' = reading
    /\ EndTick
    /\ UNCHANGED <<use_bangbang, runawayVars, commandVars>>

(* Bang-bang may leave the pin as it is.                                   *)
Switches == (reading > hysteresis /\ o = 1) \/ (reading < -hysteresis /\ o = 0)

BangBang ==
    /\ use_bangbang
    /\ IF Switches
       THEN at' = "drive" /\ power' = 1 - o /\ UNCHANGED <<reading, last_reading>>
       ELSE EndTick /\ last_reading' = reading
    /\ UNCHANGED o

PID ==
    /\ ~use_bangbang
    /\ at' = "drive" /\ power' \in {0, 1} /\ o' = power'
    /\ UNCHANGED <<reading, last_reading>>

(* pid_process, up to the pin.                                             *)
pid_process ==
    /\ at = "pid"
    /\ BangBang \/ PID
    /\ UNCHANGED <<use_bangbang, target, heater, runawayVars, commandVars, halted, clean>>

Drive ==
    /\ at = "drive"
    /\ heater' = power
    /\ o' = IF use_bangbang THEN power ELSE o
    /\ last_reading' = reading
    /\ EndTick
    /\ UNCHANGED <<use_bangbang, target, runawayVars, commandVars, halted, clean>>

-----------------------------------------------------------------------------
(* The timer task: check_runaway, every 8 seconds.                         *)

Abs(d) == IF d < 0 THEN -d ELSE d

Stray(d) == Abs(d) > runaway_error_range

Enter(state) == runaway_state' = state /\ runaway_timer' = 0 /\ UNCHANGED at

Reached(d) ==
    \/ runaway_state = "HEATING_UP" /\ d >= -runaway_error_range
    \/ runaway_state = "COOLING_DOWN" /\ d <= runaway_error_range

Timeout ==
    IF runaway_state = "HEATING_UP" THEN runaway_heating_timeout ELSE runaway_cooling_timeout

(* The heater is reported.                                                 *)
Runaway == at' = "runaway" /\ UNCHANGED <<runaway_state, runaway_timer>>

Start(d) ==
    /\ runaway_state = "NOT_HEATING"
    /\ Enter(IF d <= 0 \/ runaway_cooling_timeout = 0 THEN "HEATING_UP" ELSE "COOLING_DOWN")

Approach(d) ==
    /\ runaway_state \in {"HEATING_UP", "COOLING_DOWN"}
    /\ LET next == (runaway_timer + 1) % TimerValues
       IN  IF Reached(d) THEN Enter("TARGET_TEMPERATURE_REACHED")
           ELSE IF Timeout = 0 THEN UNCHANGED <<runaway_state, runaway_timer, at>>
           ELSE IF next > Timeout THEN Runaway
           ELSE runaway_timer' = next /\ UNCHANGED <<runaway_state, at>>

(* mutant: a spike is remembered *)
Hold_Remembers(d) ==
    /\ runaway_state = "TARGET_TEMPERATURE_REACHED"
    /\ IF runaway_range = 0 \/ Abs(d) <= runaway_range
       THEN UNCHANGED <<runaway_state, runaway_timer, at>>
       ELSE IF runaway_timer >= 1 THEN Runaway
       ELSE runaway_timer' = 1 /\ UNCHANGED <<runaway_state, at>>

Hold(d) ==
    /\ runaway_state = "TARGET_TEMPERATURE_REACHED"
    /\ IF runaway_range = 0 THEN UNCHANGED <<runaway_state, runaway_timer, at>>
       ELSE IF Abs(d) <= runaway_range THEN runaway_timer' = 0 /\ UNCHANGED <<runaway_state, at>>
       ELSE IF runaway_timer >= 1 THEN Runaway
       ELSE runaway_timer' = 1 /\ UNCHANGED <<runaway_state, at>>

check_runaway ==
    /\ at = "idle" /\ ~halted
    /\ runaway_heating_timeout # 0 \/ runaway_range # 0
    /\ \/ /\ ~target
          /\ runaway_state' = "NOT_HEATING"
          /\ misses' = 0
          /\ UNCHANGED <<at, runaway_timer>>
       \/ /\ target
          /\ \E d \in Readings(last_reading) :
              /\ Start(d) \/ Approach(d) \/ Hold(d)
              /\ misses' = IF ~Stray(d) THEN 0 ELSE IF misses < 2 THEN misses + 1 ELSE misses
    /\ UNCHANGED <<use_bangbang, target, pinVars, last_reading, reading, power, commandVars, halted,
                   clean>>

(* Reported, it halts the machine.                                         *)
RunawayHalt ==
    /\ at = "runaway"
    /\ broadcast_halt
    /\ runaway_state' = "NOT_HEATING"
    /\ runaway_timer' = 0
    /\ misses' = 0
    /\ EndTick
    /\ UNCHANGED <<use_bangbang, last_reading, commandVars>>

-----------------------------------------------------------------------------
Commands == {"M104 S0", "M104", "M109"}

Command == Set \/ HeatEnds \/ Tune \/ TuneDrive

Tick == ReadTick \/ Alarm \/ pid_process \/ Drive

Next ==
    \/ \E command \in Commands : handle_mcode(command)
    \/ set_temperature \/ run_auto_pid
    \/ Command
    \/ Tick \/ check_runaway \/ RunawayHalt
    \/ Halt \/ Unlock

(* Both callbacks of the timer task are called again and again; a command  *)
(* goes on when its wait is over.                                          *)
Spec ==
    /\ Init /\ [][Next]_vars
    /\ WF_vars(Command)
    /\ WF_vars(Tick) /\ SF_vars(check_runaway) /\ WF_vars(RunawayHalt)

-----------------------------------------------------------------------------
(* Properties.                                                             *)

Places == {"idle", "wait", "heating", "tune", "tune_drive"}

TypeOK ==
    /\ use_bangbang \in BOOLEAN /\ target \in BOOLEAN
    /\ o \in {0, 1} /\ heater \in {0, 1}
    /\ last_reading \in Deltas \cup {Bad} /\ reading \in Deltas \cup {Bad}
    /\ runaway_state \in {"NOT_HEATING", "HEATING_UP", "COOLING_DOWN", "TARGET_TEMPERATURE_REACHED"}
    /\ runaway_timer \in 0 .. TimerValues - 1
    /\ at \in {"idle", "pid", "drive", "alarm", "runaway"}
    /\ power \in {0, 1}
    /\ pc \in Places /\ wanted \in Commands \cup {"none"}
    /\ commands \in 0 .. MaxCommands
    /\ halted \in BOOLEAN /\ clean \in BOOLEAN
    /\ misses \in 0 .. 2

(* A heater that is on is regulated, or tuned: turned off while the timer  *)
(* task was not driving it, it stays off until a new temperature is set,   *)
(* through halts, alarms and commands that were refused; and a halt that    *)
(* nobody was overtaken by leaves no heater on, nor a temperature it could  *)
(* come back to, for as long as it lasts.                                  *)
UnsetIsOff == ~target /\ clean /\ pc \notin {"tune", "tune_drive"} => heater = 0
HaltStaysCold == halted /\ clean => ~target /\ heater = 0
OffStaysOff == UnsetIsOff /\ HaltStaysCold

(* No single check calls a runaway: two in a row must have found a wrong   *)
(* temperature, of the target that is set ("this allows for some noise     *)
(* spikes without halting").                                               *)
SpikesAreAllowed == [][at # "runaway" /\ at' = "runaway" => misses' = 2]_vars

(* A heater that never gets to its target, or leaves it, or whose sensor   *)
(* fails, halts the machine or is turned off, whatever commands came.      *)
Astray == last_reading = Bad \/ Abs(last_reading) > runaway_range
RunawayHalts == []<>(~target \/ halted \/ ~Astray)

(* "turn off heater" (TemperatureControl.cpp:274): between two callbacks   *)
(* and two commands, no heater is on in a halt.                            *)
HaltTurnsOff == halted /\ pc = "idle" /\ at = "idle" => heater = 0

=============================================================================
