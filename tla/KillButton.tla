------------------------------ MODULE KillButton ------------------------------
(***************************************************************************)
(* The kill button: a state machine that the timer task runs five times a  *)
(* second, which halts the machine and may lift halts, its own and those   *)
(* of others.                                                              *)
(*                                                                         *)
(* button_tick looks at Module::halted once, at its beginning; the timer   *)
(* task has the lowest priority, so others may halt or unlock before it    *)
(* acts.  toggle_enable and unkill_enable are read from the configuration  *)
(* at boot.  The messages to the consoles are left out, and a broadcast is *)
(* one step here; Motion takes it apart.                                   *)
(***************************************************************************)
EXTENDS Integers

CONSTANT UnkillTicks   \* readings of a pressed button that lift a halt: 5 * 2

ASSUME KillButtonAssumption == UnkillTicks \in Nat \ {0}

VARIABLES toggle_enable, unkill_enable,
          pressed,         \* the button; the pin is active low
          halted,          \* Module::halted
          state, unkill_timer,
          ticking, killed, \* button_tick runs, and what it saw of halted
          held             \* history: readings in a row, up to the last one, of a pressed button

configVars == <<toggle_enable, unkill_enable>>
buttonVars == <<state, unkill_timer, ticking, killed, held>>
killVars == <<configVars, pressed, halted, buttonVars>>

States == {"IDLE", "KILL_BUTTON_DOWN", "KILLED_BUTTON_DOWN", "KILLED_BUTTON_UP",
           "UNKILL_BUTTON_DOWN", "UNKILL_TIMING_BUTTON_DOWN", "UNKILL_FIRE",
           "UNKILLED_BUTTON_DOWN"}

Init ==
    /\ toggle_enable \in BOOLEAN
    /\ unkill_enable \in BOOLEAN
    /\ pressed = FALSE
    /\ halted = FALSE
    /\ state = "IDLE"
    /\ unkill_timer = 0
    /\ ticking = FALSE
    /\ killed = FALSE
    /\ held = 0

(* Somebody's hand.                                                        *)
Push ==
    /\ pressed' = ~pressed
    /\ UNCHANGED <<configVars, halted, buttonVars>>

(* Others halt the machine (^X, M112, a limit, an error).                  *)
Halt ==
    /\ ~halted
    /\ halted' = TRUE
    /\ UNCHANGED <<configVars, pressed, buttonVars>>

(* A host lifts the halt with $X or M999, whatever the button does.        *)
Unlock ==
    /\ halted
    /\ halted' = FALSE
    /\ UNCHANGED <<configVars, pressed, buttonVars>>

(* The timer calls button_tick.                                            *)
BeginTick ==
    /\ ~ticking
    /\ ticking' = TRUE
    /\ killed' = halted
    /\ UNCHANGED <<configVars, pressed, halted, state, unkill_timer, held>>

(* The state after a tick: one definition per state that has a choice.     *)
Idle ==
    IF pressed THEN "KILL_BUTTON_DOWN"
    ELSE IF unkill_enable /\ ~toggle_enable /\ killed THEN "KILLED_BUTTON_UP" ELSE "IDLE"

KilledDown ==
    IF ~pressed THEN "KILLED_BUTTON_UP"
    ELSE IF toggle_enable /\ ~killed THEN "KILL_BUTTON_DOWN" ELSE "KILLED_BUTTON_DOWN"

(* mutant: a halt that a host lifted is not noticed *)
KilledUp_Stays ==
    IF unkill_enable /\ toggle_enable THEN "UNKILL_FIRE"
    ELSE IF unkill_enable /\ pressed THEN "UNKILL_BUTTON_DOWN" ELSE "KILLED_BUTTON_UP"

KilledUp ==
    IF unkill_enable /\ toggle_enable THEN "UNKILL_FIRE"
    ELSE IF unkill_enable /\ pressed THEN "UNKILL_BUTTON_DOWN"
    ELSE IF killed THEN "KILLED_BUTTON_UP" ELSE "IDLE"

Timing ==
    IF ~killed THEN "IDLE"
    ELSE IF unkill_timer + 1 > UnkillTicks THEN "UNKILL_FIRE" ELSE "UNKILL_TIMING_BUTTON_DOWN"

After ==
    CASE state = "IDLE" -> Idle
      [] state = "KILL_BUTTON_DOWN" -> IF killed THEN "KILLED_BUTTON_DOWN" ELSE state
      [] state = "KILLED_BUTTON_DOWN" -> KilledDown
      [] state = "KILLED_BUTTON_UP" -> KilledUp
      [] state = "UNKILL_BUTTON_DOWN" -> "UNKILL_TIMING_BUTTON_DOWN"
      [] state = "UNKILL_TIMING_BUTTON_DOWN" -> Timing
      [] state = "UNKILL_FIRE" -> IF killed THEN state ELSE "UNKILLED_BUTTON_DOWN"
      [] state = "UNKILLED_BUTTON_DOWN" -> IF pressed THEN state ELSE "IDLE"

StillTiming == state = "UNKILL_TIMING_BUTTON_DOWN" /\ After = state

(* mutant: it goes on counting when the button is released *)
Timer_KeptOnRelease == IF StillTiming THEN unkill_timer + (IF pressed THEN 1 ELSE 0) ELSE 0

(* unkill_timer counts readings of a pressed button, and begins again when *)
(* it is released; it is of no interest in the other states.               *)
Timer == IF StillTiming /\ pressed THEN unkill_timer + 1 ELSE 0

button_tick ==
    /\ ticking
    /\ state' = After
    /\ unkill_timer' = Timer
    /\ halted' = IF After = "KILL_BUTTON_DOWN" /\ ~killed THEN TRUE
                 ELSE IF After = "UNKILL_FIRE" /\ killed THEN FALSE ELSE halted
    /\ ticking' = FALSE
    /\ killed' = FALSE
    /\ held' = IF ~pressed THEN 0 ELSE IF held < UnkillTicks THEN held + 1 ELSE held
    /\ UNCHANGED <<configVars, pressed>>

Tick == BeginTick \/ button_tick

Next == Push \/ Halt \/ Unlock \/ Tick

(* The timer runs.                                                         *)
Spec == Init /\ [][Next]_killVars /\ WF_killVars(Tick)

-----------------------------------------------------------------------------
(* Properties.                                                             *)

TypeOK ==
    /\ toggle_enable \in BOOLEAN /\ unkill_enable \in BOOLEAN
    /\ pressed \in BOOLEAN /\ halted \in BOOLEAN
    /\ ticking \in BOOLEAN /\ killed \in BOOLEAN
    /\ state \in States
    /\ unkill_timer \in 0 .. UnkillTicks /\ held \in 0 .. UnkillTicks

(* A halt is lifted by a button that is not a locking one only after a     *)
(* long press, however it was interrupted before.  UNKILL_FIRE is left out *)
(* here: a tick in it lifts whatever halt there is by then.                *)
UnkillNeedsLongPress ==
    [][ticking /\ halted /\ button_tick /\ ~halted' /\ state # "UNKILL_FIRE"
         => toggle_enable \/ held = UnkillTicks]_killVars

(* What the button is pressed, held or released for comes about, and       *)
(* nobody can unlock faster than it acts (KillButton.cpp:56-59, 84-89): it  *)
(* halts the machine, unless it is still the press that a host unlocked, or *)
(* the one that lifted the halt; a locking button that is still down halts  *)
(* again when a host unlocks it; a long press, or the release of a locking  *)
(* button, lifts a halt, whoever broadcast it.                             *)
ButtonObeyed ==
    /\ pressed /\ ~halted ~>
           halted \/ ~pressed \/ state \in {"KILLED_BUTTON_DOWN", "UNKILLED_BUTTON_DOWN"}
    /\ toggle_enable /\ pressed /\ ~halted /\ state = "KILLED_BUTTON_DOWN" ~> halted \/ ~pressed
    /\ halted /\ pressed /\ state = "UNKILL_BUTTON_DOWN" ~> ~halted \/ ~pressed
    /\ halted /\ ~pressed /\ toggle_enable /\ unkill_enable /\ state = "KILLED_BUTTON_DOWN"
           ~> ~halted \/ pressed

(* In toggle mode, with a locking button, button down kills                *)
(* (KillButton.cpp:58).                                                    *)
EstopHalts == toggle_enable /\ pressed /\ ~halted ~> halted \/ ~pressed

=============================================================================
