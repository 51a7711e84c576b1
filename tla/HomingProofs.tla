---------------------------- MODULE HomingProofs ----------------------------
(* Proofs about Homing, for any limits, orders, debounce and options.       *)
EXTENDS Homing, SequenceTheorems, TLAPS

-----------------------------------------------------------------------------
(* Types.                                                                  *)

LEMMA HomesType ==
    ASSUME TypeOK, NEW S \in SUBSET Axes
    PROVE  Homes(S) \in Seq(SUBSET Axes)
  <1>1. homing_order \in Seq(Axes)
    BY HomingAssumption DEF TypeOK
  <1>2. CASE homing_order = <<>>
    BY <1>2 DEF Homes
  <1>3. CASE homing_order # <<>>
    <2>1. /\ Len(homing_order) \in Nat
          /\ DOMAIN homing_order = 1 .. Len(homing_order)
          /\ \A i \in 1 .. Len(homing_order) : homing_order[i] \in Axes
      BY <1>1
    <2>2. Homes(S) = [i \in 1 .. Len(homing_order) |-> {homing_order[i]} \cap S]
      BY <1>3, <2>1 DEF Homes
    <2>3. Homes(S) \in [1 .. Len(homing_order) -> SUBSET Axes]
      BY <2>1, <2>2
    <2> QED BY <2>1, <2>3, SeqDef
  <1> QED BY <1>2, <1>3

(* home moves x and y together and z on its own.                            *)
LEMMA LegsType ==
    ASSUME NEW a \in SUBSET Axes
    PROVE  /\ <<a \cap {Z_AXIS}, a \cap XY>> \in Seq(SUBSET Axes)
           /\ <<a \cap XY, a \cap {Z_AXIS}>> \in Seq(SUBSET Axes)
  <1> DEFINE z == a \cap {Z_AXIS}
             xy == a \cap XY
  <1>1. z \in SUBSET Axes /\ xy \in SUBSET Axes
    OBVIOUS
  <1> HIDE DEF z, xy
  <1>2. <<z, xy>> \in Seq(SUBSET Axes) /\ <<xy, z>> \in Seq(SUBSET Axes)
    BY <1>1
  <1> QED BY <1>2 DEF z, xy

LEMMA MoveType ==
    ASSUME TypeOK, NEW S \in SUBSET Axes, NEW to \in SUBSET S, Move(S, to)
    PROVE  towards' \subseteq moving' /\ moving' \subseteq Axes /\ at_end' \subseteq Axes
  BY DEF Move, moveVars, TypeOK

LEMMA InitType == Init => TypeOK
  <1>1. 0 \in 0 .. Debounce
    BY HomingAssumption
  <1>2. <<>> \in Seq(SUBSET Axes)
    OBVIOUS
  <1> SUFFICES ASSUME Init
               PROVE  TypeOK
    OBVIOUS
  <1>3. debounce \in [Axes -> 0 .. Debounce]
    BY <1>1 DEF Init
  <1>4. homes \in Seq(SUBSET Axes) /\ legs \in Seq(SUBSET Axes)
    BY <1>2 DEF Init
  <1> QED BY <1>3, <1>4 DEF Init, TypeOK, Statuses, Places, Waits

LEMMA CommandType == TypeOK /\ Command => TypeOK'
  <1> SUFFICES ASSUME TypeOK, Command
               PROVE  TypeOK'
    OBVIOUS
  <1> USE DEF robotVars, homeVars, switchVars, moveVars, Statuses, Places, Waits
  <1>1. CASE Begin
    <2>1. homes' \in Seq(SUBSET Axes)
      BY <1>1, HomesType DEF Begin, TypeOK
    <2>2. known' \subseteq Axes /\ compensated' \in BOOLEAN /\ pc' \in {"idle", "next"}
      BY <1>1 DEF Begin, TypeOK
    <2> QED BY <1>1, <2>1, <2>2 DEF Begin, TypeOK
  <1>2. CASE NextHome
    <2>1. CASE homes = <<>>
      BY <1>2, <2>1 DEF NextHome, TypeOK
    <2>2. CASE homes # <<>>
      <3>1. Head(homes) \in SUBSET Axes /\ Tail(homes) \in Seq(SUBSET Axes)
        BY <2>2 DEF TypeOK
      <3>2. CASE Head(homes) = {}
        BY <1>2, <2>2, <3>1, <3>2 DEF NextHome, TypeOK
      <3>3. CASE Head(homes) # {}
        <4>1. home(Head(homes))
          BY <1>2, <2>2, <3>3 DEF NextHome
        <4>2. debounce' \in [Axes -> 0 .. Debounce]
          BY <4>1, HomingAssumption DEF home
        <4>3. legs' \in Seq(SUBSET Axes)
          BY <4>1, <3>1, LegsType DEF home
        <4> QED BY <1>2, <2>2, <3>1, <3>3, <4>1, <4>2, <4>3 DEF NextHome, home, TypeOK
      <3> QED BY <3>2, <3>3
    <2> QED BY <2>1, <2>2
  <1>3. CASE Leg
    <2>1. Head(legs) \in SUBSET Axes /\ Tail(legs) \in Seq(SUBSET Axes)
      BY <1>3 DEF Leg, TypeOK
    <2>2. Move(Head(legs), Head(legs))
      BY <1>3 DEF Leg
    <2> QED BY <1>3, <2>1, <2>2, MoveType DEF Leg, TypeOK
  <1>4. CASE LegDone
    BY <1>4 DEF LegDone, TypeOK
  <1>5. CASE Check
    <2>1. CASE halted \/ Missed
      BY <1>5, <2>1 DEF Check, HomeReturns, broadcast_halt, TypeOK
    <2>2. CASE ~halted /\ ~Missed
      BY <1>5, <2>2 DEF Check, TypeOK
    <2> QED BY <2>1, <2>2
  <1>6. CASE Back
    <2>1. Move(axis_to_home, {})
      BY <1>6 DEF Back
    <2> QED BY <1>6, <2>1, MoveType DEF Back, TypeOK
  <1>7. CASE BackDone
    BY <1>7 DEF BackDone, TypeOK
  <1>8. CASE Slow
    <2>1. Move(axis_to_home, axis_to_home)
      BY <1>8 DEF Slow
    <2> QED BY <1>8, <2>1, MoveType DEF Slow, TypeOK
  <1>9. CASE SlowDone
    <2>1. legs' \in Seq(SUBSET Axes)
      BY <1>9 DEF SlowDone, HomeReturns
    <2>2. pc' \in Places /\ status' \in Statuses /\ disable_segmentation' \in BOOLEAN
      BY <1>9 DEF SlowDone, HomeReturns
    <2>3. axis_to_home' \subseteq Axes /\ triggered' \subseteq Axes
      BY <1>9 DEF SlowDone, HomeReturns
    <2> QED BY <1>9, <2>1, <2>2, <2>3 DEF SlowDone, TypeOK
  <1>10. CASE Finish
    BY <1>10 DEF Finish, TypeOK
  <1>11. CASE move_to_origin
    <2>1. PICK S \in SUBSET XY : Move(S, {})
      BY <1>11 DEF move_to_origin
    <2>2. towards' \subseteq moving' /\ moving' \subseteq Axes /\ at_end' \subseteq Axes
      BY <2>1, MoveType DEF Axes
    <2> QED BY <1>11, <2>2 DEF move_to_origin, TypeOK
  <1>12. CASE OriginDone
    BY <1>12 DEF OriginDone, TypeOK
  <1>13. CASE back_off_home
    <2>1. towards' \subseteq moving' /\ moving' \subseteq Axes /\ at_end' \subseteq Axes
      <3>1. CASE OnSwitch \cap HomeToMin # {}
        BY <1>13, <3>1, MoveType DEF back_off_home, OnSwitch, TypeOK
      <3>2. CASE OnSwitch \cap HomeToMin = {}
        BY <1>13, <3>2 DEF back_off_home, TypeOK
      <3> QED BY <3>1, <3>2
    <2> QED BY <1>13, <2>1 DEF back_off_home, TypeOK
  <1>14. CASE BackOffDone
    BY <1>14 DEF BackOffDone, TypeOK
  <1> QED BY <1>1, <1>2, <1>3, <1>4, <1>5, <1>6, <1>7, <1>8, <1>9, <1>10, <1>11, <1>12,
             <1>13, <1>14 DEF Command

LEMMA TimerType == TypeOK /\ Timer => TypeOK'
  <1> SUFFICES ASSUME TypeOK, Timer
               PROVE  TypeOK'
    OBVIOUS
  <1> USE DEF robotVars, homeVars, switchVars, moveVars, Statuses
  <1>1. ASSUME NEW a \in Axes
        PROVE  /\ debounce[a] \in 0 .. Debounce
               /\ Settling(a) => debounce[a] + 1 \in 0 .. Debounce
               /\ 0 \in 0 .. Debounce
    BY HomingAssumption DEF TypeOK, Settling
  <1>2. CASE read_endstops
    <2> DEFINE hit == {a \in moving \cap pin : ~Settling(a)}
               count(a) == IF a \notin moving \/ a \in hit THEN debounce[a]
                           ELSE IF a \in pin THEN debounce[a] + 1 ELSE 0
    <2>1. ASSUME NEW a \in Axes
          PROVE  count(a) \in 0 .. Debounce
      BY <1>1
    <2>2. debounce' = [a \in Axes |-> count(a)]
      BY <1>2 DEF read_endstops
    <2>3. debounce' \in [Axes -> 0 .. Debounce]
      BY <2>1, <2>2
    <2>4. /\ triggered' \subseteq Axes /\ towards' \subseteq moving' /\ moving' \subseteq Axes
          /\ at_end' \subseteq Axes
      BY <1>2 DEF read_endstops, TypeOK
    <2> QED BY <1>2, <2>3, <2>4 DEF read_endstops, TypeOK
  <1>3. CASE CheckLimits
    <2>1. debounce' \in [Axes -> 0 .. Debounce] /\ alarm' \subseteq Axes
      BY <1>1, <1>3 DEF CheckLimits, TypeOK
    <2> QED BY <1>3, <2>1 DEF CheckLimits, TypeOK
  <1>4. CASE LimitAlarm
    <2>1. debounce' \in [Axes -> 0 .. Debounce]
      BY <1>1, <1>4 DEF LimitAlarm
    <2> QED BY <1>4, <2>1 DEF LimitAlarm, broadcast_halt, TypeOK
  <1>5. CASE ClearLimits
    <2>1. debounce' \in [Axes -> 0 .. Debounce]
      <3>1. CASE Limited \cap pin # {}
        <4>1. PICK a \in Limited \cap pin : debounce' = [debounce EXCEPT ![a] = 0]
          BY <1>5, <3>1 DEF ClearLimits
        <4> QED BY <4>1, <1>1, HomingAssumption DEF TypeOK
      <3>2. CASE Limited \cap pin = {}
        BY <1>1, <1>5, <3>2 DEF ClearLimits
      <3> QED BY <3>1, <3>2
    <2>2. status' \in Statuses
      BY <1>5 DEF ClearLimits, TypeOK
    <2> QED BY <1>5, <2>1, <2>2 DEF ClearLimits, TypeOK
  <1> QED BY <1>2, <1>3, <1>4, <1>5 DEF Timer

LEMMA NextType == TypeOK /\ [Next]_vars => TypeOK'
  <1> SUFFICES ASSUME TypeOK, [Next]_vars
               PROVE  TypeOK'
    OBVIOUS
  <1> USE DEF robotVars, homeVars, switchVars, moveVars
  <1>1. ASSUME NEW S \in SUBSET Axes, G28(S)
        PROVE  TypeOK'
    BY <1>1 DEF G28, TypeOK, Places, Waits
  <1>2. ASSUME NEW a \in Axes, Machine(a)
        PROVE  TypeOK'
    BY <1>2 DEF Machine, MoveEnds, Press, Release, TypeOK
  <1>3. ASSUME NEW a \in Axes, NEW to \in SUBSET {a}, UserMove(a, to)
        PROVE  TypeOK'
    <2>1. Move({a}, to)
      BY <1>3 DEF UserMove
    <2> QED BY <1>3, <2>1, MoveType DEF UserMove, TypeOK
  <1>4. CASE Halt
    BY <1>4 DEF Halt, broadcast_halt, TypeOK
  <1>5. CASE Unlock
    BY <1>5 DEF Unlock, TypeOK
  <1>6. CASE UNCHANGED vars
    BY <1>6 DEF vars, TypeOK
  <1> QED BY <1>1, <1>2, <1>3, <1>4, <1>5, <1>6, CommandType, TimerType DEF Next

(* Type correctness, for any limits, orders and debounce: no switch is      *)
(* counted beyond the debounce, and what moves towards its switch moves.    *)
THEOREM TypeCorrect == Spec => []TypeOK
  BY InitType, NextType, PTL DEF Spec

-----------------------------------------------------------------------------
(* What G28 changes for its own purposes, it changes back.                 *)

InHome == {"leg", "leg_wait", "back", "back_wait", "slow", "slow_wait"}

(* Where each of the three may be changed.                                  *)
ChangedInHome ==
    /\ disable_segmentation => pc \in InHome
    /\ ~compensated => pc \in InHome \cup {"next", "finish"}
    /\ status \notin {"NOT_HOMING", "LIMIT_TRIGGERED"}
           => pc \in InHome \cup {"origin_wait", "back_off_wait"}

LEMMA InitChanged == Init => ChangedInHome
  BY DEF Init, ChangedInHome

LEMMA NextChanged == ChangedInHome /\ [Next]_vars => ChangedInHome'
  <1> SUFFICES ASSUME ChangedInHome, [Next]_vars
               PROVE  ChangedInHome'
    OBVIOUS
  <1> USE DEF ChangedInHome, InHome, robotVars
  <1>1. CASE Begin \/ NextHome \/ Leg \/ LegDone
    BY <1>1 DEF Begin, NextHome, home, Leg, LegDone
  <1>2. CASE Check
    BY <1>2 DEF Check, HomeReturns
  <1>3. CASE Back \/ BackDone \/ Slow \/ SlowDone
    BY <1>3 DEF Back, BackDone, Slow, SlowDone, HomeReturns
  <1>4. CASE Finish \/ move_to_origin \/ OriginDone \/ back_off_home \/ BackOffDone
    BY <1>4 DEF Finish, move_to_origin, OriginDone, back_off_home, BackOffDone
  <1>5. CASE Timer
    BY <1>5 DEF Timer, read_endstops, CheckLimits, LimitAlarm, ClearLimits
  <1>6. CASE \E S \in SUBSET Axes : G28(S)
    BY <1>6 DEF G28
  <1>7. CASE \E a \in Axes : Machine(a) \/ \E to \in SUBSET {a} : UserMove(a, to)
    BY <1>7 DEF Machine, MoveEnds, Press, Release, UserMove
  <1>8. CASE Halt \/ Unlock
    BY <1>8 DEF Halt, Unlock
  <1>9. CASE UNCHANGED vars
    BY <1>9 DEF vars
  <1> QED BY <1>1, <1>2, <1>3, <1>4, <1>5, <1>6, <1>7, <1>8, <1>9 DEF Next, Command

(* However G28 ends, failed or halted at any step, segmentation and         *)
(* compensation are on again and the limits are watched.                    *)
THEOREM NothingLeft == Spec => []HomeLeavesNothing
  <1>1. ChangedInHome => HomeLeavesNothing
    BY DEF ChangedInHome, InHome, HomeLeavesNothing
  <1> QED BY <1>1, InitChanged, NextChanged, PTL DEF Spec

-----------------------------------------------------------------------------
(* What is homed is known, when every order names every axis and a halt is *)
(* lifted only when G28 has ended.                                         *)

CompleteOrders ==
    \A order \in Orders :
        order # <<>> => \A a \in Axes : \E i \in DOMAIN order : order[i] = a

ToHome(a) == \E i \in DOMAIN homes : a \in homes[i]

Slowing == {"back", "back_wait", "slow", "slow_wait"}

(* Only the axes that home is called for are moved, and in the slow         *)
(* approach they are those whose endstops were hit, and are watched.        *)
Approach ==
    /\ pc = "leg" => \A i \in DOMAIN legs : legs[i] \subseteq axis_to_home
    /\ pc \in Slowing => axis_to_home \subseteq triggered
    /\ pc \in {"slow", "slow_wait"} /\ ~halted => status = "MOVING_TO_ENDSTOP_SLOW"
    /\ pc = "leg_wait" => \A i \in DOMAIN legs : legs[i] \subseteq axis_to_home
    /\ pc \in {"slow", "slow_wait"} => moving \subseteq axis_to_home

(* Until a halt, every axis of G28 is at its endstop, being homed, or still *)
(* to be homed.                                                             *)
Progress ==
    ~halted =>
        /\ pc = "finish" => haxis \subseteq at_end
        /\ pc = "next" => \A a \in haxis : a \in at_end \/ ToHome(a)
        /\ pc \in InHome => \A a \in haxis \ axis_to_home : a \in at_end \/ ToHome(a)
        /\ pc = "slow_wait" => axis_to_home \ moving \subseteq at_end

(* The axes being homed are the only ones whose position may be unknown.    *)
KnownSoFar ==
    /\ homed \ haxis \subseteq known
    /\ pc \notin InHome \cup {"next", "finish"} => homed \subseteq known

KnownInv == TypeOK /\ Approach /\ Progress /\ KnownSoFar

LEMMA InitKnown == Init => KnownInv
  BY InitType DEF Init, KnownInv, Approach, Progress, KnownSoFar, InHome, Slowing

(* The first call of home leaves those that are still to come.              *)
LEMMA NextToHome ==
    ASSUME TypeOK, homes # <<>>, homes' = Tail(homes), NEW a, ToHome(a)
    PROVE  a \in Head(homes) \/ ToHome(a)'
  <1>1. PICK i \in DOMAIN homes : a \in homes[i]
    BY DEF ToHome
  <1>2. homes \in Seq(SUBSET Axes) /\ i \in 1 .. Len(homes)
    BY <1>1 DEF TypeOK
  <1>3. CASE i = 1
    BY <1>1, <1>3
  <1>4. CASE i # 1
    <2>1. i - 1 \in DOMAIN Tail(homes) /\ Tail(homes)[i - 1] = homes[i]
      BY <1>2, <1>4
    <2> QED BY <1>1, <2>1 DEF ToHome
  <1> QED BY <1>3, <1>4

LEMMA BeginKnown ==
    ASSUME CompleteOrders, KnownInv, Begin
    PROVE  Approach' /\ Progress' /\ KnownSoFar'
  <1> USE DEF moveVars, homeVars, robotVars, switchVars
  <1>1. CASE haxis = {}
    BY <1>1 DEF Begin, KnownInv, TypeOK, Approach, Progress, KnownSoFar, InHome, Slowing
  <1>2. CASE haxis # {}
    <2>1. pc' = "next" /\ homes' = Homes(haxis) /\ known' = known \ haxis /\ pc = "wait"
      BY <1>2 DEF Begin
    <2>2. ASSUME NEW a \in haxis
          PROVE  \E i \in DOMAIN homes' : a \in homes'[i]
      <3>1. CASE homing_order = <<>>
        BY <2>1, <3>1 DEF Homes
      <3>2. CASE homing_order # <<>>
        <4>1. PICK i \in DOMAIN homing_order : homing_order[i] = a
          BY <3>2 DEF CompleteOrders, KnownInv, TypeOK
        <4> QED BY <2>1, <3>2, <4>1 DEF Homes
      <3> QED BY <3>1, <3>2
    <2>3. Progress'
      BY <2>1, <2>2 DEF Begin, Progress, ToHome, InHome
    <2> QED BY <2>1, <2>3 DEF Begin, KnownInv, Approach, KnownSoFar, InHome, Slowing
  <1> QED BY <1>1, <1>2

LEMMA NextHomeKnown ==
    ASSUME KnownInv, NextHome
    PROVE  Approach' /\ Progress' /\ KnownSoFar'
  <1> USE DEF moveVars, homeVars, robotVars, switchVars
  <1>1. KnownSoFar'
    BY DEF NextHome, home, KnownInv, KnownSoFar, InHome
  <1>2. CASE homes = <<>>
    <2>1. ASSUME NEW a
          PROVE  ~ToHome(a)
      BY <1>2 DEF ToHome
    <2> QED BY <1>1, <1>2, <2>1 DEF NextHome, KnownInv, Approach, Progress, InHome, Slowing
  <1>3. CASE homes # <<>> /\ Head(homes) = {}
    <2>1. ASSUME NEW a \in haxis, ToHome(a)
          PROVE  ToHome(a)'
      BY <1>3, <2>1, NextToHome DEF KnownInv, NextHome
    <2> QED BY <1>1, <1>3, <2>1
          DEF NextHome, KnownInv, Approach, Progress, InHome, Slowing
  <1>4. CASE homes # <<>> /\ Head(homes) # {}
    <2>1. ASSUME NEW a \in haxis, ToHome(a)
          PROVE  a \in Head(homes) \/ ToHome(a)'
      BY <1>4, <2>1, NextToHome DEF KnownInv, NextHome
    <2>2. pc = "next" /\ pc' = "leg" /\ axis_to_home' = Head(homes) /\ home(Head(homes))
      BY <1>4 DEF NextHome, home
    <2>3. Progress'
      BY <2>1, <2>2 DEF NextHome, KnownInv, Progress, InHome
    <2>4. \A i \in DOMAIN legs' : legs'[i] \subseteq axis_to_home'
      BY <2>2 DEF home
    <2> QED BY <1>1, <2>2, <2>3, <2>4 DEF Approach, Slowing
  <1> QED BY <1>2, <1>3, <1>4

(* The moves of home.                                                      *)
LEMMA MovesKnown ==
    ASSUME KnownInv, Leg \/ LegDone \/ Back \/ BackDone \/ Slow
    PROVE  Approach' /\ Progress' /\ KnownSoFar'
  <1> USE DEF moveVars, homeVars, robotVars, switchVars, InHome, Slowing
  <1>1. CASE Leg
    <2>1. legs \in Seq(SUBSET Axes) /\ legs # <<>> /\ legs' = Tail(legs)
      BY <1>1 DEF KnownInv, TypeOK, Leg
    <2>2. Head(legs) = legs[1] /\ 1 \in DOMAIN legs
      BY <2>1
    <2>3. Head(legs) \subseteq axis_to_home
      BY <1>1, <2>2 DEF KnownInv, Approach, Leg
    <2>4. ASSUME NEW i \in DOMAIN legs'
          PROVE  legs'[i] \subseteq axis_to_home'
      <3>1. i + 1 \in DOMAIN legs /\ legs'[i] = legs[i + 1]
        BY <2>1, <2>4
      <3> QED BY <1>1, <3>1 DEF KnownInv, Approach, Leg
    <2>5. at_end \ axis_to_home \subseteq at_end'
      BY <1>1, <2>3 DEF Leg, Move
    <2>6. Progress'
      BY <1>1, <2>5 DEF Leg, KnownInv, Progress, ToHome
    <2> QED BY <1>1, <2>4, <2>6 DEF Leg, KnownInv, Approach, KnownSoFar
  <1>2. CASE LegDone
    BY <1>2 DEF LegDone, KnownInv, Approach, Progress, ToHome, KnownSoFar
  <1>3. CASE Back
    <2>1. at_end \ axis_to_home \subseteq at_end'
      BY <1>3 DEF Back, Move
    <2> QED BY <1>3, <2>1 DEF Back, KnownInv, Approach, Progress, ToHome, KnownSoFar
  <1>4. CASE BackDone
    BY <1>4 DEF BackDone, WaitForIdle, KnownInv, Approach, Progress, ToHome, KnownSoFar
  <1>5. CASE Slow
    <2>1. at_end \ axis_to_home \subseteq at_end'
      BY <1>5 DEF Slow, Move
    <2>2. ~halted => moving' = axis_to_home
      BY <1>5 DEF Slow, Move
    <2>3. Approach'
      BY <1>5, <2>2 DEF Slow, Move, KnownInv, TypeOK, Approach
    <2> QED BY <1>5, <2>1, <2>2, <2>3 DEF Slow, KnownInv, Progress, ToHome, KnownSoFar
  <1> QED BY <1>1, <1>2, <1>3, <1>4, <1>5

(* The two ways out of home.                                               *)
LEMMA ReturnsKnown ==
    ASSUME KnownInv, Check \/ SlowDone
    PROVE  Approach' /\ Progress' /\ KnownSoFar'
  <1> USE DEF moveVars, homeVars, robotVars, switchVars, InHome, Slowing
  <1>1. CASE Check /\ (halted \/ Missed)
    <2>1. halted' /\ pc' = "finish"
      BY <1>1 DEF Check, HomeReturns, broadcast_halt
    <2> QED BY <1>1, <2>1 DEF Check, KnownInv, Approach, Progress, KnownSoFar
  <1>2. CASE Check /\ ~halted /\ ~Missed
    BY <1>2 DEF Check, Missed, KnownInv, Approach, Progress, ToHome, KnownSoFar
  <1>3. CASE SlowDone
    <2>1. ~halted => axis_to_home \subseteq at_end
      BY <1>3 DEF SlowDone, WaitForIdle, KnownInv, Progress
    <2>2. ~halted => \A a \in haxis : a \in at_end \/ ToHome(a)
      BY <1>3, <2>1 DEF SlowDone, KnownInv, Progress
    <2>3. pc' = IF halted THEN "finish" ELSE "next"
      BY <1>3 DEF SlowDone, HomeReturns
    <2> QED BY <1>3, <2>2, <2>3 DEF SlowDone, KnownInv, Approach, Progress, ToHome, KnownSoFar
  <1> QED BY <1>1, <1>2, <1>3

LEMMA FinishKnown ==
    ASSUME KnownInv, Finish \/ move_to_origin \/ OriginDone \/ back_off_home \/ BackOffDone
    PROVE  Approach' /\ Progress' /\ KnownSoFar'
  <1> USE DEF moveVars, homeVars, robotVars, switchVars, InHome, Slowing
  <1>1. CASE Finish
    <2>1. ~halted => haxis \subseteq at_end
      BY <1>1 DEF Finish, KnownInv, Progress
    <2>2. homed' \subseteq known'
      BY <1>1, <2>1 DEF Finish, KnownInv, KnownSoFar
    <2> QED BY <1>1, <2>2 DEF Finish, Approach, Progress, KnownSoFar
  <1>2. CASE move_to_origin \/ OriginDone \/ back_off_home \/ BackOffDone
    BY <1>2 DEF move_to_origin, OriginDone, back_off_home, BackOffDone, KnownInv, Approach,
                Progress, KnownSoFar
  <1> QED BY <1>1, <1>2

(* What happens meanwhile: the switches, the timer task and a halt.        *)
LEMMA MeanwhileKnown ==
    ASSUME HostWaits, KnownInv,
           \/ \E S \in SUBSET Axes : G28(S)
           \/ \E a \in Axes : Machine(a) \/ \E to \in SUBSET {a} : UserMove(a, to)
           \/ Halt \/ Unlock \/ Timer \/ UNCHANGED vars
    PROVE  Approach' /\ Progress' /\ KnownSoFar'
  <1> USE DEF moveVars, homeVars, robotVars, switchVars, InHome, Slowing
  <1>1. CASE (\E S \in SUBSET Axes : G28(S)) \/ Halt \/ Unlock
    BY <1>1 DEF G28, Halt, Unlock, broadcast_halt, KnownInv, TypeOK, Approach, Progress, ToHome,
                KnownSoFar
  <1>2. CASE \E a \in Axes : \E to \in SUBSET {a} : UserMove(a, to)
    BY <1>2 DEF UserMove, KnownInv, Approach, Progress, ToHome, KnownSoFar
  <1>3. CASE \E a \in Axes : Machine(a)
    <2>1. CASE \E a \in Axes : MoveEnds(a)
      BY <2>1 DEF MoveEnds, KnownInv, Approach, Progress, ToHome, KnownSoFar
    <2>2. CASE \E a \in Axes : Press(a) \/ Release(a)
      BY <2>2 DEF Press, Release, KnownInv, Approach, Progress, ToHome, KnownSoFar
    <2> QED BY <1>3, <2>1, <2>2 DEF Machine
  <1>4. CASE read_endstops
    BY <1>4 DEF read_endstops, KnownInv, Approach, Progress, ToHome, KnownSoFar
  <1>5. CASE CheckLimits \/ LimitAlarm
    BY <1>5 DEF CheckLimits, LimitAlarm, broadcast_halt, KnownInv, Approach, Progress, ToHome,
                KnownSoFar
  <1>6. CASE ClearLimits
    BY <1>6 DEF ClearLimits, KnownInv, Approach, Progress, ToHome, KnownSoFar
  <1>7. CASE UNCHANGED vars
    BY <1>7 DEF vars, KnownInv, Approach, Progress, ToHome, KnownSoFar
  <1> QED BY <1>1, <1>2, <1>3, <1>4, <1>5, <1>6, <1>7 DEF Timer

(* A machine with complete homing orders, whose halts are lifted only when  *)
(* G28 has ended, knows the position of every axis it calls homed, however  *)
(* often homing failed or was interrupted before.                           *)
THEOREM HomedAreKnown ==
    ASSUME HostWaits, CompleteOrders
    PROVE  Spec => []HomedIsKnown
  <1>1. KnownInv /\ [Next]_vars => KnownInv'
    <2> SUFFICES ASSUME KnownInv, [Next]_vars
                 PROVE  Approach' /\ Progress' /\ KnownSoFar'
      BY NextType DEF KnownInv
    <2>1. CASE Command
      BY <2>1, BeginKnown, NextHomeKnown, MovesKnown, ReturnsKnown, FinishKnown DEF Command
    <2>2. CASE ~Command
      BY <2>2, MeanwhileKnown DEF Next
    <2> QED BY <2>1, <2>2
  <1>2. KnownInv => HomedIsKnown
    BY DEF KnownInv, KnownSoFar, HomedIsKnown, InHome
  <1> QED BY <1>1, <1>2, InitKnown, PTL DEF Spec

-----------------------------------------------------------------------------
(* G28 leaves no axis on its limit, when those with limits home to min and *)
(* a halt is lifted only when G28 has ended.                               *)

(* Between its moves nothing moves, and its last ones are away from the    *)
(* switches.                                                               *)
Resting ==
    /\ pc \in {"next", "leg", "back", "slow", "finish", "origin", "back_off"} => moving = {}
    /\ pc \in {"origin_wait", "back_off_wait"} => towards = {}

(* An axis on its limit is still moving off it, and no approach is watched *)
(* that would stop it.                                                     *)
BackingOff ==
    pc = "back_off_wait" =>
        /\ status \notin {"MOVING_TO_ENDSTOP_FAST", "MOVING_TO_ENDSTOP_SLOW"}
        /\ ~halted => OnSwitch \subseteq moving

OffInv == TypeOK /\ Resting /\ BackingOff

LEMMA InitOff == Init => OffInv
  BY InitType DEF Init, OffInv, Resting, BackingOff

LEMMA CommandOff ==
    ASSUME Limited \subseteq HomeToMin, OffInv, Command
    PROVE  Resting' /\ BackingOff'
  <1> USE DEF OffInv, Resting, BackingOff, moveVars, WaitForIdle
  <1>1. CASE Begin \/ NextHome \/ LegDone \/ BackDone \/ SlowDone
    BY <1>1 DEF Begin, NextHome, LegDone, BackDone, SlowDone, HomeReturns
  <1>2. CASE Leg \/ Back \/ Slow
    BY <1>2 DEF Leg, Back, Slow
  <1>3. CASE Check
    BY <1>3 DEF Check, HomeReturns, broadcast_halt
  <1>4. CASE Finish
    BY <1>4 DEF Finish
  <1>5. CASE move_to_origin
    BY <1>5 DEF move_to_origin, Move, TypeOK
  <1>6. CASE OriginDone
    BY <1>6 DEF OriginDone
  <1>7. CASE back_off_home
    <2>1. towards' = {}
      BY <1>7 DEF back_off_home, Move, TypeOK
    <2>2. ASSUME ~halted
          PROVE  OnSwitch \subseteq moving'
      <3>1. CASE OnSwitch = {}
        BY <3>1
      <3>2. CASE OnSwitch # {}
        <4>1. OnSwitch \cap HomeToMin # {}
          BY <3>2 DEF OnSwitch
        <4> QED BY <1>7, <2>2, <4>1 DEF back_off_home, Move
      <3> QED BY <3>1, <3>2
    <2>3. OnSwitch' = OnSwitch /\ halted' = halted
      BY <1>7 DEF back_off_home, OnSwitch, homeVars
    <2> QED BY <1>7, <2>1, <2>2, <2>3 DEF back_off_home
  <1>8. CASE BackOffDone
    BY <1>8 DEF BackOffDone
  <1> QED BY <1>1, <1>2, <1>3, <1>4, <1>5, <1>6, <1>7, <1>8 DEF Command

LEMMA MeanwhileOff ==
    ASSUME HostWaits, OffInv, [Next]_vars, ~Command
    PROVE  Resting' /\ BackingOff'
  <1> USE DEF OffInv, Resting, BackingOff, OnSwitch, moveVars, homeVars, switchVars
  <1>1. CASE (\E S \in SUBSET Axes : G28(S)) \/ UNCHANGED vars
    BY <1>1 DEF G28, vars
  <1>2. CASE \E a \in Axes : MoveEnds(a)
    BY <1>2 DEF MoveEnds, TypeOK
  <1>3. CASE \E a \in Axes : Press(a) \/ Release(a)
    BY <1>3 DEF Press, Release
  <1>4. CASE \E a \in Axes : \E to \in SUBSET {a} : UserMove(a, to)
    BY <1>4 DEF UserMove
  <1>5. CASE Halt \/ Unlock
    BY <1>5 DEF Halt, Unlock, broadcast_halt
  <1>6. CASE read_endstops
    BY <1>6 DEF read_endstops, TypeOK
  <1>7. CASE CheckLimits \/ LimitAlarm
    BY <1>7 DEF CheckLimits, LimitAlarm, broadcast_halt
  <1>8. CASE ClearLimits
    BY <1>8 DEF ClearLimits
  <1> QED BY <1>1, <1>2, <1>3, <1>4, <1>5, <1>6, <1>7, <1>8 DEF Next, Machine, Timer

(* G28 that ends without a halt has moved every axis it homed off its       *)
(* limit: the wait for the move is not cut short by a switch, the timer     *)
(* task or an early stop.                                                   *)
THEOREM AxesBackOff ==
    ASSUME HostWaits, Limited \subseteq HomeToMin
    PROVE  Spec => BackedOff
  <1>1. OffInv /\ [Next]_vars => OffInv'
    <2> SUFFICES ASSUME OffInv, [Next]_vars
                 PROVE  Resting' /\ BackingOff'
      BY NextType DEF OffInv
    <2> QED BY CommandOff, MeanwhileOff
  <1>2. OffInv /\ [Next]_vars => [BackOffDone /\ ~halted => OnSwitch = {}]_vars
    BY DEF OffInv, BackingOff, BackOffDone, WaitForIdle
  <1> QED BY <1>1, <1>2, InitOff, PTL DEF Spec, BackedOff

=============================================================================
