------------------------------- MODULE MCHoming -------------------------------
(* Values for TLC: all axes at once, or one by one.                         *)
EXTENDS Homing

MCLimited == {X_AXIS, Z_AXIS}
MCHomeToMin == Axes
MCOrders == {<<>>, <<Z_AXIS, Y_AXIS, X_AXIS>>}

=============================================================================
