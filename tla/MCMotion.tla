------------------------------ MODULE MCMotion ------------------------------
(* Motion for TLC: two motors, and moves that make one, two or no steps.    *)
EXTENDS Motion, TLC

CONSTANTS x, y

At(a, b) == x :> a @@ y :> b

(* Home; a diagonal; x alone, half a step short of where the second segment *)
(* ends, which has no steps then.                                           *)
MCLines == { <<At(0, 0)>>, <<At(2, 2)>>, <<At(3, 2), At(4, 2)>> }

(* Fewer of them, for liveness under a halt.                                *)
MCFewLines == { <<At(0, 0)>>, <<At(2, 0), At(2, 2)>> }
=============================================================================
