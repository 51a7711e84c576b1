---------------------------- MODULE MCLookahead ----------------------------
(* Lookahead for TLC: a fast move that takes two blocks to get to its      *)
(* speed, and a slower one that gets to its speed within one.              *)
EXTENDS Lookahead

Move(nominal, reach) == [nominal |-> nominal, reach |-> reach]

MCMoves == {Move(4, 2), Move(3, 4)}
=============================================================================
