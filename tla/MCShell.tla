------------------------------- MODULE MCShell -------------------------------
(* Values for TLC: what a line prints does not fit in the tx_queue; one     *)
(* client sends two things, the other a single one.                        *)
EXTENDS Shell

CONSTANTS c1, c2

MCClients == {c1, c2}
MCAnswers == {<<1, 1>>}
MCMaxItems == [c \in Clients |-> IF c = c1 THEN 2 ELSE 1]

=============================================================================
