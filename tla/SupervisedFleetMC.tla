------------------------- MODULE SupervisedFleetMC -------------------------
(* Two radars.  With one USRP on the first and three on the second, a      *)
(* position in the list of all is also one in the list of the second.  One *)
(* driver is on another computer.                                          *)
EXTENDS SupervisedFleet

CONSTANTS a1, b1, b2, b3

MCUsrps  == {a1, b1, b2, b3}
MCLocal  == MCUsrps \ {b3}
MCConfig == [r \in 0 .. 1 |-> IF r = 0 THEN <<a1>> ELSE <<b1, b2, b3>>]

(* A smaller fleet, of which liveness can be checked too.                  *)
SmallUsrps  == {a1, b1, b2}
SmallLocal  == {a1, b1}
SmallConfig == [r \in 0 .. 1 |-> IF r = 0 THEN <<a1>> ELSE <<b1, b2>>]
=============================================================================
