--------------------------- MODULE RadarServerMC ---------------------------
(***************************************************************************)
(* Instances of RadarServer for TLC.                                       *)
(***************************************************************************)
EXTENDS RadarServerRefines

CONSTANTS c1, c2

(* One or two control programs on one radar, or one on each of two.        *)
OnOneRadar  == [c \in Channels |-> 0]
OnTwoRadars == [c \in Channels |-> IF c = c1 THEN 0 ELSE 1]

ScansOf2 == [c \in Channels |-> 2]
ScansOf3 == [c \in Channels |-> 3]
ScansOf4 == [c \in Channels |-> 4]
OneCamps == [c \in Channels |-> IF c = c1 THEN 3 ELSE 1]

(* A scan starts with its first beam, or with the second when it is late.  *)
FromFirst   == [c \in Channels |-> {0}]
FromSecond  == [c \in Channels |-> {0, 1}]

SamePar  == [c \in Channels |-> 1]
OwnPar   == [c \in Channels |-> IF c = c1 THEN 1 ELSE 2]
============================================================================
