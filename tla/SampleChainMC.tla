--------------------------- MODULE SampleChainMC ---------------------------
(* Two channels on a radar with two USRPs; the numbers of the periods are  *)
(* history, and the USRPs and the channels that may leave are symmetric.   *)
EXTENDS SampleChain, TLC

CONSTANTS u1, u2, x, y

MCUsrps    == {u1, u2}
MCChannels == {x, y}
MCFreqs    == {10, 12}
=============================================================================
