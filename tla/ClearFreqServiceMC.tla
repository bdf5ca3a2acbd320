------------------------- MODULE ClearFreqServiceMC -------------------------
(***************************************************************************)
(* Instances of ClearFreqService for TLC: the main thread and the handler  *)
(* of a channel.                                                           *)
(***************************************************************************)
EXTENDS ClearFreqService

CONSTANTS main, handler
============================================================================
