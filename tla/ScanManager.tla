---------------------------- MODULE ScanManager ----------------------------
(***************************************************************************)
(* scanManager of usrp_server.py: where a channel is in its scan.          *)
(*                                                                         *)
(* A scan is a list of beams, one integration period for each.  A period   *)
(* is named by its index in that list; its beam and its frequency follow   *)
(* from the index and are not modelled.  A scan of one beam is a camping   *)
(* scan: it has no last period and its index never advances.               *)
(***************************************************************************)
EXTENDS Integers

(* The state a channel keeps of its scan: "len" is len(scan_beam_list),    *)
(* the other fields carry the names of the source in short.                *)
Scan ==
  [len     : Nat,            \* 0 until the first SET_ACTIVE
   period  : Nat,            \* current_period
   pre     : BOOLEAN,        \* isPrePeriod
   post    : BOOLEAN,        \* isPostLast
   first   : BOOLEAN,        \* isFirstPeriod
   initPar : BOOLEAN]        \* isInitSetParameter

(* The state the constructor leaves, before any scan is known.             *)
NoScan == [len |-> 0, period |-> 0, pre |-> TRUE, post |-> FALSE,
           first |-> TRUE, initPar |-> TRUE]

(* init_new_scan                                                           *)
InitNewScan(len, start) ==
  [len |-> len, period |-> start, pre |-> TRUE, post |-> FALSE,
   first |-> TRUE, initPar |-> TRUE]

Camping(s) == s.len = 1

(* Mutant: the last period is found one period late.                       *)
BugLateLastPeriod(s) == ~Camping(s) /\ s.period = s.len

(* isLastPeriod                                                            *)
IsLastPeriod(s) == ~Camping(s) /\ s.period + 1 = s.len

(* Mutant: camping scans advance.                                          *)
BugNextPeriod(s) == s.period + 1

(* The period next_beam and get_next_clearFreq_result speak of; callers    *)
(* ask for it only when the current period is not the last.                *)
NextPeriod(s) == IF Camping(s) THEN s.period ELSE s.period + 1

(* Mutant: the end of the pre-period counts as a period.                   *)
BugPeriodFinished(s) ==
  IF Camping(s) THEN s
  ELSE IF ~IsLastPeriod(s) THEN [s EXCEPT !.pre = FALSE, !.period = @ + 1]
  ELSE [s EXCEPT !.post = TRUE]

(* period_finished: the very first call only ends the pre-period.          *)
PeriodFinished(s) ==
  IF s.pre THEN [s EXCEPT !.pre = FALSE]
  ELSE IF Camping(s) THEN s
  ELSE IF ~IsLastPeriod(s) THEN [s EXCEPT !.period = @ + 1]
  ELSE [s EXCEPT !.post = TRUE]
============================================================================
