---------------------------- MODULE ScanService ----------------------------
(***************************************************************************)
(* What usrp_server promises a control program.                            *)
(*                                                                         *)
(* The periods of a scan are taken in order, each of them once.  The       *)
(* server is at most two periods ahead of the control program, one for     *)
(* each swing.  GET_DATA answers with the oldest period in flight, and the *)
(* answer is flagged invalid exactly when there was no time to transmit    *)
(* that period.  A scan that has begun comes to its end.                   *)
(***************************************************************************)
EXTENDS Integers, Sequences

CONSTANTS Channels, ScanLen, StartPeriods

ASSUME ServiceAssumption ==
  /\ ScanLen \in [Channels -> Nat \ {0, 1}]
  /\ StartPeriods \in [Channels -> SUBSET Nat]
  /\ \A c \in Channels : \A p \in StartPeriods[c] : p < ScanLen[c]

VARIABLES
  open,    \* whether a channel is in a scan
  next,    \* the period its control program gets next
  flight,  \* the periods taken and not yet delivered, the oldest first
  answer   \* what the last GET_DATA brought

svars == <<open, next, flight, answer>>

Swings == 2

Period == [of : Nat, fired : BOOLEAN]
Answer == [of : Int, valid : BOOLEAN]

Init ==
  /\ open = [c \in Channels |-> FALSE]
  /\ next = [c \in Channels |-> 0]
  /\ flight = [c \in Channels |-> <<>>]
  /\ answer = [c \in Channels |-> [of |-> -1, valid |-> FALSE]]

Begin(c) ==
  /\ ~open[c]
  /\ open' = [open EXCEPT ![c] = TRUE]
  /\ \E p \in StartPeriods[c] : next' = [next EXCEPT ![c] = p]
  /\ UNCHANGED <<flight, answer>>

(* Mutant: a period is taken although both swings hold one.                *)
BugMayTake(c) == open[c] /\ next[c] + Len(flight[c]) < ScanLen[c]

(* A swing is free and the scan has another period.                        *)
MayTake(c) == /\ open[c] /\ Len(flight[c]) < Swings
              /\ next[c] + Len(flight[c]) < ScanLen[c]

(* One trigger takes the next period of several channels, on the air or not.*)
Take(S, fired) ==
  /\ S # {} /\ \A c \in S : MayTake(c)
  /\ flight' = [c \in Channels |->
       IF c \in S
       THEN Append(flight[c], [of |-> next[c] + Len(flight[c]), fired |-> fired])
       ELSE flight[c]]
  /\ UNCHANGED <<open, next, answer>>

Deliver(c) ==
  /\ flight[c] # <<>>
  /\ answer' = [answer EXCEPT ![c] = [of    |-> Head(flight[c]).of,
                                      valid |-> Head(flight[c]).fired]]
  /\ next' = [next EXCEPT ![c] = @ + 1]
  /\ flight' = [flight EXCEPT ![c] = Tail(@)]
  /\ UNCHANGED open

End(c) ==
  /\ open[c] /\ next[c] = ScanLen[c]
  /\ open' = [open EXCEPT ![c] = FALSE]
  /\ next' = [next EXCEPT ![c] = 0]
  /\ UNCHANGED <<flight, answer>>

Next ==
  \/ \E c \in Channels : Begin(c) \/ Deliver(c) \/ End(c)
  \/ \E S \in SUBSET Channels, fired \in BOOLEAN : Take(S, fired)

Spec == Init /\ [][Next]_svars

Promise == Spec /\ \A c \in Channels : open[c] ~> ~open[c]

(* Type correctness.                                                       *)
ServiceTypeOK ==
  /\ open \in [Channels -> BOOLEAN] /\ next \in [Channels -> Nat]
  /\ flight \in [Channels -> Seq(Period)] /\ answer \in [Channels -> Answer]

(* What is in flight are the periods that come next, without a gap, never  *)
(* more than the two swings hold, and none outside a scan.                 *)
InOrder ==
  \A c \in Channels :
    /\ Len(flight[c]) <= Swings
    /\ \A i \in 1 .. Len(flight[c]) : flight[c][i].of = next[c] + i - 1
    /\ next[c] + Len(flight[c]) <= ScanLen[c]
    /\ ~open[c] => flight[c] = <<>>
============================================================================
