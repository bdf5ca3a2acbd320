------------------------- MODULE RadarServerRefines -------------------------
(***************************************************************************)
(* The swing pipeline keeps the promise of ScanService, as long as control *)
(* programs start together, do not leave, and do not camp on a beam.       *)
(***************************************************************************)
EXTENDS RadarServer

InScan(c) == pc[c] \in {"setpar", "parwait", "ready", "readywait", "getdata",
                        "datawait", "sending", "inactive"}

(* A result leaves resultDict_list before the samples are acknowledged.    *)
openMap   == [c \in Channels |-> InScan(c)]
nextMap   == [c \in Channels |->
                IF InScan(c) THEN Expected(c) + (IF pc[c] = "sending" THEN 1 ELSE 0)
                             ELSE 0]
flightMap == [c \in Channels |->
                Reverse([i \in 1 .. Len(results[c]) |->
                           [of    |-> results[c][i].of,
                            fired |-> results[c][i].fired]])]
answerMap == [c \in Channels |-> [of |-> sent[c].label, valid |-> sent[c].valid]]

Service == INSTANCE ScanService
             WITH open <- openMap, next <- nextMap, flight <- flightMap,
                  answer <- answerMap

(* The server implements the service: a period the control program asks    *)
(* for is the next one, was taken once and comes back in order, valid if   *)
(* and only if it was transmitted, and every scan ends.                    *)
KeepsPromise == Service!Promise
=============================================================================
