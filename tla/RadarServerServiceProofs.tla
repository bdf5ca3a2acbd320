---------------------- MODULE RadarServerServiceProofs ----------------------
(***************************************************************************)
(* The swing pipeline keeps the safety part of ScanService's promise as    *)
(* long as every control program goes on; and a control program that is    *)
(* alone on the server always does.                                        *)
(***************************************************************************)
EXTENDS RadarServerDataProofs, RadarServerRefines

USE RadarsAssumption, ChannelAssumption, ScanAssumption
USE DEF Swing, Label, None, ChannelState, INACTIVE, READY, TRIGGER,
        PROCESSING, SAMPLES_READY, LAST_SWING, Radars, processingSwing
----------------------------------------------------------------------------
(* The service: what is in flight, as the oldest first list of the periods *)
(* taken.                                                                  *)
PeriodIn(e) == [of |-> e.of, fired |-> e.fired]
Taken(q) == Reverse([i \in 1 .. Len(q) |-> PeriodIn(q[i])])
Takes == [of : Label, fired : BOOLEAN]

LEMMA TakenAt ==
  ASSUME NEW q \in Seq(Result)
  PROVE  /\ Taken(q) \in Seq(Takes) /\ Len(Taken(q)) = Len(q)
         /\ \A i \in 1 .. Len(q) : Taken(q)[i] = PeriodIn(q[Len(q) - i + 1])
<1> DEFINE p == [i \in 1 .. Len(q) |-> PeriodIn(q[i])]
<1>1. Len(q) \in Nat /\ \A i \in 1 .. Len(q) : q[i] \in Result
  OBVIOUS
<1>2. \A i \in 1 .. Len(q) : PeriodIn(q[i]) \in Takes
  BY <1>1 DEF PeriodIn, Takes, Result
<1>3. p \in Seq(Takes) /\ Len(p) = Len(q)
      /\ \A i \in 1 .. Len(q) : p[i] = PeriodIn(q[i])
  BY <1>1, <1>2
<1> HIDE DEF p
<1>4. Taken(q) = [i \in 1 .. Len(q) |-> p[Len(q) - i + 1]]
  BY <1>3 DEF Taken, Reverse, p
<1>5. \A i \in 1 .. Len(q) : Len(q) - i + 1 \in 1 .. Len(q)
  BY <1>1
<1>6. \A i \in 1 .. Len(q) : p[Len(q) - i + 1] \in Takes
  BY <1>2, <1>3, <1>5
<1>7. Taken(q) \in Seq(Takes) /\ Len(Taken(q)) = Len(q)
  BY <1>1, <1>4, <1>6
<1>8. \A i \in 1 .. Len(q) : Taken(q)[i] = PeriodIn(q[Len(q) - i + 1])
  BY <1>3, <1>4, <1>5
<1>9. QED BY <1>7, <1>8

(* A new entry is the youngest ...                                         *)
LEMMA TakenNew ==
  ASSUME NEW q \in Seq(Result), NEW e \in Result
  PROVE  Taken(<<e>> \o q) = Append(Taken(q), PeriodIn(e))
<1> DEFINE p == <<e>> \o q
           t == Taken(q)
           n == Len(q)
<1>1. /\ p \in Seq(Result) /\ Len(p) = n + 1 /\ n \in Nat
      /\ \A i \in 1 .. n + 1 : p[i] = IF i = 1 THEN e ELSE q[i - 1]
  OBVIOUS
<1>2. PeriodIn(e) \in Takes
  BY DEF PeriodIn, Takes, Result
<1>3. /\ t \in Seq(Takes) /\ Len(t) = n
      /\ \A i \in 1 .. n : t[i] = PeriodIn(q[n - i + 1])
  BY TakenAt
<1> HIDE DEF p, t, n
<1>4. /\ Taken(p) \in Seq(Takes) /\ Len(Taken(p)) = n + 1
      /\ \A i \in 1 .. n + 1 : Taken(p)[i] = PeriodIn(p[n + 1 - i + 1])
  BY <1>1, TakenAt
<1>5. /\ Append(t, PeriodIn(e)) \in Seq(Takes)
      /\ Len(Append(t, PeriodIn(e))) = n + 1
      /\ \A i \in 1 .. n : Append(t, PeriodIn(e))[i] = t[i]
      /\ Append(t, PeriodIn(e))[n + 1] = PeriodIn(e)
  BY <1>2, <1>3, AppendProperties
<1>6. ASSUME NEW i \in 1 .. n + 1
      PROVE  Taken(p)[i] = Append(t, PeriodIn(e))[i]
  <2>1. CASE i = n + 1
    <3>1. p[n + 1 - i + 1] = e BY <1>1, <2>1
    <3>2. QED BY <1>4, <1>5, <2>1, <3>1
  <2>2. CASE i # n + 1
    <3>1. i \in 1 .. n /\ n + 1 - i + 1 \in 2 .. n + 1
      BY <1>1, <2>2
    <3>2. p[n + 1 - i + 1] = q[n - i + 1]
      BY <1>1, <3>1
    <3>3. QED BY <1>3, <1>4, <1>5, <3>1, <3>2
  <2>3. QED BY <2>1, <2>2
<1>7. Taken(p) = Append(t, PeriodIn(e))
  BY <1>1, <1>4, <1>5, <1>6, SeqEqual
<1>8. QED BY <1>7 DEF p, t

(* ... what is sent is the oldest ...                                      *)
LEMMA TakenSent ==
  ASSUME NEW q \in Seq(Result), q # <<>>
  PROVE  /\ Taken(q) # <<>> /\ Head(Taken(q)) = PeriodIn(Last(q))
         /\ Tail(Taken(q)) = Taken(Front(q))
<1> DEFINE t == Taken(q)
           f == Front(q)
           n == Len(q)
<1>1. /\ n \in Nat \ {0} /\ f \in Seq(Result) /\ Len(f) = n - 1
      /\ \A i \in 1 .. n - 1 : f[i] = q[i]
  BY FrontAt
<1>2. Last(q) = q[n]
  BY DEF Last
<1>3. /\ t \in Seq(Takes) /\ Len(t) = n
      /\ \A i \in 1 .. n : t[i] = PeriodIn(q[n - i + 1])
  BY TakenAt
<1> HIDE DEF t, f, n
<1>4. /\ Taken(f) \in Seq(Takes) /\ Len(Taken(f)) = n - 1
      /\ \A i \in 1 .. n - 1 : Taken(f)[i] = PeriodIn(f[n - 1 - i + 1])
  BY <1>1, TakenAt
<1>5. t # <<>>
  BY <1>1, <1>3
<1>6. /\ Tail(t) \in Seq(Takes) /\ Len(Tail(t)) = n - 1
      /\ \A i \in 1 .. n - 1 : Tail(t)[i] = t[i + 1]
  BY <1>3, <1>5, HeadTailProperties
<1>7. Head(t) = PeriodIn(Last(q))
  <2>1. Head(t) = t[1] BY <1>3, <1>5
  <2>2. t[1] = PeriodIn(q[n - 1 + 1]) /\ n - 1 + 1 = n BY <1>1, <1>3
  <2>3. QED BY <1>2, <2>1, <2>2
<1>8. ASSUME NEW i \in 1 .. n - 1
      PROVE  Tail(t)[i] = Taken(f)[i]
  <2>1. i + 1 \in 1 .. n /\ n - 1 - i + 1 \in 1 .. n - 1
        /\ n - (i + 1) + 1 = n - 1 - i + 1
    BY <1>1
  <2>2. QED BY <1>1, <1>3, <1>4, <1>6, <2>1
<1>9. Tail(t) = Taken(f)
  BY <1>1, <1>4, <1>6, <1>8, SeqEqual
<1>10. QED BY <1>5, <1>7, <1>9 DEF t, f

(* ... and its samples do not change its place.                            *)
LEMMA TakenFilled ==
  ASSUME NEW q \in Seq(Result), q # <<>>, NEW e \in Result,
         e.of = Last(q).of, e.fired = Last(q).fired
  PROVE  Taken(Append(Front(q), e)) = Taken(q)
<1> DEFINE f == Front(q)
           p == Append(f, e)
           n == Len(q)
<1>1. /\ n \in Nat \ {0} /\ f \in Seq(Result) /\ Len(f) = n - 1
      /\ \A i \in 1 .. n - 1 : f[i] = q[i]
  BY FrontAt
<1>2. PeriodIn(e) = PeriodIn(q[n])
  BY DEF Last, PeriodIn
<1>3. /\ Taken(q) \in Seq(Takes) /\ Len(Taken(q)) = n
      /\ \A i \in 1 .. n : Taken(q)[i] = PeriodIn(q[n - i + 1])
  BY TakenAt
<1> HIDE DEF f, n
<1>4. /\ p \in Seq(Result) /\ Len(p) = n - 1 + 1
      /\ \A i \in 1 .. n - 1 : p[i] = f[i]
      /\ p[n - 1 + 1] = e
  BY <1>1, AppendProperties
<1> HIDE DEF p
<1>5. n - 1 + 1 = n
  BY <1>1
<1>6. \A i \in 1 .. n : PeriodIn(p[i]) = PeriodIn(q[i])
  BY <1>1, <1>2, <1>4, <1>5
<1>7. /\ Taken(p) \in Seq(Takes) /\ Len(Taken(p)) = n
      /\ \A i \in 1 .. n : Taken(p)[i] = PeriodIn(p[n - i + 1])
  <2>1. Len(p) = n /\ p \in Seq(Result) BY <1>4, <1>5
  <2>2. /\ Taken(p) \in Seq(Takes) /\ Len(Taken(p)) = Len(p)
        /\ \A i \in 1 .. Len(p) : Taken(p)[i] = PeriodIn(p[Len(p) - i + 1])
    BY <2>1, TakenAt
  <2>3. QED BY ONLY <2>1, <2>2
<1>8. \A i \in 1 .. n : n - i + 1 \in 1 .. n
  BY <1>1
<1>9. Taken(p) = Taken(q)
  BY <1>3, <1>6, <1>7, <1>8, SeqEqual
<1>10. QED BY <1>9 DEF p, f
----------------------------------------------------------------------------
(* The refinement of ScanService.                                          *)

(* No program leaves and no handler ends with an exception.                *)
Stays == \A c \in Channels : pc[c] \notin Away

(* A program that ends its scan has got all of it.                         *)
AllGot(c) == pc[c] = "inactive" => left[c] = 0

ServeInv == DataInv /\ \A c \in Channels : AllGot(c)

LEMMA MainHandlers == ASSUME Main PROVE UNCHANGED handler
<1>1. CASE \/ NoticeNew \/ NothingNew \/ AwaitSetPar \/ InitStart \/ InitEnd
           \/ Arm \/ LoopAgain \/ Start \/ Setup
  BY <1>1 DEF NoticeNew, NothingNew, AwaitSetPar, InitStart, InitEnd, Arm,
     LoopAgain, Start, Setup
<1>2. CASE \/ Fire \/ Collect \/ Finish \/ Generate \/ ReadyClear
           \/ ReadyStore \/ Switch \/ AutoTrigger \/ End
  BY <1>2 DEF Fire, Collect, Finish, Generate, ReadyClear, ReadyStore,
     Switch, AutoTrigger, End
<1>3. CASE \E c \in Channels : \/ AwaitActive(c) \/ AddLast(c)
             \/ AddNotActive(c) \/ AddUpdate(c) \/ AddSend(c)
  BY <1>3 DEF AwaitActive, AddLast, AddNotActive, AddUpdate, AddSend
<1>4. QED BY <1>1, <1>2, <1>3 DEF Main

LEMMA AllGotHandler ==
  ASSUME TypeOK, NEW c \in Channels, Stage(c), AllGot(c), Handler(c)
  PROVE  AllGot(c)'
<1>1. pc \in [Channels -> HandlerPoint] /\ left \in [Channels -> Int]
  BY DEF TypeOK, TypeHandler
<1>2. CASE EndGetData(c)
  <2>1. /\ pc[c] = "sending" /\ left'[c] = left[c] - 1
        /\ pc'[c] = "inactive" => ~(left[c] > 1)
    BY <1>1, <1>2 DEF EndGetData, Goto
  <2>2. ~Gone(c) /\ \A q : ~Fetch(c, q)
    BY <2>1 DEF Gone, Leaving, Fetch
  <2>3. left[c] >= 1
    <3>1. \/ Running(c) /\ Collected(c)
          \/ \E x \in Swing : Ended(c, x) \/ Stuck(c, x)
      BY <2>1, AtSending DEF Leaves
    <3>2. CASE Running(c) /\ Collected(c)
      <4>1. scan[c] \in Scan /\ scan[c].period < scan[c].len
        BY <3>2 DEF TypeOK, TypeChan, Running, Going, Began
      <4>2. Remaining(c) + 1 >= 1
        BY <4>1 DEF Remaining, Scan
      <4>3. Owes(c, Remaining(c) + 1)
        BY <2>2, <3>2 DEF Collected
      <4>4. QED BY <1>1, <2>1, <4>2, <4>3 DEF Owes
    <3>3. ASSUME NEW x \in Swing, Ended(c, x) \/ Stuck(c, x) PROVE left[c] >= 1
      BY <2>1, <2>2, <3>3 DEF Ended, Stuck
    <3>4. QED BY <3>1, <3>2, <3>3
  <2>4. QED BY <1>1, <2>1, <2>3 DEF AllGot
<1>3. CASE SetActive(c) \/ StartScan(c)
  BY <1>1, <1>3 DEF SetActive, StartScan, Goto, AllGot
<1>4. CASE ~EndGetData(c) /\ ~SetActive(c) /\ ~StartScan(c)
  BY <1>1, <1>4 DEF Handler, Serve, AwaitTriggerEnd, StoreParameters,
     TakeParameters, Register, CompareParameters, SetReady, TriggerSwing,
     GetData, SendResults, SetInactive, Quit, LoseConnection, AwaitTrigger,
     Unlist, EndQuit, Goto, AllGot, handler
<1>5. QED BY <1>2, <1>3, <1>4

LEMMA ServeStep ==
  ASSUME MayStop = {}, OwnFlags, NoLateCamping, ServeInv, [Next]_vars
  PROVE  ServeInv'
<1>1. DataInv /\ DataInv' /\ TypeOK /\ \A c \in Channels : Stage(c)
  BY DataStep DEF ServeInv, DataInv, StageInv, Stages
<1>2. ASSUME NEW c \in Channels PROVE AllGot(c)'
  <2>1. AllGot(c) BY DEF ServeInv
  <2>2. CASE Main
    BY <2>1, <2>2, MainHandlers DEF handler, AllGot
  <2>3. CASE UNCHANGED vars
    BY <2>1, <2>3 DEF vars, handler, AllGot
  <2>4. ASSUME NEW d \in Channels, Handler(d) PROVE AllGot(c)'
    <3>1. CASE d = c BY <1>1, <2>1, <2>4, <3>1, AllGotHandler
    <3>2. CASE d # c
      <4>1. UNCHANGED Own(c) BY <1>1, <2>4, <3>2, HandlerElsewhere
      <4>2. QED BY <2>1, <4>1 DEF Own, AllGot
    <3>3. QED BY <3>1, <3>2
  <2>5. QED BY <2>2, <2>3, <2>4 DEF Next
<1>3. QED BY <1>1, <1>2 DEF ServeInv

(* What the service sees of a channel.                                     *)
NextOf(c) ==
  IF InScan(c) THEN Expected(c) + (IF pc[c] = "sending" THEN 1 ELSE 0) ELSE 0
AnswerOf(c) == [of |-> sent[c].label, valid |-> sent[c].valid]

LEMMA Mapped ==
  /\ openMap = [c \in Channels |-> InScan(c)]
  /\ nextMap = [c \in Channels |-> NextOf(c)]
  /\ flightMap = [c \in Channels |-> Taken(results[c])]
  /\ answerMap = [c \in Channels |-> AnswerOf(c)]
BY DEF openMap, nextMap, flightMap, answerMap, NextOf, AnswerOf, Taken,
   PeriodIn

LEMMA MappedNext ==
  /\ openMap' = [c \in Channels |-> InScan(c)']
  /\ nextMap' = [c \in Channels |-> NextOf(c)']
  /\ flightMap' = [c \in Channels |-> Taken(results'[c])]
  /\ answerMap' = [c \in Channels |-> AnswerOf(c)']
BY DEF openMap, nextMap, flightMap, answerMap, NextOf, AnswerOf, Taken,
   PeriodIn

(* A channel whose own data did not change is the same for the service.    *)
Same(c) == /\ InScan(c)' = InScan(c) /\ NextOf(c)' = NextOf(c)
           /\ results'[c] = results[c] /\ AnswerOf(c)' = AnswerOf(c)

LEMMA SameWhenOwn == ASSUME NEW c \in Channels, UNCHANGED Own(c) PROVE Same(c)
BY DEF Own, Same, InScan, NextOf, AnswerOf, Expected

LEMMA StepStutters ==
  ASSUME \A c \in Channels :
           /\ InScan(c)' = InScan(c) /\ NextOf(c)' = NextOf(c)
           /\ Taken(results'[c]) = Taken(results[c])
           /\ AnswerOf(c)' = AnswerOf(c)
  PROVE  UNCHANGED <<openMap, nextMap, flightMap, answerMap>>
BY Mapped, MappedNext

(* The scans of the service have a second beam.                            *)
NoCamping == \A c \in Channels : ScanLen[c] # 1

(* A new scan is a scan of the service ...                                 *)
LEMMA ServeStart ==
  ASSUME TypeOK, NoCamping, NEW c \in Channels, StartScan(c),
         \A d \in Channels \ {c} : Same(d)
  PROVE  Service!Begin(c)
<1>1. PICK p \in StartPeriods[c] : left' = [left EXCEPT ![c] = ScanLen[c] - p]
  BY DEF StartScan
<1>2. /\ pc[c] = "newscan" /\ pc'[c] = "setpar" /\ left'[c] = ScanLen[c] - p
      /\ results' = results /\ sent' = sent /\ p \in Nat /\ ScanLen[c] \in Nat
  BY <1>1 DEF StartScan, Goto, TypeOK, TypeHandler
<1>3. /\ ~InScan(c) /\ InScan(c)' /\ AnswerOf(c)' = AnswerOf(c)
      /\ InScan(c)' = TRUE
  BY <1>2 DEF InScan, AnswerOf
<1>4. NextOf(c)' = p
  BY <1>2, <1>3 DEF NextOf, Expected, NoCamping
<1>5. ~openMap[c] /\ openMap' = [openMap EXCEPT ![c] = TRUE]
  BY <1>3, Mapped, MappedNext DEF Same
<1>6. nextMap' = [nextMap EXCEPT ![c] = p]
  BY <1>4, Mapped, MappedNext DEF Same
<1>7. UNCHANGED <<flightMap, answerMap>>
  BY <1>2, <1>3, Mapped, MappedNext DEF Same
<1>8. QED BY <1>5, <1>6, <1>7 DEF Service!Begin

(* ... the answer to GET_DATA brings the oldest period in flight ...       *)
LEMMA ServeSend ==
  ASSUME TypeOK, TypeOK', NEW c \in Channels, Recorded(c)', SendResults(c),
         Stays', \A d \in Channels \ {c} : Same(d)
  PROVE  Service!Deliver(c)
<1> DEFINE q == results[c]
<1>1. /\ pc[c] = "datawait" /\ pc'[c] = "sending" /\ q # <<>> /\ left' = left
      /\ sent'[c] = Last(q) /\ results'[c] = Front(q)
  BY DEF SendResults, Goto, Stays, Away, Leaving, TypeOK, TypeHandler, TypeChan
<1>2. q \in Seq(Result) /\ sent'[c] \in Result /\ left[c] \in Int
  BY DEF TypeOK, TypeChan, TypeHandler
<1>3. sent'[c].of = sent'[c].label /\ sent'[c].valid = sent'[c].fired
  <2>1. Sound(sent'[c]) BY <1>1 DEF Recorded, Sound
  <2>2. sent'[c].valid \in BOOLEAN /\ sent'[c].fired \in BOOLEAN
    BY <1>2 DEF Result
  <2>3. QED BY <2>1, <2>2 DEF Sound
<1> HIDE DEF q
<1>4. /\ Taken(q) # <<>> /\ Head(Taken(q)) = PeriodIn(Last(q))
      /\ Tail(Taken(q)) = Taken(Front(q))
  BY <1>1, <1>2, TakenSent
<1>5. /\ InScan(c)' = InScan(c) /\ NextOf(c)' = NextOf(c) + 1
  BY <1>1, <1>2 DEF InScan, NextOf, Expected
<1>6. AnswerOf(c)' = [of |-> Head(Taken(q)).of, valid |-> Head(Taken(q)).fired]
  BY <1>1, <1>3, <1>4 DEF AnswerOf, PeriodIn
<1>7. flightMap[c] = Taken(q) /\ nextMap[c] = NextOf(c)
  BY Mapped DEF q
<1>8. flightMap' = [flightMap EXCEPT ![c] = Tail(@)]
  BY <1>1, <1>4, <1>7, Mapped, MappedNext DEF Same
<1>9. answerMap' = [answerMap EXCEPT ![c] =
                      [of    |-> Head(flightMap[c]).of,
                       valid |-> Head(flightMap[c]).fired]]
  BY <1>6, <1>7, Mapped, MappedNext DEF Same
<1>10. nextMap' = [nextMap EXCEPT ![c] = @ + 1]
  BY <1>5, <1>7, Mapped, MappedNext DEF Same
<1>11. UNCHANGED openMap
  BY <1>5, Mapped, MappedNext DEF Same
<1>12. QED
  BY <1>4, <1>7, <1>8, <1>9, <1>10, <1>11 DEF Service!Deliver

(* ... and SET_INACTIVE ends it, when all of it has been delivered.        *)
LEMMA ServeEnd ==
  ASSUME TypeOK, MayStop = {}, NoCamping, NEW c \in Channels, AllGot(c),
         SetInactive(c), \A d \in Channels \ {c} : Same(d)
  PROVE  Service!End(c)
<1>1. /\ pc[c] = "inactive" /\ pc'[c] = "idle" /\ left[c] = 0
      /\ results' = results /\ sent' = sent
  BY DEF SetInactive, Goto, TypeOK, TypeHandler, AllGot
<1>2. /\ InScan(c) /\ InScan(c)' = FALSE /\ NextOf(c)' = 0
      /\ AnswerOf(c)' = AnswerOf(c)
  BY <1>1 DEF InScan, AnswerOf, NextOf
<1>3. NextOf(c) = ScanLen[c]
  BY <1>1, <1>2 DEF NextOf, Expected, NoCamping
<1>4. openMap[c] /\ openMap' = [openMap EXCEPT ![c] = FALSE]
  BY <1>2, Mapped, MappedNext DEF Same
<1>5. nextMap[c] = ScanLen[c] /\ nextMap' = [nextMap EXCEPT ![c] = 0]
  BY <1>2, <1>3, Mapped, MappedNext DEF Same
<1>6. UNCHANGED <<flightMap, answerMap>>
  BY <1>1, <1>2, Mapped, MappedNext DEF Same
<1>7. QED BY <1>4, <1>5, <1>6 DEF Service!End

(* All else a handler does is not seen.                                    *)
LEMMA ServeUnseen ==
  ASSUME TypeOK, MayStop = {}, NoCamping, Stays, Stays', NEW c \in Channels,
         Stage(c), Handler(c), ~StartScan(c), ~SendResults(c), ~SetInactive(c)
  PROVE  Same(c)
<1>1. /\ pc \in [Channels -> HandlerPoint] /\ left[c] \in Int
      /\ left \in [Channels -> Int] /\ ScanLen[c] \in Nat
  BY DEF TypeOK, TypeHandler
<1>2. CASE SetActive(c)
  <2>1. pc[c] = "idle" BY <1>2 DEF SetActive
  <2>2. ~Camping(scan[c])
    BY <2>1, AtStart DEF Quiet, Running, Going, Began, Camping, NoCamping
  <2>3. pc'[c] = "activate" /\ UNCHANGED <<left, results, sent>>
    BY <1>1, <1>2, <2>2 DEF SetActive, Goto
  <2>4. QED BY <2>1, <2>3 DEF Same, InScan, NextOf, AnswerOf
<1>3. CASE EndGetData(c)
  <2>1. /\ pc[c] = "sending" /\ pc'[c] \in {"setpar", "inactive"}
        /\ left'[c] = left[c] - 1 /\ UNCHANGED <<results, sent>>
    BY <1>1, <1>3 DEF EndGetData, Goto, NoCamping
  <2>2. QED
    BY <1>1, <2>1 DEF Same, InScan, NextOf, AnswerOf, Expected, NoCamping
<1>4. CASE \/ AwaitTriggerEnd(c) \/ StoreParameters(c) \/ TakeParameters(c)
           \/ CompareParameters(c) \/ SetReady(c) \/ TriggerSwing(c)
           \/ GetData(c) \/ Register(c)
  <2>1. /\ \/ pc[c] = "activate" /\ pc'[c] = "newscan"
           \/ {pc[c], pc'[c]} \subseteq {"setpar", "parwait", "ready",
                                         "readywait", "getdata", "datawait"}
        /\ UNCHANGED <<left, results, sent>>
    <3>1. pc'[c] # "dead" /\ pc'[c] # "quit"
      BY DEF Stays, Away, Leaving
    <3>2. /\ UNCHANGED <<left, results, sent>>
          /\ \/ pc[c] = "activate" /\ pc'[c] = "newscan"
             \/ /\ pc[c] \in {"setpar", "parwait", "ready", "readywait",
                              "getdata"}
                /\ pc'[c] \in {"setpar", "parwait", "ready", "readywait",
                               "getdata", "datawait", "dead",
                               "quit"}
      <4>1. CASE \/ AwaitTriggerEnd(c) \/ StoreParameters(c)
                 \/ TakeParameters(c) \/ CompareParameters(c)
        BY <1>1, <4>1 DEF AwaitTriggerEnd, StoreParameters, handler,
           TakeParameters, CompareParameters, Goto, chan
      <4>2. CASE SetReady(c) \/ TriggerSwing(c)
        BY <1>1, <4>2 DEF SetReady, TriggerSwing, Goto, chan
      <4>3. CASE GetData(c)
        BY <1>1, <4>3 DEF GetData, Goto
      <4>4. CASE Register(c)
        BY <1>1, <4>4 DEF Register, Goto, chan
      <4>5. QED BY <1>4, <4>1, <4>2, <4>3, <4>4
    <3>3. QED BY ONLY <3>1, <3>2
  <2>2. QED BY <2>1 DEF Same, InScan, NextOf, AnswerOf, Expected
<1>5. CASE \/ Quit(c) \/ LoseConnection(c) \/ AwaitTrigger(c) \/ Unlist(c)
           \/ EndQuit(c)
  BY <1>1, <1>5 DEF Quit, LoseConnection, AwaitTrigger, Unlist, EndQuit, Goto,
     Stays, Away, Leaving
<1>6. QED BY <1>2, <1>3, <1>4, <1>5 DEF Handler, Serve

(* A trigger takes the next period of a channel, when a swing is free.     *)
LEMMA TakesNext ==
  ASSUME TypeOK, NoCamping, Stays, NEW c \in Channels, Stage(c),
         main = "fire", c \in channels, ~IsLastPeriod(scan[c])
  PROVE  /\ InScan(c) /\ Len(results[c]) < 2
         /\ NextOf(c) + Len(results[c]) = Upcoming(c)
         /\ Upcoming(c) < ScanLen[c]
<1>1. /\ scan[c].period \in Nat /\ scan[c].len \in Nat /\ ScanLen[c] \in Nat
      /\ left[c] \in Int
  BY DEF TypeOK, TypeChan, TypeHandler, Scan
<1>2. ~Gone(c)
  BY DEF Gone, Stays, Away
<1>3. ~Lost(c)
  BY DEF Lost, At, Rest
<1>4. ASSUME Began(c), Owes(c, Remaining(c)), pc[c] \in {"getdata", "datawait"}
      PROVE  /\ InScan(c) /\ NextOf(c) = scan[c].period
             /\ scan[c].period < ScanLen[c]
             /\ ~scan[c].pre => /\ Upcoming(c) = scan[c].period + 1
                                /\ Upcoming(c) < ScanLen[c]
  <2>1. scan[c].len = ScanLen[c] /\ ~Camping(scan[c])
    BY <1>4 DEF Began, Camping, NoCamping
  <2>2. left[c] = ScanLen[c] - scan[c].period
    BY <1>4, <2>1 DEF Owes, Remaining
  <2>3. QED
    BY <1>1, <1>4, <2>1, <2>2 DEF InScan, NextOf, Expected, NoCamping, Began,
       Upcoming, NextPeriod, IsLastPeriod
<1>5. CASE Primed(c)
  <2>1. /\ Began(c) /\ scan[c].pre /\ NoResults(c) /\ Owes(c, Remaining(c))
        /\ pc[c] \in {"getdata", "datawait"}
    BY <1>2, <1>5 DEF Primed, Start1, Fetch
  <2>2. Upcoming(c) = scan[c].period /\ Len(results[c]) = 0
    BY <2>1 DEF Upcoming, NoResults
  <2>3. QED BY <1>1, <1>4, <2>1, <2>2
<1>6. CASE Shot(c)
  <2>1. /\ Began(c) /\ ~scan[c].pre /\ Owes(c, Remaining(c))
        /\ pc[c] \in {"getdata", "datawait"} /\ Len(results[c]) = 1
    BY <1>2, <1>6 DEF Shot, Going, Fetch, Pending, One
  <2>2. QED BY <1>1, <1>4, <2>1
<1>7. QED BY <1>3, <1>5, <1>6, AtFire

LEMMA ServeFire ==
  ASSUME StageInv, NoCamping, Stays, Fire
  PROVE  \/ \E S \in SUBSET Channels, b \in BOOLEAN : Service!Take(S, b)
         \/ UNCHANGED <<openMap, nextMap, flightMap, answerMap>>
<1> DEFINE new(c) == /\ c \in channels /\ radarActive[Rnum[c]]
                     /\ transmitting[Rnum[c]] /\ ~IsLastPeriod(scan[c])
           S == {c \in Channels : new(c)}
<1>1. /\ main = "fire" /\ handler' = handler /\ fire \in BOOLEAN /\ TypeOK
      /\ main' = "crashed" => results' = results
  BY DEF Fire, StageInv, TypeOK, TypeRhm
<1>2. \A c \in Channels : /\ InScan(c)' = InScan(c) /\ NextOf(c)' = NextOf(c)
                          /\ AnswerOf(c)' = AnswerOf(c)
  BY <1>1 DEF handler, InScan, NextOf, AnswerOf, Expected
<1>3. UNCHANGED <<openMap, nextMap, answerMap>>
  BY <1>2, Mapped, MappedNext
<1>4. CASE main' = "crashed" \/ S = {}
  <2>1. \A c \in Channels : results'[c] = results[c]
    BY <1>1, <1>4, FireData
  <2>2. QED BY <1>2, <2>1, StepStutters
<1>5. CASE main' # "crashed" /\ S # {}
  <2>1. ASSUME NEW c \in S
        PROVE  /\ openMap[c] /\ Len(flightMap[c]) < 2
               /\ nextMap[c] + Len(flightMap[c]) < ScanLen[c]
               /\ Taken(results'[c]) = Append(flightMap[c],
                    [of |-> nextMap[c] + Len(flightMap[c]), fired |-> fire])
    <3>1. c \in Channels /\ new(c) /\ Stage(c) /\ results[c] \in Seq(Result)
      BY <1>1, <2>1 DEF StageInv, Stages, TypeOK, TypeChan
    <3>2. /\ InScan(c) /\ Len(results[c]) < 2
          /\ NextOf(c) + Len(results[c]) = Upcoming(c)
          /\ Upcoming(c) < ScanLen[c]
      BY <1>1, <3>1, TakesNext
    <3>3. /\ openMap[c] = InScan(c) /\ nextMap[c] = NextOf(c)
          /\ flightMap[c] = Taken(results[c])
          /\ Len(flightMap[c]) = Len(results[c])
      BY <3>1, Mapped, TakenAt
    <3>4. PICK e \in Result : /\ e.of = Upcoming(c) /\ e.fired = fire
                              /\ results'[c] = <<e>> \o results[c]
      BY <1>1, <1>5, <3>1, FireData
    <3>5. Taken(results'[c]) = Append(flightMap[c], PeriodIn(e))
      BY <3>1, <3>3, <3>4, TakenNew
    <3>6. PeriodIn(e) = [of |-> nextMap[c] + Len(flightMap[c]), fired |-> fire]
      BY <3>2, <3>3, <3>4 DEF PeriodIn
    <3>7. QED BY <3>2, <3>3, <3>5, <3>6
  <2>2. ASSUME NEW c \in Channels \ S
        PROVE  Taken(results'[c]) = flightMap[c]
    <3>1. results'[c] = results[c]
      BY <1>1, <1>5, <2>2, FireData
    <3>2. QED BY <3>1, Mapped
  <2> HIDE DEF S
  <2>3. S \in SUBSET Channels
    BY DEF S
  <2>4. flightMap' = [c \in Channels |->
          IF c \in S
          THEN Append(flightMap[c],
                 [of |-> nextMap[c] + Len(flightMap[c]), fired |-> fire])
          ELSE flightMap[c]]
    BY <2>1, <2>2, MappedNext
  <2>5. Service!Take(S, fire)
    BY <1>3, <1>5, <2>1, <2>4 DEF Service!Take, Service!MayTake,
       Service!Swings
  <2>6. QED BY <1>1, <2>3, <2>5
<1>6. QED BY <1>4, <1>5

LEMMA ServeMain ==
  ASSUME StageInv, NoCamping, Stays, Main
  PROVE  \/ \E S \in SUBSET Channels, b \in BOOLEAN : Service!Take(S, b)
         \/ UNCHANGED <<openMap, nextMap, flightMap, answerMap>>
<1>1. \A c \in Channels : /\ InScan(c)' = InScan(c) /\ NextOf(c)' = NextOf(c)
                          /\ AnswerOf(c)' = AnswerOf(c)
  BY MainHandlers DEF handler, InScan, NextOf, AnswerOf, Expected
<1>2. CASE Collect
  <2>1. TypeOK /\ (main' = "crashed" => results' = results)
    BY <1>2 DEF Collect, StageInv
  <2>2. ASSUME NEW c \in Channels
        PROVE  Taken(results'[c]) = Taken(results[c])
    <3>1. results[c] \in Seq(Result)
      BY <2>1 DEF TypeOK, TypeChan
    <3>2. \/ results'[c] = results[c]
          \/ /\ results[c] # <<>>
             /\ \E e \in Result :
                  /\ e.of = Last(results[c]).of
                  /\ e.fired = Last(results[c]).fired
                  /\ results'[c] = Append(Front(results[c]), e)
      BY <1>2, <2>1, CollectData
    <3>3. QED BY <3>1, <3>2, TakenFilled
  <2>3. QED BY <1>1, <2>2, StepStutters
<1>3. CASE ~Fire /\ ~Collect
  <2>1. results' = results
    BY <1>3 DEF Main, NoticeNew, NothingNew, AwaitSetPar, InitStart, InitEnd,
       Arm, LoopAgain, Start, Setup, Finish, Generate, ReadyClear, ReadyStore,
       Switch, AutoTrigger, End, AwaitActive, AddLast, AddNotActive,
       AddUpdate, AddSend, chan
  <2>2. QED BY <1>1, <2>1, StepStutters
<1>4. QED BY <1>2, <1>3, ServeFire

LEMMA ServeNext ==
  ASSUME MayStop = {}, NoCamping, ServeInv, ServeInv', Stays, Stays',
         [Next]_vars
  PROVE  [Service!Next]_(Service!svars)
<1>1. /\ StageInv /\ TypeOK /\ TypeOK'
      /\ \A c \in Channels : Stage(c) /\ AllGot(c) /\ Recorded(c)'
  BY DEF ServeInv, DataInv, StageInv, Stages
<1>2. CASE Main
  BY <1>1, <1>2, ServeMain DEF Service!Next, Service!svars
<1>3. ASSUME NEW c \in Channels, Handler(c)
      PROVE  [Service!Next]_(Service!svars)
  <2>1. \A d \in Channels \ {c} : Same(d)
    BY <1>1, <1>3, HandlerElsewhere, SameWhenOwn
  <2>2. \/ Service!Begin(c) \/ Service!Deliver(c) \/ Service!End(c)
        \/ Same(c)
    BY <1>1, <1>3, <2>1, ServeStart, ServeSend, ServeEnd, ServeUnseen
  <2>3. CASE Same(c)
    BY <2>1, <2>3, StepStutters DEF Same, Service!svars
  <2>4. QED BY <2>2, <2>3 DEF Service!Next
<1>4. CASE UNCHANGED vars
  <2>1. \A c \in Channels : Same(c)
    BY <1>4 DEF vars, handler, chan, Same, InScan, NextOf, AnswerOf, Expected
  <2>2. QED BY <2>1, StepStutters DEF Same, Service!svars
<1>5. QED BY <1>2, <1>3, <1>4 DEF Next

LEMMA ServeInit ==
  ASSUME Init
  PROVE  /\ Service!Init
         /\ MayStop = {} => ServeInv
<1>1. \A c \in Channels : /\ InScan(c) = FALSE /\ NextOf(c) = 0
                          /\ AnswerOf(c) = [of |-> -1, valid |-> FALSE]
                          /\ results[c] = <<>>
  <2>1. \A c \in Channels : /\ pc[c] = "idle" /\ results[c] = <<>>
                            /\ sent[c].label = -1 /\ sent[c].valid = FALSE
    BY DEF Init
  <2>2. \A c \in Channels : InScan(c) = FALSE
    BY <2>1 DEF InScan
  <2>3. QED BY <2>1, <2>2 DEF NextOf, AnswerOf
<1>2. \A c \in Channels : Taken(results[c]) = <<>>
  <2>1. <<>> \in Seq(Result) /\ Len(<<>>) = 0 OBVIOUS
  <2>2. Taken(<<>>) \in Seq(Takes) /\ Len(Taken(<<>>)) = 0
    BY <2>1, TakenAt
  <2>3. Taken(<<>>) = <<>> BY <2>2, EmptySeq
  <2>4. QED BY <1>1, <2>3
<1>3. Service!Init
  BY <1>1, <1>2, Mapped DEF Service!Init
<1>4. ServeInv
  BY DataInit DEF ServeInv, AllGot, Init
<1>5. QED BY <1>3, <1>4

(* Every execution without a program that leaves, and without a handler    *)
(* that ends with an exception, is one of ScanService: the periods of      *)
(* every scan are taken in order and each once, never more than two ahead  *)
(* of the control program, and are answered in that order, flagged invalid *)
(* exactly when there was no time to transmit them.                        *)
THEOREM ServesScans ==
  ASSUME MayStop = {}, OwnFlags, NoCamping
  PROVE  Spec /\ []Stays => Service!Spec
<1>1. NoLateCamping BY DEF NoLateCamping, NoCamping
<1>2. Init => Service!Init /\ ServeInv BY ServeInit
<1>3. ServeInv /\ [Next]_vars => ServeInv' BY <1>1, ServeStep
<1>4. /\ ServeInv /\ ServeInv' /\ Stays /\ Stays' /\ [Next]_vars
      => [Service!Next]_(Service!svars)
  BY ServeNext
<1>5. QED BY <1>2, <1>3, <1>4, PTL DEF Spec, Service!Spec
----------------------------------------------------------------------------
(* A control program that is alone on the server.                          *)

Alone == \E c \in Channels : Channels = {c}

(* A scan does not start with its last beam, and there is time for its     *)
(* first period.                                                           *)
BeginsWell ==
  \A c \in Channels : \A p \in StartPeriods[c] :
    p \notin LatePeriods /\ (ScanLen[c] = 1 \/ p + 1 # ScanLen[c])

(* The main thread has not ended, and the program has not left; its handler*)
(* may have been overtaken while it sent results.                          *)
Alive(c) == main # "crashed" /\ pc[c] \notin Away \ {"dead"}

(* Its radar, and no other one, is active while the channel is on a list or*)
(* on its way there.                                                       *)
Switched(c) ==
  /\ \A r \in Radars : radarActive[r] => r = Rnum[c]
  /\ c \in channels \cup newChannels \/ pc[c] \in {"setpar", "parwait"}
     => radarActive[Rnum[c]]

(* No trigger starts without the channel, and its next scan waits for the  *)
(* end of the trigger that took it out of the list.                        *)
InTurn(c) ==
  /\ c \notin channels /\ main \notin Rest =>
       /\ main \in Prep \cup {"autotrigger", "end"} /\ c \notin newChannels
       /\ pc[c] \notin {"newscan", "setpar", "parwait"}
  /\ c \notin channels /\ main = "add" /\ c \in todo => pc[c] # "dead"
  /\ main \in {"awaitActive", "initialize", "initSend"} => newChannels # {}
  /\ main = "initSend" => todo \subseteq newChannels
  /\ pc[c] = "readywait" /\ main \in Rest \cup {"armed"}
     => wait[c] = nextSwing

(* nextSwingToTrigger moves with the active swing.                         *)
SwingsAgree ==
  /\ main \in Rest \cup {"armed"} => ~triggerRunning
  /\ nextSwing = IF main \in Fires \cup Prep THEN processingSwing
                                             ELSE activeSwing

(* The first trigger of a scan transmits its first period.                 *)
BeforeFirst(c) ==
  /\ main \in Rest \cup {"end", "armed", "setup"} \cup Fires => scan[c].pre
  /\ main \in {"setup", "autotrigger"} \cup Fires \cup Prep => fire
  /\ main \in Fires \cup Prep \cup {"autotrigger"} => transmitting[Rnum[c]]

FirstShot(c) ==
  /\ c \in channels /\ scan[c].first => BeforeFirst(c)
  /\ scan[c].pre => ~IsLastPeriod(scan[c])
  /\ scan[c].pre /\ scan[c].len # 0 => scan[c].period \notin LatePeriods
  /\ scan[c].post => /\ ~scan[c].first
                     /\ \A s \in Swing : state[c][s] # TRIGGER
  /\ transmitting[Rnum[c]] /\ main = "fire" => ~IsLastPeriod(scan[c])

(* What is on the air has an entry in resultDict_list, what was received   *)
(* has been labelled with a period, and there are pulse times for it.      *)
Received(c) ==
  /\ \A s \in Swing : c \in channels /\ state[c][s] = PROCESSING
                        => results[c] # <<>>
  /\ \A s \in Swing : state[c][s] = SAMPLES_READY =>
       Camping(scan[c]) \/ scan[c].period >= 1 \/ scan[c].post
  /\ \/ pulseTimes[Rnum[c]] # None
     \/ main = "readyStore" /\ transmitting[Rnum[c]] /\ fire
     \/ /\ scan[c].first
        /\ c \in channels => main \notin {"switch", "autotrigger"}

GoesOn(c) ==
  Alive(c) /\ Switched(c) /\ InTurn(c) /\ FirstShot(c) /\ Received(c)

AloneInv == StageInv /\ SwingsAgree /\ \A c \in Channels : GoesOn(c)
----------------------------------------------------------------------------
(* What the handler of the program does.                                   *)
LEMMA HandlerMainThread ==
  ASSUME NEW c \in Channels, Handler(c)
  PROVE  UNCHANGED <<rhm, swings, pulseTimes>>
BY DEF Handler, Serve, SetActive, AwaitTriggerEnd, StartScan, StoreParameters,
   TakeParameters, Register, CompareParameters, SetReady, TriggerSwing,
   GetData, SendResults, EndGetData, SetInactive, Quit, LoseConnection,
   AwaitTrigger, Unlist, EndQuit

(* GET_DATA finds a triggered swing ...                                    *)
LEMMA HasTriggered ==
  ASSUME TypeOK, NEW c \in Channels, Stage(c), pc[c] = "getdata"
  PROVE  triggered[c] # <<>>
<1>1. \A q : Fetch(c, q) => triggered[c] = q
  BY DEF Fetch
<1>2. \A x, y \in Swing : <<x>> # <<>> /\ <<x, y>> # <<>>
  OBVIOUS
<1>3. /\ activeSwing \in Swing /\ nextSwing \in Swing /\ lastSwing \in Swing
      /\ processingSwing \in Swing /\ ~Gone(c)
  BY DEF TypeOK, TypeSwings, lastSwing, Gone, Leaving
<1>4. /\ \A x \in Swing : ~Fetch(c, <<x>>)
      /\ \A x, y \in Swing : ~Fetch(c, <<x, y>>)
      => FALSE
  <2> SUFFICES ASSUME \A x \in Swing : ~Fetch(c, <<x>>),
                      \A x, y \in Swing : ~Fetch(c, <<x, y>>)
               PROVE  FALSE
    OBVIOUS
  <2>1. ~Fresh(c) /\ ~Primed(c) /\ ~Fired(c) /\ ~Lost(c) /\ ~Shot(c)
    BY <1>3 DEF Fresh, Primed, Fired, Lost, Shot
  <2>2. ~Running(c)
    BY <1>3 DEF Running, Triggered, Collected, Prepared
  <2>3. ASSUME NEW x \in Swing
        PROVE  ~Missed(c, x) /\ ~Ended(c, x) /\ ~Stuck(c, x)
    <3>1. 1 - x \in Swing OBVIOUS
    <3>2. QED BY <1>3, <3>1 DEF Missed, Ended, Stuck
  <2>4. ~Waiting(c) /\ ~Quiet(c) /\ pc[c] \notin Away
    BY DEF Waiting, Quiet, Away, Leaving
  <2>5. QED BY <2>1, <2>2, <2>3, <2>4 DEF Stage, Present, Absent, Leaves
<1>5. QED BY <1>1, <1>2, <1>4

(* ... and, when its samples are ready, the place of its channel is known. *)
LEMMA AtSamples ==
  ASSUME TypeOK, NEW c \in Channels, Stage(c), pc[c] = "datawait",
         state[c][wait[c]] = SAMPLES_READY
  PROVE  \/ c \in channels /\ Running(c) /\ Collected(c) /\ wait[c] = nextSwing
         \/ \E x \in Swing : Ended(c, x)
<1>1. \A x, y \in Swing : Last(<<x>>) = x /\ Last(<<x, y>>) = y
  <2>1. \A x \in Swing : Last(<<x>>) = x
    BY OneElement
  <2>2. \A x, y \in Swing : Last(<<x, y>>) = y
    BY PairEnds
  <2>3. QED BY <2>1, <2>2
<1>2. /\ activeSwing \in Swing /\ nextSwing \in Swing /\ lastSwing \in Swing
      /\ processingSwing \in Swing /\ ~Gone(c)
  BY DEF TypeOK, TypeSwings, lastSwing, Gone, Leaving
<1>3. /\ \A x \in Swing : Fetch(c, <<x>>) => wait[c] = x
      /\ \A x, y \in Swing : Fetch(c, <<x, y>>) => wait[c] = y
  BY <1>1 DEF Fetch
<1>4. ~Fresh(c) /\ ~Primed(c) /\ ~Fired(c) /\ ~Lost(c) /\ ~Shot(c)
  <2>1. ~Fresh(c) BY <1>2 DEF Fresh
  <2>2. ~Primed(c) BY <1>2, <1>3 DEF Primed
  <2>3. ~Fired(c) BY <1>2, <1>3 DEF Fired
  <2>4. ~Lost(c) BY <1>2, <1>3 DEF Lost
  <2>5. ~Shot(c) BY <1>2, <1>3 DEF Shot
  <2>6. QED BY <2>1, <2>2, <2>3, <2>4, <2>5
<1>5. Running(c) => Collected(c) /\ wait[c] = nextSwing
  BY <1>2, <1>3 DEF Running, Triggered, Collected, Prepared
<1>6. \A x \in Swing : ~Missed(c, x) /\ ~Stuck(c, x)
  BY <1>2, <1>3 DEF Missed, Stuck
<1>7. ~Waiting(c) /\ ~Quiet(c) /\ pc[c] \notin Away
  BY DEF Waiting, Quiet, Away, Leaving
<1>8. QED BY <1>4, <1>5, <1>6, <1>7 DEF Stage, Present, Absent, Leaves

(* No handler leaves, and none ends but for the one that is overtaken.     *)
Dies(c) == Uneven /\ Overtaken(c) /\ pc'[c] = "dead"

LEMMA SendsAlive ==
  ASSUME ~Preemptible, TypeOK, NEW c \in Channels, Stage(c), SendResults(c),
         FirstShot(c), Received(c)
  PROVE  pc'[c] = "sending" \/ Dies(c)
<1>1. /\ pc[c] = "datawait" /\ state[c][wait[c]] = SAMPLES_READY
      /\ main # "readyStore" /\ results[c] \in Seq(Result)
      /\ wait[c] \in Swing /\ scan[c].period \in Nat
  BY DEF SendResults, MayRun, MidUpdate, TypeOK, TypeChan, TypeHandler, Scan
<1>2. results[c] # <<>> /\ Last(results[c]).label # None /\ ~scan[c].first
  <2>1. ASSUME NEW k \in Nat, NEW s \in Swing, NEW t \in Swing, NEW l \in Label,
               One(c, s, k) \/ Two(c, t, l, s, k)
        PROVE  results[c] # <<>> /\ Last(results[c]).label = k
    <3> DEFINE q == results[c]
    <3>1. q \in Seq(Result) /\ (q = <<>> => Len(q) = 0)
      BY <1>1
    <3>2. /\ Len(q) \in {1, 2} /\ (Len(q) = 1 => q[1].label = k)
          /\ Len(q) = 2 => q[2].label = k
      BY <2>1 DEF One, Two, Filled
    <3> HIDE DEF q
    <3>3. q # <<>> /\ Last(q).label = k
      BY <3>1, <3>2 DEF Last
    <3>4. QED BY <3>3 DEF q
  <2>2. ASSUME Running(c), Collected(c), wait[c] = nextSwing
        PROVE  results[c] # <<>> /\ Last(results[c]).label # None
               /\ ~scan[c].first
    <3>1. /\ Two(c, lastSwing, None, nextSwing, Previous(c))
          /\ ~scan[c].first /\ ~scan[c].post
      BY <1>1, <2>2 DEF Collected, Gone, Leaving, Running, Going
    <3>2. Camping(scan[c]) \/ scan[c].period >= 1
      BY <1>1, <2>2, <3>1 DEF Received
    <3>3. Previous(c) \in Nat /\ lastSwing \in Swing /\ nextSwing \in Swing
      BY <1>1, <3>2 DEF Previous, lastSwing, TypeOK, TypeSwings
    <3>4. results[c] # <<>> /\ Last(results[c]).label = Previous(c)
      BY <2>1, <3>1, <3>3
    <3>5. QED BY <3>1, <3>3, <3>4
  <2>3. ASSUME NEW x \in Swing, Ended(c, x)
        PROVE  results[c] # <<>> /\ Last(results[c]).label # None
               /\ ~scan[c].first
    <3>1. One(c, x, scan[c].period) /\ scan[c].post
      BY <1>1, <2>3 DEF Ended, Over, Gone, Leaving
    <3>2. results[c] # <<>> /\ Last(results[c]).label = scan[c].period
      BY <1>1, <2>1, <3>1
    <3>3. QED BY <1>1, <3>1, <3>2 DEF FirstShot
  <2>4. QED BY <1>1, <2>2, <2>3, AtSamples
<1>3. pulseTimes[Rnum[c]] # None
  BY <1>1, <1>2 DEF Received
<1>4. /\ sent'[c] = Last(results[c]) /\ sentTimes'[c] = pulseTimes[Rnum[c]]
      /\ \/ /\ pc' = [pc EXCEPT ![c] = "dead"]
            /\ None \in {sentTimes'[c], sent'[c].label}
                 \/ TooFewTimes(c, sent'[c])
         \/ pc' = [pc EXCEPT ![c] = "sending"]
  BY <1>2 DEF SendResults, Goto, TypeOK, TypeHandler
<1>5. pulseTimes[Rnum[c]] \in Swing \cup {None} /\ sent'[c].swing \in Swing
      /\ pc \in [Channels -> HandlerPoint]
  <2>1. results[c][Len(results[c])] \in Result
    BY <1>1, <1>2
  <2>2. QED BY <1>4, <2>1 DEF Last, Result, TypeOK, TypeTimes, TypeHandler
<1>6. CASE pc' = [pc EXCEPT ![c] = "sending"]
  BY <1>5, <1>6
<1>7. CASE pc' = [pc EXCEPT ![c] = "dead"] /\ TooFewTimes(c, sent'[c])
  <2>1. Uneven /\ sent'[c].fired /\ sentTimes'[c] = 1 - sent'[c].swing
    BY <1>3, <1>4, <1>5, <1>7 DEF TooFewTimes
  <2>2. pc'[c] = "dead" /\ sent'[c].label # None
    BY <1>2, <1>4, <1>5, <1>7
  <2>3. QED BY <1>2, <2>1, <2>2 DEF Dies, Overtaken
<1>8. QED BY <1>2, <1>3, <1>4, <1>6, <1>7

(* A handler that ended or is on its way out does nothing any more.        *)
LEMMA HandlerAt ==
  ASSUME MayStop = {}, MayLeave = {}, NEW c \in Channels, GoesOn(c), Handler(c)
  PROVE  /\ pc[c] \notin Away
         /\ ~Quit(c) /\ ~LoseConnection(c) /\ ~AwaitTrigger(c)
         /\ ~Unlist(c) /\ ~EndQuit(c)
<1>1. /\ ~Quit(c) /\ ~LoseConnection(c) /\ ~AwaitTrigger(c)
      /\ ~Unlist(c) /\ ~EndQuit(c)
  BY DEF Quit, LoseConnection, AwaitTrigger, Unlist, EndQuit, GoesOn, Alive,
     Away, Leaving
<1>2. CASE \/ SetActive(c) \/ AwaitTriggerEnd(c) \/ StartScan(c)
           \/ StoreParameters(c) \/ TakeParameters(c) \/ Register(c)
           \/ CompareParameters(c)
  BY <1>1, <1>2 DEF SetActive, AwaitTriggerEnd, StartScan, StoreParameters,
     TakeParameters, Register, CompareParameters, Away, Leaving
<1>3. CASE \/ SetReady(c) \/ TriggerSwing(c) \/ GetData(c) \/ SendResults(c)
           \/ EndGetData(c) \/ SetInactive(c)
  BY <1>1, <1>3 DEF SetReady, TriggerSwing, GetData, SendResults, EndGetData,
     SetInactive, Away, Leaving
<1>4. QED BY <1>1, <1>2, <1>3 DEF Handler, Serve

LEMMA HandlerDies ==
  ASSUME MayStop = {}, MayLeave = {}, ~Preemptible, StageInv,
         NEW c \in Channels, Channels = {c}, GoesOn(c), Handler(c)
  PROVE  main' # "crashed" /\ (pc'[c] \notin Away \/ Dies(c))
<1>1. /\ TypeOK /\ Stage(c) /\ Counted /\ main' = main /\ main # "crashed"
      /\ pc[c] \notin Away /\ pc \in [Channels -> HandlerPoint]
      /\ FirstShot(c) /\ Received(c)
  BY HandlerAt, HandlerHardware DEF StageInv, Stages, GoesOn, Alive, TypeOK,
     TypeHandler
<1> USE DEF Away, Leaving
<1>2. CASE Register(c)
  <2>1. /\ pc[c] = "parwait" /\ state[c][wait[c]] = INACTIVE
    BY <1>2 DEF Register
  <2>2. c \notin channels \cup newChannels
    BY <1>1, <2>1, AtStart DEF Running, Prepared, Gone
  <2>3. Registered = {} /\ nRegistered = 0
    <3>1. Registered = {}
      BY <1>1, <2>1, <2>2 DEF Registered, TypeOK, TypeLists
    <3>2. QED BY <1>1, <3>1, FS_EmptySet DEF Counted
  <2>4. pc'[c] = "ready"
    BY <1>1, <1>2, <2>2, <2>3 DEF Register, First, Goto
  <2>5. QED BY <1>1, <2>4
<1>3. CASE GetData(c)
  <2>1. triggered[c] # <<>>
    BY <1>1, <1>3, HasTriggered DEF GetData
  <2>2. pc'[c] = "datawait"
    BY <1>1, <1>3, <2>1 DEF GetData, Goto
  <2>3. QED BY <1>1, <2>2
<1>4. CASE SendResults(c)
  BY <1>1, <1>4, SendsAlive
<1>5. CASE \/ SetActive(c) \/ AwaitTriggerEnd(c) \/ StartScan(c)
           \/ StoreParameters(c) \/ TakeParameters(c) \/ CompareParameters(c)
  BY <1>1, <1>5 DEF SetActive, AwaitTriggerEnd, StartScan, StoreParameters,
     TakeParameters, CompareParameters, Goto, handler
<1>6. CASE SetReady(c) \/ TriggerSwing(c) \/ EndGetData(c) \/ SetInactive(c)
  BY <1>1, <1>6 DEF SetReady, TriggerSwing, EndGetData, SetInactive, Goto
<1>7. QED BY <1>1, <1>2, <1>3, <1>4, <1>5, <1>6, HandlerAt DEF Handler, Serve

LEMMA AliveHandler ==
  ASSUME MayStop = {}, MayLeave = {}, ~Preemptible, StageInv,
         NEW c \in Channels, Channels = {c}, GoesOn(c), Handler(c)
  PROVE  Alive(c)'
BY HandlerDies DEF Alive, Dies

(* Where SET_ACTIVE, SET_INACTIVE and the end of GET_DATA find the channel.*)
LEMMA EndGetDataListed ==
  ASSUME TypeOK, NEW c \in Channels, Stage(c), EndGetData(c),
         pc'[c] \in {"setpar", "newscan", "parwait"}
  PROVE  c \in channels
<1>1. /\ pc[c] = "sending"
      /\ pc'[c] = "setpar" => left[c] > 1
      /\ pc'[c] \in {"setpar", "idle", "inactive"}
  BY DEF EndGetData, Goto, TypeOK, TypeHandler
<1>2. \A x \in Swing : ~Ended(c, x)
  BY <1>1 DEF Ended, Gone, Leaving, Fetch
<1>3. QED BY <1>1, <1>2, AtSending

LEMMA SwitchedHandler ==
  ASSUME MayStop = {}, MayLeave = {}, StageInv, NEW c \in Channels,
         Channels = {c},
         GoesOn(c), Handler(c)
  PROVE  Switched(c)'
<1>1. /\ TypeOK /\ Stage(c) /\ pc[c] \notin Away /\ Switched(c)
      /\ pc \in [Channels -> HandlerPoint] /\ Rnum[c] \in Radars
      /\ radarActive \in [Radars -> BOOLEAN]
  BY HandlerAt DEF StageInv, Stages, GoesOn, TypeOK, TypeHandler, TypeFlags
<1> USE DEF Away, Leaving
<1>2. CASE SetActive(c)
  <2>1. /\ radarActive' = IF Camping(scan[c])
                          THEN [radarActive EXCEPT ![Rnum[c]] = TRUE]
                          ELSE radarActive
        /\ pc'[c] = IF Camping(scan[c]) THEN "setpar" ELSE "activate"
        /\ UNCHANGED <<channels, newChannels>>
    BY <1>1, <1>2 DEF SetActive, Goto
  <2>2. QED BY <1>1, <2>1 DEF Switched
<1>3. CASE StartScan(c)
  <2>1. radarActive' = [radarActive EXCEPT ![Rnum[c]] = TRUE]
    BY <1>3 DEF StartScan
  <2>2. QED BY <1>1, <2>1 DEF Switched
<1>4. CASE SetInactive(c)
  <2>1. /\ pc[c] = "inactive" /\ pc'[c] = "idle" /\ newChannels' = newChannels
        /\ channels' = channels \ {c}
        /\ radarActive' = RadarActiveWithout(c, c \in channels)
    BY <1>1, <1>4 DEF SetInactive, Goto
  <2>2. c \notin newChannels
    BY <1>1, <2>1, AtSending
  <2>3. QED BY <1>1, <2>1, <2>2 DEF Switched, RadarActiveWithout
<1>5. CASE EndGetData(c)
  <2>1. UNCHANGED <<channels, newChannels, radarActive>>
    BY <1>5 DEF EndGetData, lists, flags
  <2>2. pc'[c] \in {"setpar", "parwait"} => c \in channels
    BY <1>1, <1>5, EndGetDataListed
  <2>3. QED BY <1>1, <2>1, <2>2 DEF Switched
<1>6. CASE \/ AwaitTriggerEnd(c) \/ StoreParameters(c) \/ TakeParameters(c)
           \/ Register(c)
  <2>1. /\ radarActive' = radarActive /\ channels' = channels
        /\ pc[c] = "parwait" \/ newChannels' = newChannels
        /\ newChannels' \subseteq newChannels \cup {c}
        /\ pc'[c] \in {"setpar", "parwait"} => pc[c] \in {"setpar", "parwait"}
    BY <1>1, <1>6 DEF AwaitTriggerEnd, StoreParameters, TakeParameters,
       Register, Goto, lists, flags, handler
  <2>2. QED BY <1>1, <2>1 DEF Switched
<1>7. CASE \/ CompareParameters(c) \/ SetReady(c) \/ TriggerSwing(c)
           \/ GetData(c) \/ SendResults(c)
  <2>1. /\ UNCHANGED <<radarActive, channels, newChannels>>
        /\ pc'[c] \notin {"setpar", "parwait"}
    BY <1>1, <1>7 DEF CompareParameters, SetReady, TriggerSwing, GetData,
       SendResults, Goto, lists, flags
  <2>2. QED BY <1>1, <2>1 DEF Switched
<1>8. QED
  BY <1>2, <1>3, <1>4, <1>5, <1>6, <1>7, HandlerAt DEF Handler, Serve

LEMMA InTurnHandler ==
  ASSUME MayStop = {}, MayLeave = {}, StageInv, SwingsAgree, NEW c \in Channels,
         Channels = {c}, GoesOn(c), Handler(c)
  PROVE  InTurn(c)'
<1>1. /\ TypeOK /\ Stage(c) /\ pc[c] \notin Away /\ InTurn(c) /\ Aligned
      /\ pc \in [Channels -> HandlerPoint] /\ main # "crashed"
      /\ UNCHANGED <<main, todo, nextSwing, triggerRunning>>
      /\ wait \in [Channels -> Swing] /\ main \in MainPoint
  BY HandlerAt, HandlerMainThread DEF StageInv, Stages, GoesOn, Alive, TypeOK,
     TypeHandler, TypeRhm, rhm, swings
<1> USE DEF Away, Leaving
<1>2. /\ newChannels \subseteq newChannels'
      /\ c \in newChannels' => c \in newChannels \/ pc[c] = "parwait"
      /\ c \in channels /\ c \notin channels' =>
           pc[c] = "inactive" /\ pc'[c] = "idle"
      /\ pc'[c] = "readywait" => wait'[c] = nextSwing \/ UNCHANGED <<pc, wait>>
      /\ pc'[c] \in {"newscan", "setpar", "parwait"} =>
           \/ pc[c] \in {"newscan", "setpar", "parwait"}
           \/ pc[c] = "activate" /\ ~triggerRunning
           \/ c \in channels /\ channels' = channels
           \/ pc[c] = "idle" /\ Camping(scan[c])
  <2>1. CASE SetInactive(c) \/ SetReady(c) \/ Register(c)
    BY <1>1, <2>1 DEF SetInactive, SetReady, Register, Goto, lists, handler
  <2>2. CASE EndGetData(c)
    <3>1. /\ UNCHANGED <<lists, wait>> /\ pc'[c] # "readywait"
      BY <1>1, <2>2 DEF EndGetData, Goto
    <3>2. pc'[c] \in {"setpar", "newscan", "parwait"} => c \in channels
      BY <1>1, <2>2, EndGetDataListed
    <3>3. QED BY <3>1, <3>2 DEF lists
  <2>3. CASE SetActive(c) \/ AwaitTriggerEnd(c) \/ StartScan(c)
             \/ StoreParameters(c) \/ TakeParameters(c)
    BY <1>1, <2>3 DEF SetActive, AwaitTriggerEnd, StartScan, StoreParameters,
       TakeParameters, Goto, lists, handler
  <2>4. CASE \/ CompareParameters(c) \/ TriggerSwing(c) \/ GetData(c)
             \/ SendResults(c)
    BY <1>1, <2>4 DEF CompareParameters, TriggerSwing, GetData, SendResults,
       Goto, lists
  <2>5. QED BY <2>1, <2>2, <2>3, <2>4, HandlerAt DEF Handler, Serve
<1>3. c \in channels => c \notin newChannels
  BY <1>1 DEF Stage
<1>4. ASSUME c \notin channels', main \notin Rest
      PROVE  /\ main \in Prep \cup {"autotrigger", "end"} /\ c \notin newChannels'
             /\ pc'[c] \notin {"newscan", "setpar", "parwait"}
  <2>1. CASE c \in channels
    <3>1. pc[c] = "inactive" /\ pc'[c] = "idle"
      BY <1>2, <1>4, <2>1
    <3>2. Leaves(c)
      <4>1. ~Collected(c)
        BY <3>1 DEF Collected, Gone, Fetch
      <4>2. QED BY <1>1, <2>1, <3>1, <4>1, AtSending
    <3>3. main = "add"
      BY <1>1, <3>2 DEF Leaves, At
    <3>4. QED BY <1>2, <1>3, <2>1, <3>1, <3>3 DEF Prep
  <2>2. CASE c \notin channels
    <3>1. /\ main \in Prep \cup {"autotrigger", "end"} /\ c \notin newChannels
          /\ pc[c] \notin {"newscan", "setpar", "parwait"} /\ triggerRunning
      BY <1>1, <1>4, <2>2 DEF InTurn, Aligned
    <3>2. pc[c] = "idle" => ~Camping(scan[c])
      BY <1>1, <2>2, AtStart DEF Quiet
    <3>3. QED BY <1>2, <2>2, <3>1, <3>2
  <2>3. QED BY <2>1, <2>2
<1>5. pc'[c] = "readywait" /\ main \in Rest \cup {"armed"}
      => wait'[c] = nextSwing
  BY <1>1, <1>2 DEF InTurn
<1>6. ASSUME c \notin channels', main = "add", c \in todo
      PROVE  pc'[c] # "dead"
  <2>1. CASE c \in channels
    BY <1>2, <1>6, <2>1
  <2>2. CASE c \notin channels
    <3>1. pc[c] \in {"idle", "activate"}
      BY <1>1, <1>6, <2>2 DEF Stage, PassedBy
    <3>2. ~Register(c) /\ ~GetData(c) /\ ~SendResults(c)
      BY <3>1 DEF Register, GetData, SendResults
    <3>3. CASE \/ SetActive(c) \/ AwaitTriggerEnd(c) \/ StartScan(c)
               \/ StoreParameters(c) \/ TakeParameters(c)
               \/ CompareParameters(c)
      BY <1>1, <3>3 DEF SetActive, AwaitTriggerEnd, StartScan,
         StoreParameters, TakeParameters, CompareParameters, Goto
    <3>4. CASE SetReady(c) \/ TriggerSwing(c) \/ EndGetData(c) \/ SetInactive(c)
      BY <1>1, <3>4 DEF SetReady, TriggerSwing, EndGetData, SetInactive, Goto
    <3>5. QED BY <3>2, <3>3, <3>4, HandlerAt DEF Handler, Serve
  <2>3. QED BY <2>1, <2>2
<1>7. QED BY <1>1, <1>2, <1>4, <1>5, <1>6 DEF InTurn

(* What a handler does to the scan of its channel.                         *)
KeepsScan(c) ==
  /\ scan'[c].len = scan[c].len /\ scan'[c].period = scan[c].period
  /\ scan'[c].pre = scan[c].pre /\ scan'[c].post = scan[c].post
  /\ scan'[c].first = scan[c].first

LEMMA HandlerScan ==
  ASSUME TypeOK, NEW c \in Channels, Stage(c), Handler(c)
  PROVE  \/ KeepsScan(c)
         \/ /\ \E p \in StartPeriods[c] : scan'[c] = InitNewScan(ScanLen[c], p)
            /\ BothInactive(c) /\ BothInactive(c)' /\ NoResults(c)
            /\ c \notin channels' \cup newChannels'
<1>1. scan \in [Channels -> Scan]
  BY DEF TypeOK, TypeChan
<1>2. CASE StartScan(c)
  <2>1. /\ pc[c] = "newscan" /\ UNCHANGED <<state, lists>>
        /\ \E p \in StartPeriods[c] : scan'[c] = InitNewScan(ScanLen[c], p)
    BY <1>1, <1>2 DEF StartScan
  <2>2. Quiet(c) /\ c \notin channels \cup newChannels
    <3>1. ~Prepared(c)
      BY <2>1 DEF Prepared, Gone, Leaving
    <3>2. QED BY <2>1, <3>1, AtStart
  <2>3. QED BY <2>1, <2>2 DEF Quiet, BothInactive, lists
<1>3. CASE StoreParameters(c)
  <2>1. scan'[c] = [scan[c] EXCEPT !.initPar = FALSE]
    BY <1>1, <1>3 DEF StoreParameters
  <2>2. QED BY <1>1, <2>1 DEF KeepsScan, Scan
<1>4. CASE ~StartScan(c) /\ ~StoreParameters(c)
  <2>1. scan'[c] = scan[c]
    BY <1>1, <1>4 DEF Handler, Serve, SetActive, AwaitTriggerEnd,
       TakeParameters, Register, CompareParameters, SetReady, TriggerSwing,
       GetData, SendResults, EndGetData, SetInactive, Quit, LoseConnection,
       AwaitTrigger, Unlist, EndQuit, chan
  <2>2. QED BY <2>1 DEF KeepsScan
<1>5. QED BY <1>2, <1>3, <1>4

LEMMA FirstShotHandler ==
  ASSUME BeginsWell, StageInv, NEW c \in Channels, GoesOn(c), Handler(c)
  PROVE  FirstShot(c)'
<1>1. /\ TypeOK /\ Stage(c) /\ FirstShot(c) /\ SetParExclusion
      /\ UNCHANGED <<main, fire, transmitting>>
      /\ scan[c] \in Scan
  BY HandlerMainThread DEF StageInv, Stages, GoesOn, TypeOK, TypeChan, rhm
<1>2. c \in channels' => c \in channels
  BY <1>1, HandlerLists
<1>3. CASE ~KeepsScan(c)
  <2>1. PICK p \in StartPeriods[c] : scan'[c] = InitNewScan(ScanLen[c], p)
    BY <1>1, <1>3, HandlerScan
  <2>2. c \notin channels'
    BY <1>1, <1>3, HandlerScan
  <2>3. /\ scan'[c].pre /\ ~scan'[c].post /\ ~IsLastPeriod(scan'[c])
        /\ scan'[c].period \notin LatePeriods
    BY <2>1 DEF InitNewScan, IsLastPeriod, Camping, BeginsWell
  <2>4. QED BY <2>2, <2>3 DEF FirstShot
<1>4. CASE KeepsScan(c)
  <2>1. /\ scan'[c].first = scan[c].first /\ scan'[c].pre = scan[c].pre
        /\ scan'[c].post = scan[c].post /\ scan'[c].len = scan[c].len
        /\ scan'[c].period = scan[c].period
        /\ IsLastPeriod(scan'[c]) <=> IsLastPeriod(scan[c])
    BY <1>4 DEF KeepsScan, IsLastPeriod, Camping
  <2>2. BeforeFirst(c) => BeforeFirst(c)'
    BY <1>1, <2>1 DEF BeforeFirst
  <2>3. ASSUME NEW s \in Swing, scan'[c].post, state'[c][s] = TRIGGER
        PROVE  FALSE
    <3>1. pc[c] = "readywait"
      BY <1>1, <2>1, <2>3, HandlerSwings DEF FirstShot
    <3>2. ~scan[c].post
      BY <1>1, <3>1, AtReady DEF Waiting, Fresh, Start1, Running, Going
    <3>3. QED BY <2>1, <2>3, <3>2
  <2>4. QED BY <1>1, <1>2, <2>1, <2>2, <2>3 DEF FirstShot
<1>5. QED BY <1>3, <1>4

LEMMA ReceivedHandler ==
  ASSUME MayLeave = {}, StageInv, NEW c \in Channels, GoesOn(c), Handler(c)
  PROVE  Received(c)'
<1>1. /\ TypeOK /\ Stage(c) /\ Received(c) /\ SetParExclusion
      /\ UNCHANGED <<main, fire, transmitting, pulseTimes>>
      /\ scan[c] \in Scan /\ results[c] \in Seq(Result) /\ nextSwing \in Swing
      /\ state \in [Channels -> [Swing -> ChannelState]]
  BY HandlerMainThread DEF StageInv, Stages, GoesOn, TypeOK, TypeChan, rhm,
     TypeSwings
<1>2. c \in channels' => c \in channels
  BY <1>1, HandlerLists
<1>3. \A s \in Swing :
        state'[c][s] \in {PROCESSING, SAMPLES_READY} =>
          state'[c][s] = state[c][s]
  BY <1>1, HandlerSwings
<1>4. ASSUME NEW s \in Swing, c \in channels, state[c][s] = PROCESSING
      PROVE  results'[c] # <<>>
  <2>1. results[c] # <<>>
    BY <1>1, <1>4 DEF Received
  <2>2. CASE SendResults(c)
    <3>1. /\ pc[c] = "datawait" /\ state[c][wait[c]] = SAMPLES_READY
          /\ results'[c] = Front(results[c])
      BY <1>1, <2>1, <2>2 DEF SendResults, TypeOK, TypeChan
    <3>2. \A x \in Swing : ~Ended(c, x)
      <4> SUFFICES ASSUME NEW x \in Swing, Ended(c, x) PROVE FALSE
        OBVIOUS
      <4>1. state[c][1 - x] = INACTIVE /\ state[c][x] # PROCESSING
        BY <3>1 DEF Ended, Gone, Leaving
      <4>2. s = x \/ s = 1 - x OBVIOUS
      <4>3. QED BY <1>4, <4>1, <4>2
    <3>3. Len(results[c]) = 2
      BY <1>1, <3>1, <3>2, AtSamples DEF Collected, Gone, Leaving, Two
    <3>4. Len(Front(results[c])) = 2 - 1
      BY <1>1, <2>1, <3>3, FrontAt
    <3>5. Len(results'[c]) # 0
      BY <3>1, <3>4
    <3>6. QED BY <3>5
  <2>3. CASE ~SendResults(c)
    <3>1. results'[c] = results[c]
      BY <2>3 DEF Handler, Serve, SetActive, AwaitTriggerEnd, StartScan,
         StoreParameters, TakeParameters, Register, CompareParameters,
         SetReady, TriggerSwing, GetData, EndGetData, SetInactive, Quit,
         LoseConnection, AwaitTrigger, Unlist, EndQuit, chan
    <3>2. QED BY <2>1, <3>1
  <2>4. QED BY <2>2, <2>3
<1>5. CASE ~KeepsScan(c)
  <2>1. scan'[c].first
    <3>1. PICK p \in StartPeriods[c] : scan'[c] = InitNewScan(ScanLen[c], p)
      BY <1>1, <1>5, HandlerScan
    <3>2. QED BY <3>1 DEF InitNewScan
  <2>2. c \notin channels' /\ BothInactive(c)'
    BY <1>1, <1>5, HandlerScan
  <2>3. \A s \in Swing : state'[c][s] = INACTIVE
    BY <2>2 DEF BothInactive
  <2>4. QED BY <2>1, <2>2, <2>3 DEF Received
<1>6. CASE KeepsScan(c)
  <2>1. /\ scan'[c].first = scan[c].first /\ scan'[c].post = scan[c].post
        /\ scan'[c].period = scan[c].period
        /\ Camping(scan'[c]) <=> Camping(scan[c])
    BY <1>6 DEF KeepsScan, Camping
  <2>2. QED BY <1>1, <1>2, <1>3, <1>4, <2>1 DEF Received
<1>7. QED BY <1>5, <1>6

LEMMA AloneHandler ==
  ASSUME MayStop = {}, MayLeave = {}, ~Preemptible, BeginsWell, AloneInv,
         NEW c \in Channels, Channels = {c}, Handler(c)
  PROVE  SwingsAgree' /\ GoesOn(c)'
<1>1. StageInv /\ SwingsAgree /\ GoesOn(c)
  BY DEF AloneInv
<1>2. SwingsAgree'
  BY <1>1, HandlerMainThread DEF SwingsAgree, rhm, swings
<1>3. QED
  BY <1>1, <1>2, AliveHandler, SwitchedHandler, InTurnHandler,
     FirstShotHandler, ReceivedHandler DEF GoesOn
----------------------------------------------------------------------------
(* What the main thread does.                                              *)

(* A trigger that starts finds the channel in the list, its radar active.  *)
LEMMA Listed ==
  ASSUME StageInv, NEW c \in Channels, GoesOn(c),
         main \in {"armed", "setup"} \cup Fires
  PROVE  /\ c \in channels /\ c \notin newChannels /\ radarActive[Rnum[c]]
         /\ commonPar # None
<1>1. c \in channels
  BY DEF GoesOn, InTurn, Rest, Fires, Prep
<1>2. c \notin newChannels
  BY <1>1 DEF StageInv, Stages, Stage
<1>3. commonPar = Par[c] /\ Par[c] \in Nat
  BY <1>1, ParAssumption DEF StageInv, Counted, Registered
<1>4. QED BY <1>1, <1>2, <1>3 DEF GoesOn, Switched

(* Nothing of what the main thread relies on is missing.                   *)
LEMMA AliveMain ==
  ASSUME StageInv, NEW c \in Channels, Channels = {c}, GoesOn(c), Main
  PROVE  Alive(c)'
<1>1. /\ TypeOK /\ Stage(c) /\ Counted /\ Alive(c) /\ pc' = pc
      /\ Switched(c) /\ InTurn(c) /\ Received(c)
      /\ Rnum[c] \in Radars /\ Par[c] \in Nat /\ channels \subseteq {c}
      /\ newChannels \subseteq {c}
  BY MainHandlers, ParAssumption DEF StageInv, Stages, GoesOn, handler, TypeOK,
     TypeLists
<1>2. c \in channels \cup newChannels => commonPar # None
  BY <1>1 DEF Counted, Registered
<1>3. CASE InitStart
  <2>1. c \in newChannels
    BY <1>1, <1>3 DEF InitStart, InTurn
  <2>2. main' = "initSend"
    BY <1>2, <1>3, <2>1 DEF InitStart
  <2>3. QED BY <1>1, <2>2 DEF Alive
<1>4. CASE InitEnd
  <2>1. todo \subseteq newChannels
    BY <1>1, <1>4 DEF InitEnd, InTurn
  <2>2. main' = "check"
    BY <1>4, <2>1 DEF InitEnd
  <2>3. QED BY <1>1, <2>2 DEF Alive
<1>5. CASE Start
  <2>1. commonPar # None
    BY <1>5, Listed DEF Start
  <2>2. main' = "setup"
    BY <1>5, <2>1 DEF Start
  <2>3. QED BY <1>1, <2>2 DEF Alive
<1>6. CASE Fire
  <2>1. main = "fire" /\ c \in channels /\ commonPar # None
    BY <1>6, Listed DEF Fire, Fires
  <2>2. ~ParametersLost
    BY <2>1 DEF ParametersLost
  <2>3. ~NoChannelBound
    <3> SUFFICES ASSUME NEW r \in ActiveRadars,
                        \A q \in ActiveRadars : q <= r => On(q) = {}
                 PROVE  FALSE
      BY DEF NoChannelBound
    <3>1. r = Rnum[c] /\ r \in Nat
      BY <1>1 DEF ActiveRadars, Switched
    <3>2. c \in On(r)
      BY <2>1, <3>1 DEF On
    <3>3. QED BY <3>1, <3>2
  <2>4. main' = "collect"
    BY <1>6, <2>2, <2>3 DEF Fire
  <2>5. QED BY <1>1, <2>4 DEF Alive
<1>7. CASE Collect
  <2>1. ASSUME NEW d \in Processing PROVE results[d] # <<>>
    <3>1. d = c /\ c \in channels /\ state[c][processingSwing] = PROCESSING
      BY <1>1, <2>1 DEF Processing
    <3>2. processingSwing \in Swing
      BY <1>1 DEF TypeOK, TypeSwings
    <3>3. QED BY <1>1, <3>1, <3>2 DEF Received
  <2>2. main' = "finish"
    BY <1>7, <2>1 DEF Collect
  <2>3. QED BY <1>1, <2>2 DEF Alive
<1>8. ASSUME NEW d \in Channels, AddUpdate(d)
      PROVE  Alive(c)'
  <2>1. /\ d = c /\ main = "add" /\ c \in todo /\ ~IsLastPeriod(scan[c])
        /\ main' = IF commonPar = None THEN "crashed" ELSE main
    BY <1>1, <1>8 DEF AddUpdate
  <2>2. c \in channels
    BY <1>1, <2>1 DEF Stage, PassedBy, Over, Alive, InTurn
  <2>3. QED BY <1>1, <1>2, <2>1, <2>2 DEF Alive
<1>9. CASE \/ NoticeNew \/ NothingNew \/ AwaitSetPar \/ Arm \/ LoopAgain
           \/ Setup \/ Finish \/ Generate \/ ReadyClear \/ ReadyStore
           \/ Switch \/ AutoTrigger \/ End
  BY <1>1, <1>9 DEF NoticeNew, NothingNew, AwaitSetPar, Arm, LoopAgain, Setup,
     Finish, Generate, ReadyClear, ReadyStore, Switch, AutoTrigger, End, Alive
<1>10. CASE \E d \in Channels : \/ AwaitActive(d) \/ AddLast(d)
                                \/ AddNotActive(d) \/ AddSend(d)
  BY <1>1, <1>10 DEF AwaitActive, AddLast, AddNotActive, AddSend, Alive
<1>11. QED BY <1>3, <1>4, <1>5, <1>6, <1>7, <1>8, <1>9, <1>10 DEF Main

(* The channel leaves the list when its scan is over and its program is at *)
(* GET_DATA, SET_INACTIVE, or about to start the next scan.                *)
LEMMA LeavesList ==
  ASSUME StageInv, NEW c \in Channels, GoesOn(c), AddLast(c), scan[c].post
  PROVE  c \notin newChannels /\ pc[c] \notin {"newscan", "setpar", "parwait"}
<1>1. /\ Stage(c) /\ InTurn(c) /\ main = "add" /\ TypeOK
      /\ pc[c] \notin Away \ {"dead"}
  BY DEF StageInv, Stages, GoesOn, AddLast, Alive
<1>2. CASE c \in channels
  <2>1. Leaves(c)
    BY <1>1, <1>2, AtAdd DEF Prep
  <2>2. pc[c] \notin {"newscan", "setpar", "parwait"}
    BY <1>1, <2>1 DEF Leaves, Ended, Stuck, Gone, Away, Fetch
  <2>3. QED BY <1>1, <1>2, <2>2 DEF Stage
<1>3. CASE c \notin channels
  BY <1>1, <1>3 DEF InTurn, Rest
<1>4. QED BY <1>2, <1>3

LEMMA SwitchedMain ==
  ASSUME StageInv, NEW c \in Channels, Channels = {c}, GoesOn(c), Main
  PROVE  Switched(c)'
<1>1. /\ TypeOK /\ Switched(c) /\ InTurn(c) /\ pc' = pc
      /\ radarActive \in [Radars -> BOOLEAN]
      /\ channels \subseteq Channels /\ newChannels \subseteq Channels
  BY MainHandlers DEF StageInv, GoesOn, handler, TypeOK, TypeFlags, TypeLists
<1>2. CASE AddLast(c) /\ scan[c].post
  <2>1. /\ channels' = channels \ {c} /\ newChannels' = newChannels
        /\ radarActive' = RadarActiveWithout(c, scan[c].post /\ c \in channels)
    BY <1>2 DEF AddLast
  <2>2. c \notin newChannels /\ pc[c] \notin {"setpar", "parwait"}
    BY <1>2, LeavesList
  <2>3. QED BY <1>1, <2>1, <2>2 DEF Switched, RadarActiveWithout
<1>3. CASE InitEnd
  <2>1. /\ radarActive' = radarActive
        /\ channels' \cup newChannels' \subseteq channels \cup newChannels
    BY <1>1, <1>3 DEF InitEnd, InTurn, flags
  <2>2. QED BY <1>1, <2>1 DEF Switched
<1>4. CASE ~InitEnd /\ ~(AddLast(c) /\ scan[c].post)
  <2>1. UNCHANGED <<radarActive, channels, newChannels>>
    <3>1. CASE \/ NoticeNew \/ NothingNew \/ AwaitSetPar \/ InitStart \/ Arm
               \/ LoopAgain \/ Start \/ Setup \/ Fire
      BY <3>1 DEF NoticeNew, NothingNew, AwaitSetPar, InitStart, Arm,
         LoopAgain, Start, Setup, Fire, lists, flags
    <3>2. CASE \/ Collect \/ Finish \/ Generate \/ ReadyClear \/ ReadyStore
               \/ Switch \/ AutoTrigger \/ End
      BY <3>2 DEF Collect, Finish, Generate, ReadyClear, ReadyStore, Switch,
         AutoTrigger, End, lists, flags
    <3>3. CASE \/ AwaitActive(c) \/ AddLast(c) \/ AddNotActive(c)
               \/ AddUpdate(c) \/ AddSend(c)
      BY <1>4, <3>3 DEF AwaitActive, AddLast, AddNotActive, AddUpdate,
         AddSend, lists, flags
    <3>4. QED BY <1>4, <3>1, <3>2, <3>3 DEF Main
  <2>2. QED BY <1>1, <2>1 DEF Switched
<1>5. QED BY <1>2, <1>3, <1>4

LEMMA SwingsAgreeMain ==
  ASSUME StageInv, SwingsAgree, NEW c \in Channels, GoesOn(c), Main,
         main' # "crashed"
  PROVE  SwingsAgree'
<1>1. /\ TypeOK /\ activeSwing \in Swing /\ nextSwing \in Swing
  BY DEF StageInv, TypeOK, TypeSwings
<1> USE DEF SwingsAgree, Rest, Fires, Prep
<1>2. CASE \/ NoticeNew \/ NothingNew \/ AwaitSetPar \/ InitStart \/ InitEnd
           \/ Arm \/ LoopAgain \/ \E d \in Channels : AwaitActive(d)
  BY <1>2 DEF NoticeNew, NothingNew, AwaitSetPar, InitStart, InitEnd, Arm,
     LoopAgain, AwaitActive, swings
<1>3. CASE Start \/ AutoTrigger \/ End
  BY <1>3 DEF Start, AutoTrigger, End, swings
<1>4. CASE Setup
  <2>1. main = "setup" /\ main' = "fire" /\ activeSwing' = activeSwing
        /\ nextSwing' = IF ActiveRadars = {} THEN nextSwing
                                             ELSE processingSwing
    BY <1>4 DEF Setup
  <2>2. Rnum[c] \in ActiveRadars
    BY <2>1, Listed DEF ActiveRadars
  <2>3. QED BY <2>1, <2>2
<1>5. CASE Fire \/ Collect
  BY <1>5 DEF Fire, Collect, swings
<1>6. CASE Finish \/ Generate \/ ReadyClear \/ ReadyStore
  BY <1>6 DEF Finish, Generate, ReadyClear, ReadyStore, swings
<1>7. CASE Switch
  <2>1. /\ main = "switch" /\ main' = "autotrigger" /\ nextSwing' = nextSwing
        /\ activeSwing' = processingSwing
    BY <1>7 DEF Switch
  <2>2. QED BY <1>1, <2>1
<1>8. ASSUME NEW d \in Channels,
             AddLast(d) \/ AddNotActive(d) \/ AddUpdate(d) \/ AddSend(d)
      PROVE  SwingsAgree'
  BY <1>8 DEF AddLast, AddNotActive, AddUpdate, AddSend, swings
<1>9. QED BY <1>2, <1>3, <1>4, <1>5, <1>6, <1>7, <1>8 DEF Main

LEMMA InTurnMain ==
  ASSUME StageInv, SwingsAgree, NEW c \in Channels, Channels = {c}, GoesOn(c),
         Main, Alive(c)'
  PROVE  InTurn(c)'
<1>1. /\ TypeOK /\ Stage(c) /\ InTurn(c) /\ pc' = pc /\ wait' = wait
      /\ main' # "crashed" /\ pc[c] \notin Away \ {"dead"}
      /\ channels \subseteq {c} /\ newChannels \subseteq {c}
  BY MainHandlers DEF StageInv, Stages, GoesOn, Alive, handler, TypeOK,
     TypeLists
<1> USE DEF InTurn, Rest, Fires, Prep
<1>2. CASE \/ NoticeNew \/ NothingNew \/ AwaitSetPar \/ InitStart
           \/ LoopAgain \/ \E d \in Channels : AwaitActive(d)
  BY <1>1, <1>2 DEF NoticeNew, NothingNew, AwaitSetPar, InitStart, LoopAgain,
     AwaitActive, lists, swings
<1>3. CASE InitEnd
  BY <1>1, <1>3 DEF InitEnd, swings
<1>4. CASE Arm
  <2>1. c \in channels
    BY <1>1, <1>4 DEF Arm, AllTriggered, ActiveStates
  <2>2. QED BY <1>1, <1>4, <2>1 DEF Arm, lists, swings
<1>5. CASE Start \/ Setup
  <2>1. c \in channels
    BY <1>5, Listed DEF Start, Setup
  <2>2. main' \in {"setup", "fire"} /\ channels' = channels
    BY <1>1, <1>5 DEF Start, Setup, lists
  <2>3. QED BY <1>1, <2>1, <2>2
<1>6. CASE Fire \/ Collect \/ Finish
  <2>1. c \in channels
    BY <1>6, Listed DEF Fire, Collect, Finish
  <2>2. main' \in {"collect", "finish", "add"} /\ channels' = channels
    BY <1>1, <1>6 DEF Fire, Collect, Finish, lists
  <2>3. QED BY <1>1, <2>1, <2>2
<1>7. CASE \/ Generate \/ ReadyClear \/ ReadyStore \/ Switch \/ AutoTrigger
  <2>1. /\ main' \in (Prep \cup {"autotrigger", "end"}) \ {"add"}
        /\ main \notin Rest /\ UNCHANGED lists
    BY <1>7 DEF Generate, ReadyClear, ReadyStore, Switch, AutoTrigger
  <2>2. QED BY <1>1, <2>1 DEF lists
<1>8. CASE End
  <2>1. main = "end" /\ main' = "loop" /\ UNCHANGED <<lists, swings>>
    BY <1>8 DEF End
  <2>2. pc[c] = "readywait" => wait[c] = nextSwing
    <3> SUFFICES ASSUME pc[c] = "readywait" PROVE wait[c] = nextSwing
      OBVIOUS
    <3>1. ~(c \in newChannels /\ c \notin channels)
      BY <1>1, <2>1
    <3>2. ~Fresh(c)
      BY <2>1 DEF Fresh, At
    <3>3. Prepared(c)
      BY <1>1, <3>1, <3>2, AtReady
    <3>4. QED BY <3>3 DEF Prepared, Gone, Leaving
  <2>3. QED BY <1>1, <2>1, <2>2 DEF lists, swings
<1>9. CASE AddLast(c)
  <2>1. /\ main = "add" /\ main' = main /\ newChannels' = newChannels
        /\ ~scan[c].post => channels' = channels
        /\ channels' \subseteq channels /\ todo' = todo \ {c}
    BY <1>9 DEF AddLast
  <2>2. CASE scan[c].post
    <3>1. c \notin newChannels /\ pc[c] \notin {"newscan", "setpar", "parwait"}
      BY <1>9, <2>2, LeavesList
    <3>2. QED BY <1>1, <2>1, <3>1
  <2>3. QED BY <1>1, <2>1, <2>2
<1>10. CASE AddNotActive(c) \/ AddUpdate(c) \/ AddSend(c)
  <2>1. /\ main = "add" /\ main' = "add" /\ UNCHANGED lists
        /\ todo' \subseteq todo
    BY <1>1, <1>10 DEF AddNotActive, AddUpdate, AddSend
  <2>2. QED BY <1>1, <2>1 DEF lists
<1>11. QED BY <1>2, <1>3, <1>4, <1>5, <1>6, <1>7, <1>8, <1>9, <1>10 DEF Main

(* A channel in the list has a scan.                                       *)
LEMMA HasScan ==
  ASSUME NEW c \in Channels, Stage(c), c \in channels, main # "crashed"
  PROVE  scan[c].len # 0
<1>1. Began(c)
  BY DEF Stage, Present, Fresh, Primed, Fired, Missed, Lost, Running, Shot,
     Leaves, Ended, Stuck, Start1, First1, Going, At, Rest, Prep, Fires
<1>2. QED BY <1>1 DEF Began

(* A step that changes neither the scan nor what the first trigger found.  *)
LEMMA FirstShotKept ==
  ASSUME NEW c \in Channels, FirstShot(c), UNCHANGED <<scan, transmitting>>,
         c \in channels' => c \in channels \/ (scan[c].pre /\ main' \in Rest),
         \A s \in Swing : state'[c][s] = TRIGGER => state[c][s] = TRIGGER,
         \/ /\ main' \in Rest \cup {"armed"}
            /\ main \in Rest \cup {"end"}
         \/ /\ main \in Fires /\ main' \in Fires \ {"fire"} /\ fire' = fire
         \/ /\ main \in Prep /\ main' \in Prep \cup {"autotrigger"}
            /\ fire' = fire
  PROVE  FirstShot(c)'
<1>1. IsLastPeriod(scan[c])' <=> IsLastPeriod(scan[c])
  BY DEF IsLastPeriod, Camping
<1>2. c \in channels' /\ scan'[c].first => BeforeFirst(c)'
  <2> SUFFICES ASSUME c \in channels', scan[c].first
               PROVE  BeforeFirst(c)'
    OBVIOUS
  <2>1. c \in channels => BeforeFirst(c)
    BY DEF FirstShot
  <2>2. CASE main' \in Rest \cup {"armed"} /\ main \in Rest \cup {"end"}
    BY <2>1, <2>2 DEF BeforeFirst, Rest, Fires, Prep
  <2>3. CASE main \in Fires /\ main' \in Fires \ {"fire"} /\ fire' = fire
    BY <2>1, <2>3 DEF BeforeFirst, Rest, Fires, Prep
  <2>4. CASE main \in Prep /\ main' \in Prep \cup {"autotrigger"}
             /\ fire' = fire
    BY <2>1, <2>4 DEF BeforeFirst, Rest, Fires, Prep
  <2>5. QED BY <2>2, <2>3, <2>4
<1>3. main' # "fire"
  BY DEF Rest, Fires, Prep
<1>4. QED BY <1>1, <1>2, <1>3 DEF FirstShot

LEMMA FirstShotMain ==
  ASSUME StageInv, NEW c \in Channels, Channels = {c}, GoesOn(c), Main,
         Alive(c)'
  PROVE  FirstShot(c)'
<1>1. /\ TypeOK /\ Stage(c) /\ Aligned /\ FirstShot(c) /\ InTurn(c)
      /\ main' # "crashed" /\ channels \subseteq {c} /\ newChannels \subseteq {c}
      /\ state \in [Channels -> [Swing -> ChannelState]]
      /\ scan \in [Channels -> Scan] /\ Rnum[c] \in Radars
      /\ activeSwing \in Swing /\ processingSwing \in Swing
  BY DEF StageInv, Stages, GoesOn, Alive, TypeOK, TypeLists, TypeChan,
     TypeSwings
<1>2. CASE \/ NoticeNew \/ NothingNew \/ AwaitSetPar \/ InitStart
           \/ LoopAgain \/ Arm \/ End \/ \E d \in Channels : AwaitActive(d)
  <2>1. /\ UNCHANGED <<scan, transmitting, channels, state>>
        /\ main' \in Rest \cup {"armed"} /\ main \in Rest \cup {"end"}
    BY <1>1, <1>2 DEF NoticeNew, NothingNew, AwaitSetPar, InitStart,
       LoopAgain, Arm, End, AwaitActive, lists, chan, Rest
  <2>2. QED BY <1>1, <2>1, FirstShotKept
<1>3. CASE InitEnd
  <2>1. /\ UNCHANGED <<scan, transmitting>> /\ main = "initSend"
        /\ main' = "check" /\ channels' = channels \cup todo
        /\ todo \subseteq newChannels
        /\ state' = PutSwing(state,
                      {d \in todo : state[d][activeSwing] = INACTIVE},
                      activeSwing, READY)
    BY <1>1, <1>3 DEF InitEnd
  <2>2. c \in newChannels => scan[c].pre
    BY <1>1 DEF Stage, Waiting, Start1
  <2>3. ASSUME NEW s \in Swing, state'[c][s] = TRIGGER
        PROVE  state[c][s] = TRIGGER
    <3> DEFINE S == {d \in todo : state[d][activeSwing] = INACTIVE}
    <3>1. state'[c][s] = IF c \in S /\ s = activeSwing THEN READY
                                                     ELSE state[c][s]
      <4>1. state' = PutSwing(state, S, activeSwing, READY)
        BY <2>1
      <4> HIDE DEF S
      <4>2. QED BY <1>1, <4>1 DEF PutSwing
    <3>2. QED BY <2>3, <3>1
  <2>4. main \in Rest /\ main' \in Rest
    BY <2>1 DEF Rest
  <2>5. QED BY <1>1, <2>1, <2>2, <2>3, <2>4, FirstShotKept
<1>4. CASE Start
  <2>1. /\ main = "armed" /\ main' = "setup" /\ c \in channels
        /\ UNCHANGED <<scan, transmitting, channels, state>>
        /\ fire' \/ MayBeLate
    BY <1>1, <1>4, Listed DEF Start, lists, chan
  <2>2. scan[c].first => scan[c].pre
    BY <1>1, <2>1 DEF FirstShot, BeforeFirst
  <2>3. scan[c].pre => ~MayBeLate
    <3> SUFFICES ASSUME scan[c].pre, MayBeLate PROVE FALSE
      OBVIOUS
    <3>1. scan[c].period \in LatePeriods
      BY <1>1 DEF MayBeLate, OnAir, Upcoming
    <3>2. QED BY <1>1, <2>1, <3>1, HasScan DEF FirstShot
  <2>4. scan'[c].first => BeforeFirst(c)'
    BY <2>1, <2>2, <2>3 DEF BeforeFirst, Fires, Prep
  <2>5. IsLastPeriod(scan[c])' <=> IsLastPeriod(scan[c])
    BY <2>1 DEF IsLastPeriod, Camping
  <2>6. QED BY <1>1, <2>1, <2>4, <2>5 DEF FirstShot
<1>5. CASE Setup
  <2>1. /\ main = "setup" /\ main' = "fire" /\ c \in channels
        /\ radarActive[Rnum[c]]
        /\ UNCHANGED <<scan, channels, state, fire>>
        /\ transmitting' = [r \in Radars |->
             radarActive[r] /\ \E d \in On(r) : ~IsLastPeriod(scan[d])]
    BY <1>1, <1>5, Listed DEF Setup, lists, chan
  <2>2. On(Rnum[c]) = {c}
    BY <1>1, <2>1 DEF On
  <2>3. transmitting'[Rnum[c]] <=> ~IsLastPeriod(scan[c])
    BY <1>1, <2>1, <2>2
  <2>4. IsLastPeriod(scan[c])' <=> IsLastPeriod(scan[c])
    BY <2>1 DEF IsLastPeriod, Camping
  <2>5. scan'[c].first => BeforeFirst(c)'
    BY <1>1, <2>1, <2>3 DEF FirstShot, BeforeFirst, Fires, Prep
  <2>6. QED BY <1>1, <2>1, <2>3, <2>4, <2>5 DEF FirstShot
<1>6. CASE Fire
  <2>1. /\ main = "fire" /\ main' = "collect"
        /\ UNCHANGED <<scan, transmitting, channels, fire>>
    BY <1>1, <1>6 DEF Fire, lists
  <2>2. ASSUME NEW s \in Swing, state'[c][s] = TRIGGER
        PROVE  state[c][s] = TRIGGER
    <3>1. /\ state'[c][processingSwing] = state[c][processingSwing]
          /\ \/ state'[c][activeSwing] = PROCESSING
             \/ state'[c][activeSwing] = state[c][activeSwing]
      BY <1>1, <1>6, FireEffect
    <3>2. s = activeSwing \/ s = processingSwing
      BY <1>1
    <3>3. QED BY <2>2, <3>1, <3>2
  <2>3. main \in Fires /\ main' \in Fires \ {"fire"}
    BY <2>1 DEF Fires
  <2>4. QED BY <1>1, <2>1, <2>2, <2>3, FirstShotKept
<1>7. CASE Collect
  <2>1. /\ UNCHANGED <<scan, transmitting, channels, fire, state>>
        /\ main \in Fires /\ main' \in Fires \ {"fire"}
    BY <1>1, <1>7 DEF Collect, lists, Fires
  <2>2. QED BY <1>1, <2>1, FirstShotKept
<1>8. CASE Finish
  <2>1. /\ main = "finish" /\ c \in channels /\ main' = "add"
        /\ UNCHANGED <<transmitting, channels, fire>>
    BY <1>8, Listed DEF Finish, lists, Fires
  <2>2. scan'[c] = PeriodFinished(scan[c])
    BY <1>1, <1>8, <2>1, FinishEffect
  <2>3. /\ ~scan'[c].pre /\ scan'[c].first = scan[c].first
        /\ scan'[c].post =>
             scan[c].post \/ (~scan[c].pre /\ IsLastPeriod(scan[c]))
    <3> DEFINE s == scan[c]
    <3>1. s \in Scan /\ scan'[c] = PeriodFinished(s)
      BY <1>1, <2>2
    <3> HIDE DEF s
    <3>2. \/ s.pre /\ scan'[c] = [s EXCEPT !.pre = FALSE]
          \/ ~s.pre /\ scan'[c] = s
          \/ ~s.pre /\ scan'[c] = [s EXCEPT !.period = @ + 1]
          \/ /\ ~s.pre /\ IsLastPeriod(s)
             /\ scan'[c] = [s EXCEPT !.post = TRUE]
      BY <3>1 DEF PeriodFinished
    <3>3. /\ ~scan'[c].pre /\ scan'[c].first = s.first
          /\ scan'[c].post => s.post \/ (~s.pre /\ IsLastPeriod(s))
      <4>1. CASE s.pre /\ scan'[c] = [s EXCEPT !.pre = FALSE]
        BY <3>1, <4>1 DEF Scan
      <4>2. CASE ~s.pre /\ scan'[c] = s
        BY <3>1, <4>2 DEF Scan
      <4>3. CASE ~s.pre /\ scan'[c] = [s EXCEPT !.period = @ + 1]
        BY <3>1, <4>3 DEF Scan
      <4>4. CASE /\ ~s.pre /\ IsLastPeriod(s)
                 /\ scan'[c] = [s EXCEPT !.post = TRUE]
        BY <3>1, <4>4 DEF Scan
      <4>5. QED BY <3>2, <4>1, <4>2, <4>3, <4>4
    <3>4. QED BY <3>3 DEF s
  <2>4. scan[c].first => BeforeFirst(c)
    BY <1>1, <2>1 DEF FirstShot
  <2>5. scan'[c].first => BeforeFirst(c)'
    BY <2>1, <2>3, <2>4 DEF BeforeFirst, Rest, Fires, Prep
  <2>6. ASSUME scan'[c].post
        PROVE  ~scan'[c].first /\ \A s \in Swing : state'[c][s] # TRIGGER
    <3>1. ~Fired(c) /\ (\A x \in Swing : ~Missed(c, x)) /\ ~Lost(c)
      BY <2>1, <2>3, <2>4, <2>6 DEF Fired, Missed, Lost, Start1, First1,
         BeforeFirst, Fires
    <3>2. Shot(c)
      BY <1>1, <2>1, <3>1, AtCollect
    <3>3. ~scan[c].first /\ state[c][processingSwing] = PROCESSING
      BY <1>1, <2>1, <3>2, OnlyShot DEF Shot, Going
    <3>4. /\ state'[c][processingSwing] = SAMPLES_READY
          /\ state'[c][activeSwing] = INACTIVE
      BY <1>1, <1>8, <2>1, <2>2, <2>6, <3>3, FinishEffect
    <3>5. \A s \in Swing : s = activeSwing \/ s = processingSwing
      BY <1>1
    <3>6. QED BY <2>3, <3>3, <3>4, <3>5
  <2>7. QED BY <2>1, <2>3, <2>5, <2>6 DEF FirstShot
<1>9. CASE \/ Generate \/ ReadyClear \/ ReadyStore \/ Switch
  <2>1. /\ UNCHANGED <<scan, transmitting, channels, fire, state>>
        /\ main \in Prep /\ main' \in Prep \cup {"autotrigger"}
    BY <1>1, <1>9 DEF Generate, ReadyClear, ReadyStore, Switch, lists, chan,
       Prep
  <2>2. QED BY <1>1, <2>1, FirstShotKept
<1>10. ASSUME NEW d \in Channels,
              AddLast(d) \/ AddNotActive(d) \/ AddUpdate(d) \/ AddSend(d)
       PROVE  FirstShot(c)'
  <2>1. /\ UNCHANGED <<scan, transmitting, fire>> /\ channels' \subseteq channels
        /\ main \in Prep /\ main' \in Prep
    BY <1>1, <1>10 DEF AddLast, AddNotActive, AddUpdate, AddSend, lists, chan,
       Prep
  <2>2. ASSUME NEW s \in Swing, state'[c][s] = TRIGGER
        PROVE  state[c][s] = TRIGGER
    BY <1>1, <1>10, <2>2 DEF AddLast, AddNotActive, AddUpdate, AddSend, chan
  <2>3. QED BY <1>1, <2>1, <2>2, FirstShotKept
<1>11. CASE AutoTrigger
  <2>1. /\ main = "autotrigger" /\ main' = "end" /\ channels' = channels
    BY <1>11 DEF AutoTrigger, lists
  <2>2. CASE c \in channels /\ transmitting[Rnum[c]] /\ scan[c].first
    <3>1. scan'[c] = [scan[c] EXCEPT !.first = FALSE]
      BY <1>1, <1>11, <2>2, AutoTriggerEffect
    <3>2. /\ ~scan'[c].first /\ scan'[c].pre = scan[c].pre
          /\ scan'[c].post = scan[c].post /\ scan'[c].period = scan[c].period
          /\ scan'[c].len = scan[c].len
      BY <1>1, <3>1 DEF Scan
    <3>3. ~scan[c].post
      BY <1>1, <2>2 DEF FirstShot
    <3>4. IsLastPeriod(scan'[c]) <=> IsLastPeriod(scan[c])
      BY <3>2 DEF IsLastPeriod, Camping
    <3>5. QED BY <1>1, <2>1, <3>2, <3>3, <3>4 DEF FirstShot
  <2>3. CASE ~(c \in channels /\ transmitting[Rnum[c]] /\ scan[c].first)
    <3>1. scan'[c] = scan[c] /\ state'[c] = state[c]
      BY <1>1, <1>11, <2>3, AutoTriggerEffect DEF Own
    <3>2. ~(c \in channels /\ scan[c].first)
      BY <1>1, <2>1, <2>3 DEF FirstShot, BeforeFirst
    <3>3. IsLastPeriod(scan[c])' <=> IsLastPeriod(scan[c])
      BY <3>1 DEF IsLastPeriod, Camping
    <3>4. QED BY <1>1, <2>1, <3>1, <3>2, <3>3 DEF FirstShot
  <2>4. QED BY <2>2, <2>3
<1>12. QED
  BY <1>2, <1>3, <1>4, <1>5, <1>6, <1>7, <1>8, <1>9, <1>10, <1>11 DEF Main

(* A step that receives nothing and sends no USRP_READY_DATA.              *)
LEMMA ReceivedKept ==
  ASSUME NEW c \in Channels, Received(c), UNCHANGED <<scan, pulseTimes>>,
         main # "readyStore", main' \notin {"switch", "autotrigger"},
         \A s \in Swing : c \in channels' /\ state'[c][s] = PROCESSING =>
           \/ results'[c] # <<>>
           \/ c \in channels /\ state[c][s] = PROCESSING
                /\ results'[c] = results[c],
         \A s \in Swing :
           state'[c][s] = SAMPLES_READY => state[c][s] = SAMPLES_READY
  PROVE  Received(c)'
<1>1. \A s \in Swing : c \in channels' /\ state'[c][s] = PROCESSING
                         => results'[c] # <<>>
  BY DEF Received
<1>2. \A s \in Swing : state'[c][s] = SAMPLES_READY =>
        Camping(scan'[c]) \/ scan'[c].period >= 1 \/ scan'[c].post
  BY DEF Received, Camping
<1>3. \/ pulseTimes'[Rnum[c]] # None
      \/ /\ scan'[c].first
         /\ c \in channels' => main' \notin {"switch", "autotrigger"}
  BY DEF Received
<1>4. QED BY <1>1, <1>2, <1>3 DEF Received

(* The samples collected are those of a period after the first.            *)
LEMMA ReceivedFinish ==
  ASSUME StageInv, NEW c \in Channels, GoesOn(c), Finish
  PROVE  Received(c)'
<1>1. /\ TypeOK /\ Stage(c) /\ Aligned /\ FirstShot(c) /\ Received(c)
      /\ main = "finish" /\ c \in channels /\ main' = "add"
      /\ UNCHANGED <<channels, pulseTimes, results>>
      /\ scan[c] \in Scan /\ activeSwing \in Swing /\ processingSwing \in Swing
  BY Listed DEF StageInv, Stages, GoesOn, Finish, lists, Fires, TypeOK,
     TypeChan, TypeSwings
<1>2. scan'[c] = PeriodFinished(scan[c])
  BY <1>1, FinishEffect
<1> DEFINE s == scan[c]
           t == scan'[c]
<1>3. s \in Scan /\ t = PeriodFinished(s)
  BY <1>1, <1>2
<1>4. /\ t.first = s.first /\ t.len = s.len /\ t.period >= s.period
      /\ s.post => t.post
      /\ ~s.pre => s.len = 1 \/ t.period >= 1 \/ t.post
  <2> HIDE DEF s, t
  <2>1. \/ s.pre /\ t = [s EXCEPT !.pre = FALSE]
        \/ ~s.pre /\ s.len = 1 /\ t = s
        \/ ~s.pre /\ t = [s EXCEPT !.period = @ + 1]
        \/ ~s.pre /\ t = [s EXCEPT !.post = TRUE]
    BY <1>3 DEF PeriodFinished, Camping
  <2>2. CASE s.pre /\ t = [s EXCEPT !.pre = FALSE]
    BY <1>3, <2>2 DEF Scan
  <2>3. CASE ~s.pre /\ s.len = 1 /\ t = s
    BY <1>3, <2>3 DEF Scan
  <2>4. CASE ~s.pre /\ t = [s EXCEPT !.period = @ + 1]
    BY <1>3, <2>4 DEF Scan
  <2>5. CASE ~s.pre /\ t = [s EXCEPT !.post = TRUE]
    BY <1>3, <2>5 DEF Scan
  <2>6. QED BY <2>1, <2>2, <2>3, <2>4, <2>5
<1>5. s.period \in Nat /\ t.period \in Int
  <2> HIDE DEF s, t
  <2>1. \/ t.period = s.period \/ t.period = s.period + 1
    BY <1>3 DEF PeriodFinished, Scan
  <2>2. QED BY <1>3, <2>1 DEF Scan
<1>6. CASE state[c][processingSwing] = PROCESSING
  <2>1. Shot(c)
    BY <1>1, <1>6, AtCollect, OnlyShot
  <2>2. ~s.pre
    BY <2>1 DEF Shot, Going
  <2>3. Camping(t) \/ t.period >= 1 \/ t.post
    BY <1>4, <2>2 DEF Camping
  <2>4. results[c] # <<>>
    BY <1>1, <1>6 DEF Received
  <2>5. QED BY <1>1, <1>4, <2>3, <2>4 DEF Received
<1>7. CASE state[c][processingSwing] # PROCESSING
  <2>1. state'[c] = state[c]
    BY <1>1, <1>7, FinishEffect
  <2>2. \A x \in Swing : state'[c][x] = SAMPLES_READY =>
          Camping(t) \/ t.period >= 1 \/ t.post
    <3>1. \A x \in Swing : state[c][x] = SAMPLES_READY =>
            s.len = 1 \/ s.period >= 1 \/ s.post
      BY <1>1 DEF Received, Camping
    <3> HIDE DEF s, t
    <3>2. QED BY <1>4, <1>5, <2>1, <3>1 DEF Camping
  <2>3. QED BY <1>1, <1>4, <2>1, <2>2 DEF Received
<1>8. QED BY <1>6, <1>7

LEMMA ReceivedMain ==
  ASSUME StageInv, NEW c \in Channels, Channels = {c}, GoesOn(c), Main,
         Alive(c)'
  PROVE  Received(c)'
<1>1. /\ TypeOK /\ Stage(c) /\ Aligned /\ FirstShot(c) /\ Received(c)
      /\ main' # "crashed" /\ newChannels \subseteq {c}
      /\ state \in [Channels -> [Swing -> ChannelState]]
      /\ results[c] \in Seq(Result) /\ Rnum[c] \in Radars
      /\ scan[c] \in Scan
      /\ pulseTimes \in [Radars -> Swing \cup {None}]
      /\ activeSwing \in Swing /\ processingSwing \in Swing
  BY DEF StageInv, Stages, GoesOn, Alive, TypeOK, TypeLists, TypeChan,
     TypeSwings, TypeTimes
<1>2. CASE \/ NoticeNew \/ NothingNew \/ AwaitSetPar \/ InitStart
           \/ LoopAgain \/ Arm \/ Start \/ Setup \/ End
           \/ \E d \in Channels : AwaitActive(d)
  <2>1. /\ UNCHANGED <<scan, pulseTimes, channels, state, results>>
        /\ main # "readyStore" /\ main' \notin {"switch", "autotrigger"}
    BY <1>1, <1>2 DEF NoticeNew, NothingNew, AwaitSetPar, InitStart,
       LoopAgain, Arm, Start, Setup, End, AwaitActive, lists, chan
  <2>2. QED BY <1>1, <2>1, ReceivedKept
<1>3. CASE InitEnd
  <2>1. /\ UNCHANGED <<scan, pulseTimes, results>> /\ main = "initSend"
        /\ main' = "check" /\ channels' = channels \cup todo
        /\ todo \subseteq newChannels
        /\ state' = PutSwing(state,
                      {d \in todo : state[d][activeSwing] = INACTIVE},
                      activeSwing, READY)
    BY <1>1, <1>3 DEF InitEnd
  <2>2. c \in newChannels => BothInactive(c)
    BY <1>1 DEF Stage, Waiting
  <2>3. \A s \in Swing : state'[c][s] = state[c][s] \/ state'[c][s] = READY
    <3> DEFINE S == {d \in todo : state[d][activeSwing] = INACTIVE}
    <3>1. state' = PutSwing(state, S, activeSwing, READY)
      BY <2>1
    <3> HIDE DEF S
    <3>2. QED BY <1>1, <3>1 DEF PutSwing
  <2>4. \A s \in Swing : c \in channels' /\ state'[c][s] = PROCESSING =>
          c \in channels
    BY <2>1, <2>2, <2>3 DEF BothInactive
  <2>5. QED BY <1>1, <2>1, <2>3, <2>4, ReceivedKept
<1>4. CASE Fire
  <2>1. /\ main = "fire" /\ main' = "collect"
        /\ UNCHANGED <<scan, channels, pulseTimes>>
    BY <1>1, <1>4 DEF Fire, lists
  <2> DEFINE on == c \in channels /\ radarActive[Rnum[c]]
                   /\ transmitting[Rnum[c]]
  <2>2. on => ~IsLastPeriod(scan[c])
    BY <1>1, <2>1 DEF FirstShot
  <2>3. /\ state'[c][processingSwing] = state[c][processingSwing]
        /\ state'[c][activeSwing] =
             IF on /\ state[c][activeSwing] = TRIGGER
             THEN PROCESSING ELSE state[c][activeSwing]
        /\ on => \E e \in Result : results'[c] = <<e>> \o results[c]
        /\ ~on => results'[c] = results[c]
    BY <1>1, <1>4, <2>2, FireEffect
  <2>4. \A e \in Result : <<e>> \o results[c] # <<>>
    BY <1>1
  <2>5. \A s \in Swing : s = activeSwing \/ s = processingSwing
    BY <1>1
  <2>6. \A s \in Swing : c \in channels' /\ state'[c][s] = PROCESSING =>
          \/ results'[c] # <<>>
          \/ c \in channels /\ state[c][s] = PROCESSING
               /\ results'[c] = results[c]
    BY <2>1, <2>3, <2>4, <2>5
  <2>7. \A s \in Swing :
          state'[c][s] = SAMPLES_READY => state[c][s] = SAMPLES_READY
    BY <2>3, <2>5
  <2>8. QED BY <1>1, <2>1, <2>6, <2>7, ReceivedKept
<1>5. CASE Collect
  <2>1. /\ main = "collect" /\ main' = "finish"
        /\ UNCHANGED <<scan, channels, pulseTimes, state>>
    BY <1>1, <1>5 DEF Collect, lists
  <2>2. \/ results'[c] = results[c]
        \/ /\ results[c] # <<>>
           /\ \E e \in Result : results'[c] = Append(Front(results[c]), e)
    BY <1>1, <1>5, CollectEffect
  <2>3. ASSUME NEW e \in Result, results[c] # <<>>
        PROVE  Append(Front(results[c]), e) # <<>>
    <3> DEFINE q == results[c]
               p == Front(q)
    <3>1. q \in Seq(Result) /\ q # <<>>
      BY <1>1, <2>3
    <3> HIDE DEF q
    <3>2. p \in Seq(Result)
      BY <3>1, FrontAt
    <3> HIDE DEF p
    <3>3. Append(p, e) # <<>>
      <4>1. Append(p, e) \in Seq(Result) /\ Append(p, e) # <<>>
        BY <3>2, AppendProperties
      <4>2. QED BY <4>1
    <3>4. QED BY <3>3 DEF p, q
  <2>4. results'[c] # <<>> \/ results'[c] = results[c]
    BY <2>2, <2>3
  <2>5. QED BY <1>1, <2>1, <2>4, ReceivedKept
<1>6. CASE Finish
  BY <1>6, ReceivedFinish
<1>7. CASE Generate
  <2>1. /\ UNCHANGED <<scan, pulseTimes, channels, state, results>>
        /\ main = "add" /\ main' = "ready"
    BY <1>7 DEF Generate, lists, chan
  <2>2. QED BY <1>1, <2>1, ReceivedKept
<1>8. CASE ReadyClear
  <2>1. /\ UNCHANGED <<scan, channels, state, results, fire, transmitting>>
        /\ main = "ready" /\ main' = "readyStore"
        /\ \/ transmitting[Rnum[c]] /\ fire
           \/ pulseTimes'[Rnum[c]] = pulseTimes[Rnum[c]]
    BY <1>1, <1>8 DEF ReadyClear, lists, chan, WithPulseTimes
  <2>2. Camping(scan[c])' <=> Camping(scan[c])
    BY <2>1 DEF Camping
  <2>3. QED BY <1>1, <2>1, <2>2 DEF Received
<1>9. CASE ReadyStore
  <2>1. /\ UNCHANGED <<scan, channels, state, results>>
        /\ main = "readyStore" /\ main' = "switch"
        /\ pulseTimes' = WithPulseTimes(
             {r \in Radars : transmitting[r] /\ fire /\ pulseTimes[r] = None},
             activeSwing)
    BY <1>9 DEF ReadyStore, lists, chan
  <2>2. /\ pulseTimes[Rnum[c]] # None => pulseTimes'[Rnum[c]] # None
        /\ transmitting[Rnum[c]] /\ fire => pulseTimes'[Rnum[c]] # None
    BY <1>1, <2>1 DEF WithPulseTimes
  <2>3. c \in channels /\ scan[c].first => transmitting[Rnum[c]] /\ fire
    BY <1>1, <2>1 DEF FirstShot, BeforeFirst, Prep
  <2>4. Camping(scan[c])' <=> Camping(scan[c])
    BY <2>1 DEF Camping
  <2>5. QED BY <1>1, <2>1, <2>2, <2>3, <2>4 DEF Received
<1>10. CASE Switch
  <2>1. /\ UNCHANGED <<scan, channels, state, results, pulseTimes>>
        /\ main = "switch" /\ main' = "autotrigger"
    BY <1>10 DEF Switch, lists, chan
  <2>2. Camping(scan[c])' <=> Camping(scan[c])
    BY <2>1 DEF Camping
  <2>3. QED BY <1>1, <2>1, <2>2 DEF Received
<1>11. CASE AutoTrigger
  <2>1. /\ main = "autotrigger" /\ main' = "end"
        /\ UNCHANGED <<channels, results, pulseTimes>>
    BY <1>11 DEF AutoTrigger, lists
  <2>2. CASE c \in channels /\ transmitting[Rnum[c]] /\ scan[c].first
    <3>1. /\ scan'[c] = [scan[c] EXCEPT !.first = FALSE]
          /\ state'[c] = [state[c] EXCEPT ![activeSwing] = TRIGGER]
      BY <1>1, <1>11, <2>2, AutoTriggerEffect
    <3>2. /\ scan'[c].post = scan[c].post /\ scan'[c].period = scan[c].period
          /\ scan'[c].len = scan[c].len
      BY <1>1, <3>1 DEF Scan
    <3>3. pulseTimes[Rnum[c]] # None
      BY <1>1, <2>1, <2>2 DEF Received
    <3>4. \A s \in Swing : state'[c][s] \in {PROCESSING, SAMPLES_READY} =>
            state'[c][s] = state[c][s]
      BY <1>1, <3>1
    <3>5. QED BY <1>1, <2>1, <3>2, <3>3, <3>4 DEF Received, Camping
  <2>3. CASE ~(c \in channels /\ transmitting[Rnum[c]] /\ scan[c].first)
    <3>1. scan'[c] = scan[c] /\ state'[c] = state[c]
      BY <1>1, <1>11, <2>3, AutoTriggerEffect DEF Own
    <3>2. QED BY <1>1, <2>1, <3>1 DEF Received, Camping
  <2>4. QED BY <2>2, <2>3
<1>12. ASSUME NEW d \in Channels,
              AddLast(d) \/ AddNotActive(d) \/ AddUpdate(d) \/ AddSend(d)
       PROVE  Received(c)'
  <2>1. /\ UNCHANGED <<scan, pulseTimes, results>> /\ channels' \subseteq channels
        /\ main = "add" /\ main' = "add"
    BY <1>1, <1>12 DEF AddLast, AddNotActive, AddUpdate, AddSend, lists, chan
  <2>2. ASSUME NEW s \in Swing, state'[c][s] \in {PROCESSING, SAMPLES_READY}
        PROVE  state[c][s] = state'[c][s]
    BY <1>1, <1>12, <2>2 DEF AddLast, AddNotActive, AddUpdate, AddSend, chan
  <2>3. QED BY <1>1, <2>1, <2>2, ReceivedKept
<1>13. QED
  BY <1>2, <1>3, <1>4, <1>5, <1>6, <1>7, <1>8, <1>9, <1>10, <1>11, <1>12
  DEF Main

LEMMA AloneMain ==
  ASSUME AloneInv, NEW c \in Channels, Channels = {c}, Main
  PROVE  SwingsAgree' /\ GoesOn(c)'
<1>1. StageInv /\ SwingsAgree /\ GoesOn(c)
  BY DEF AloneInv
<1>2. Alive(c)'
  BY <1>1, AliveMain
<1>3. main' # "crashed"
  BY <1>2 DEF Alive
<1>4. SwingsAgree'
  BY <1>1, <1>3, SwingsAgreeMain
<1>5. QED
  BY <1>1, <1>2, <1>4, SwitchedMain, InTurnMain, FirstShotMain, ReceivedMain
  DEF GoesOn
----------------------------------------------------------------------------
(* What holds of a control program that is alone.                          *)

LEMMA AloneInit == ASSUME BeginsWell, Init PROVE AloneInv
<1>1. StageInv
  BY StageInit
<1>2. SwingsAgree
  BY DEF Init, SwingsAgree, Rest, Fires, Prep
<1>3. ASSUME NEW c \in Channels PROVE GoesOn(c)
  <2>1. Alive(c)
    BY DEF Init, Alive, Away, Leaving
  <2>2. Switched(c)
    BY DEF Init, Switched
  <2>3. InTurn(c)
    BY DEF Init, InTurn, Rest
  <2>4. FirstShot(c)
    BY DEF Init, FirstShot, NoScan, IsLastPeriod, Camping
  <2>5. Received(c)
    BY DEF Init, Received, NoScan
  <2>6. QED BY <2>1, <2>2, <2>3, <2>4, <2>5 DEF GoesOn
<1>4. QED BY <1>1, <1>2, <1>3 DEF AloneInv

LEMMA AloneStutter ==
  ASSUME AloneInv, UNCHANGED vars, NEW c \in Channels
  PROVE  SwingsAgree' /\ GoesOn(c)'
<1>1. SwingsAgree'
  BY DEF AloneInv, SwingsAgree, vars, rhm, swings
<1>2. GoesOn(c)
  BY DEF AloneInv
<1>3. UNCHANGED <<main, fire, transmitting, todo, nextSwing, channels,
                  newChannels, radarActive, pulseTimes, pc, wait, state,
                  results, scan>>
  BY DEF vars, rhm, swings, lists, flags, handler, chan
<1>4. Alive(c)' /\ Switched(c)' /\ InTurn(c)'
  BY <1>2, <1>3 DEF GoesOn, Alive, Switched, InTurn
<1>5. FirstShot(c)' /\ Received(c)'
  BY <1>2, <1>3 DEF GoesOn, FirstShot, BeforeFirst, Received, IsLastPeriod,
     Camping
<1>6. QED BY <1>1, <1>4, <1>5 DEF GoesOn

LEMMA AloneStep ==
  ASSUME Alone, MayStop = {}, MayLeave = {}, ~Preemptible, BeginsWell,
         AloneInv, [Next]_vars
  PROVE  AloneInv'
<1>1. PICK c \in Channels : Channels = {c}
  BY DEF Alone
<1>2. StageInv'
  BY StageStep DEF AloneInv
<1>3. Main \/ Handler(c) \/ UNCHANGED vars
  BY <1>1 DEF Next
<1>4. SwingsAgree' /\ GoesOn(c)'
  BY <1>1, <1>3, AloneMain, AloneHandler, AloneStutter
<1>5. QED BY <1>1, <1>2, <1>4 DEF AloneInv

(* A program that does not leave and sends what it has to, whose scans have*)
(* a first period with enough time and do not begin with their last one.   *)
Regular ==
  Alone /\ MayStop = {} /\ MayLeave = {} /\ ~Preemptible /\ BeginsWell

LEMMA AloneAlways == ASSUME Regular PROVE Spec => []AloneInv
<1>1. Init => AloneInv
  BY AloneInit DEF Regular
<1>2. AloneInv /\ [Next]_vars => AloneInv'
  BY AloneStep DEF Regular
<1>3. QED BY <1>1, <1>2, PTL DEF Spec

(* What a step does to the threads of a regular program.                   *)
LEMMA AloneDies ==
  ASSUME Regular, AloneInv, [Next]_vars
  PROVE  /\ main' # "crashed"
         /\ \A c \in Channels : \/ pc[c] \notin Away /\ pc'[c] \notin Away
                                \/ pc[c] = "dead" /\ pc'[c] = "dead"
                                \/ pc[c] \notin Away /\ Dies(c)
<1>1. PICK c \in Channels : Channels = {c}
  BY DEF Regular, Alone
<1>2. /\ StageInv /\ GoesOn(c) /\ pc[c] \notin Away \ {"dead"}
      /\ main # "crashed"
  BY DEF AloneInv, GoesOn, Alive
<1>3. CASE Main
  <2>1. pc' = pc /\ main' # "crashed"
    BY <1>1, <1>2, <1>3, MainHandlers, AliveMain DEF handler, Alive
  <2>2. QED BY <1>1, <1>2, <2>1
<1>4. CASE Handler(c)
  BY <1>1, <1>2, <1>4, HandlerAt, HandlerDies DEF Regular
<1>5. CASE UNCHANGED vars
  BY <1>1, <1>2, <1>5 DEF vars, rhm, handler
<1>6. QED BY <1>1, <1>3, <1>4, <1>5 DEF Next

(* No thread of the server ends with an exception when a regular program is*)
(* alone, but for the handler that is overtaken by USRP_READY_DATA while it*)
(* sends results (DiesOnlyOvertaken): no KeyError for parameters that are  *)
(* gone, no IndexError for results or pulse times that were not stored.    *)
THEOREM AloneDiesOvertaken == ASSUME Regular PROVE Spec => DiesOnlyOvertaken
<1>1. AloneInv /\ [Next]_vars
      => [/\ main' # "crashed"
          /\ \A c \in Channels : pc'[c] = "dead" => pc[c] = "dead" \/ Overtaken(c)]_vars
  BY AloneDies DEF Dies, Away, Leaving
<1>2. QED BY <1>1, AloneAlways, PTL DEF Spec, DiesOnlyOvertaken

(* Between two triggers SET_READY triggers the active swing                *)
(* (SwingAgreement), because no trigger starts without a channel to set up,*)
(* which is where nextSwingToTrigger moves on (2629).                      *)
THEOREM AloneSwingsAgree == ASSUME Regular PROVE Spec => []SwingAgreement
<1>1. AloneInv => SwingAgreement
  <2> SUFFICES ASSUME AloneInv, ~triggerRunning PROVE nextSwing = activeSwing
    BY DEF SwingAgreement
  <2>1. main \notin Fires \cup Prep
    BY DEF AloneInv, StageInv, Aligned
  <2>2. QED BY <2>1 DEF AloneInv, SwingsAgree
<1>2. QED BY <1>1, AloneAlways, PTL

(* A SET_READY waits for the swing that is next to be triggered            *)
(* (WaitsForNextSwing): the one it read has not moved since.               *)
THEOREM AloneWaitsRight == ASSUME Regular PROVE Spec => []WaitsForNextSwing
<1>1. AloneInv => WaitsForNextSwing
  <2> SUFFICES ASSUME AloneInv, ~triggerRunning, NEW c \in Channels,
                      pc[c] = "readywait"
               PROVE  wait[c] = nextSwing
    BY DEF WaitsForNextSwing
  <2>1. main \in MainPoint /\ main # "crashed" /\ InTurn(c)
    BY DEF AloneInv, StageInv, TypeOK, TypeRhm, GoesOn, Alive
  <2>2. main \notin {"setup", "autotrigger", "end"} \cup Fires \cup Prep
    BY DEF AloneInv, StageInv, Aligned
  <2>3. main \in Rest \cup {"armed"}
    BY <2>1, <2>2 DEF MainPoint, Rest, Fires, Prep
  <2>4. QED BY <2>1, <2>3 DEF InTurn
<1>2. QED BY <1>1, AloneAlways, PTL

(* The radar of a registered channel is active whenever a trigger starts   *)
(* (RadarsOfChannelsActive), although SET_ACTIVE, SET_INACTIVE and the end *)
(* of a scan all write that flag.                                          *)
THEOREM AloneRadarActive ==
  ASSUME Regular PROVE Spec => []RadarsOfChannelsActive
<1>1. AloneInv => RadarsOfChannelsActive
  BY DEF AloneInv, GoesOn, Switched, RadarsOfChannelsActive, StageInv, TypeOK,
     TypeLists
<1>2. QED BY <1>1, AloneAlways, PTL

(* The handler of a regular program stays when no period has fewer         *)
(* sequences than the one before.                                          *)
LEMMA AloneStays ==
  ASSUME Regular, ~Uneven PROVE Spec => []Stays
<1>1. Init => Stays
  BY DEF Init, Stays, Away, Leaving
<1>2. AloneInv /\ Stays /\ [Next]_vars => Stays'
  BY AloneDies DEF Stays, Dies, Away, Leaving
<1>3. QED BY <1>1, <1>2, AloneAlways, PTL DEF Spec

(* The server keeps the promise of ScanService to a regular program that   *)
(* is alone, does not camp on a beam and has periods of one length: each   *)
(* period it asks for is the next one, is taken once, comes back in order, *)
(* and is valid exactly when it was transmitted.                           *)
THEOREM ServesAlone ==
  ASSUME Regular, NoCamping, ~Uneven PROVE Spec => Service!Spec
<1>1. OwnFlags
  BY DEF Regular, Alone, OwnFlags, OneEach
<1>2. Spec /\ []Stays => Service!Spec
  BY <1>1, ServesScans DEF Regular
<1>3. QED BY <1>2, AloneStays, PTL
=============================================================================
