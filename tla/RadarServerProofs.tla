------------------------- MODULE RadarServerProofs -------------------------
(***************************************************************************)
(* What holds of the swing pipeline for any number of radars and channels, *)
(* any scans, and any choice of the options of RadarServer: the types of   *)
(* its variables, and the exclusion the parameter semaphore provides.      *)
(***************************************************************************)
EXTENDS RadarServer, TLAPS

USE RadarsAssumption, ChannelAssumption, ScanAssumption
USE DEF Swing, Label, None, ChannelState, INACTIVE, READY, TRIGGER,
        PROCESSING, SAMPLES_READY, LAST_SWING, Radars, processingSwing

----------------------------------------------------------------------------
(* The operators the actions are built from return values of their types.  *)

LEMMA PutSwingTyped ==
  ASSUME NEW f \in [Channels -> [Swing -> ChannelState]], NEW S,
         NEW s \in Swing, NEW v \in ChannelState
  PROVE  PutSwing(f, S, s, v) \in [Channels -> [Swing -> ChannelState]]
BY DEF PutSwing

LEMMA CurrentTyped ==
  ASSUME TypeChan, NEW S
  PROVE  CurrentParameters(S) \in [Channels -> Label]
BY DEF CurrentParameters, TypeChan, Scan

LEMMA NextTyped ==
  ASSUME TypeChan, NEW c \in Channels
  PROVE  NextParameters(c) \in [Channels -> Label]
BY DEF NextParameters, NextPeriod, TypeChan, Scan

LEMMA PeriodFinishedTyped ==
  ASSUME NEW s \in Scan
  PROVE  PeriodFinished(s) \in Scan
<1>1. CASE s.pre BY <1>1 DEF PeriodFinished, Scan
<1>2. CASE ~s.pre /\ Camping(s) BY <1>2 DEF PeriodFinished, Scan
<1>3. CASE ~s.pre /\ ~Camping(s) /\ ~IsLastPeriod(s)
  BY <1>3 DEF PeriodFinished, Scan
<1>4. CASE ~s.pre /\ ~Camping(s) /\ IsLastPeriod(s)
  BY <1>4 DEF PeriodFinished, Scan
<1>5. QED BY <1>1, <1>2, <1>3, <1>4 DEF Scan

LEMMA GeneratedTyped ==
  ASSUME TypeDrivers, NEW s \in Swing, NEW R
  PROVE  Generated(s, R) \in [Swing -> [Channels -> Label]]
BY DEF Generated, TypeDrivers

LEMMA DeregisterTyped ==
  ASSUME TypeLists, NEW gone \in BOOLEAN, Deregister(gone)
  PROVE  nRegistered' \in Nat /\ commonPar' \in Nat \cup {None}
BY DEF Deregister, TypeLists

LEMMA WithoutTyped ==
  ASSUME NEW c, NEW gone
  PROVE  /\ RadarActiveWithout(c, gone) \in [Radars -> BOOLEAN]
         /\ SwingInvalidWithout(gone) \in [Radars -> BOOLEAN]
BY DEF RadarActiveWithout, SwingInvalidWithout

LEMMA SequenceEnds ==
  ASSUME NEW S, NEW s \in Seq(S), s # <<>>
  PROVE  Last(s) \in S /\ Front(s) \in Seq(S)
BY DEF Last, Front

(* A group of variables that does not change keeps its type.               *)
LEMMA Frame ==
  ASSUME TypeOK
  PROVE  /\ UNCHANGED rhm => TypeRhm'
         /\ UNCHANGED swings => TypeSwings'
         /\ UNCHANGED lists => TypeLists'
         /\ UNCHANGED flags => TypeFlags'
         /\ UNCHANGED lock => TypeLock'
         /\ UNCHANGED pulseTimes => TypeTimes'
         /\ UNCHANGED handler => TypeHandler'
         /\ UNCHANGED chan => TypeChan'
         /\ UNCHANGED drivers => TypeDrivers'
<1> USE DEF TypeOK
<1>1. UNCHANGED rhm => TypeRhm' BY DEF rhm, TypeRhm
<1>2. UNCHANGED swings => TypeSwings' BY DEF swings, TypeSwings
<1>3. UNCHANGED lists => TypeLists' BY DEF lists, TypeLists
<1>4. UNCHANGED flags => TypeFlags' BY DEF flags, TypeFlags
<1>5. UNCHANGED lock => TypeLock' BY DEF lock, TypeLock
<1>6. UNCHANGED pulseTimes => TypeTimes' BY DEF TypeTimes
<1>7. UNCHANGED handler => TypeHandler' BY DEF handler, TypeHandler
<1>8. UNCHANGED chan => TypeChan' BY DEF chan, TypeChan
<1>9. UNCHANGED drivers => TypeDrivers' BY DEF drivers, TypeDrivers
<1>10. QED BY <1>1, <1>2, <1>3, <1>4, <1>5, <1>6, <1>7, <1>8, <1>9
----------------------------------------------------------------------------
(* The actions of the main thread, one lemma each: the groups an action    *)
(* leaves alone by Frame, then those it changes, one by one.               *)

LEMMA NoticeNewTyped == ASSUME TypeOK, NoticeNew PROVE TypeOK'
<1>1. TypeSwings' /\ TypeLists' /\ TypeFlags' /\ TypeLock' /\ TypeTimes' /\
      TypeHandler' /\ TypeChan' /\ TypeDrivers'
  BY Frame DEF NoticeNew, TypeOK
<1>2. TypeRhm'
  BY DEF NoticeNew, TypeOK, TypeRhm, TypeLists, MainPoint
<1>3. QED BY <1>1, <1>2 DEF TypeOK

LEMMA NothingNewTyped == ASSUME TypeOK, NothingNew PROVE TypeOK'
<1>1. TypeSwings' /\ TypeLists' /\ TypeFlags' /\ TypeLock' /\ TypeTimes' /\
      TypeHandler' /\ TypeChan' /\ TypeDrivers'
  BY Frame DEF NothingNew, TypeOK
<1>2. TypeRhm'
  BY DEF NothingNew, TypeOK, TypeRhm, MainPoint
<1>3. QED BY <1>1, <1>2 DEF TypeOK

LEMMA AwaitActiveTyped ==
  ASSUME TypeOK, NEW c \in Channels, AwaitActive(c)
  PROVE TypeOK'
<1>1. TypeSwings' /\ TypeLists' /\ TypeFlags' /\ TypeLock' /\ TypeTimes' /\
      TypeHandler' /\ TypeChan' /\ TypeDrivers'
  BY Frame DEF AwaitActive, TypeOK
<1>2. TypeRhm'
  BY DEF AwaitActive, TypeOK, TypeRhm
<1>3. QED BY <1>1, <1>2 DEF TypeOK

LEMMA AwaitSetParTyped == ASSUME TypeOK, AwaitSetPar PROVE TypeOK'
<1>1. TypeSwings' /\ TypeLists' /\ TypeFlags' /\ TypeLock' /\ TypeTimes' /\
      TypeHandler' /\ TypeChan' /\ TypeDrivers'
  BY Frame DEF AwaitSetPar, TypeOK
<1>2. TypeRhm'
  BY DEF AwaitSetPar, TypeOK, TypeRhm, MainPoint
<1>3. QED BY <1>1, <1>2 DEF TypeOK

LEMMA InitStartTyped == ASSUME TypeOK, InitStart PROVE TypeOK'
<1>1. TypeSwings' /\ TypeLists' /\ TypeFlags' /\ TypeTimes' /\ TypeHandler'
  BY Frame DEF InitStart, TypeOK
<1>2. TypeRhm'
  BY DEF InitStart, TypeOK, TypeRhm, TypeLists, MainPoint
<1>3. TypeLock'
  BY DEF InitStart, TypeOK, TypeLock
<1>4. TypeChan'
  BY CurrentTyped DEF InitStart, TypeOK, TypeChan
<1>5. TypeDrivers'
  <2>1. cudaSeq' \in [Swing -> [Channels -> Label]]
    <3> DEFINE added == [c \in Channels |->
                           IF c \in newChannels THEN scan[c].period
                                                ELSE cudaSeq[activeSwing][c]]
    <3>1. added \in [Channels -> Label]
      BY DEF TypeOK, TypeChan, Scan, TypeDrivers, TypeSwings
    <3>2. \/ UNCHANGED cudaSeq
          \/ cudaSeq' = [cudaSeq EXCEPT ![activeSwing] = added]
      BY DEF InitStart
    <3> HIDE DEF added
    <3>3. QED BY <3>1, <3>2 DEF TypeOK, TypeDrivers
  <2>2. QED BY <2>1 DEF InitStart, TypeOK, TypeDrivers, TypeLists, TypeChan,
       TypeSwings
<1>6. QED BY <1>1, <1>2, <1>3, <1>4, <1>5 DEF TypeOK

LEMMA InitEndTyped == ASSUME TypeOK, InitEnd PROVE TypeOK'
<1>1. TypeSwings' /\ TypeFlags' /\ TypeTimes' /\ TypeHandler'
  BY Frame DEF InitEnd, TypeOK
<1>2. TypeRhm'
  BY DEF InitEnd, TypeOK, TypeRhm, MainPoint
<1>3. TypeLists'
  BY DEF InitEnd, TypeOK, TypeLists, TypeRhm
<1>4. TypeLock'
  BY DEF InitEnd, TypeOK, TypeLock
<1>5. TypeChan'
  <2>1. \/ UNCHANGED state
        \/ \E S : state' = PutSwing(state, S, activeSwing, READY)
    BY DEF InitEnd
  <2>2. state' \in [Channels -> [Swing -> ChannelState]]
    <3>1. \A S : PutSwing(state, S, activeSwing, READY)
                  \in [Channels -> [Swing -> ChannelState]]
      BY PutSwingTyped DEF TypeOK, TypeChan, TypeSwings
    <3>2. QED BY SMTT(30), <2>1, <3>1 DEF TypeOK, TypeChan
  <2>3. QED BY <2>2 DEF InitEnd, TypeOK, TypeChan
<1>6. TypeDrivers'
  BY GeneratedTyped DEF InitEnd, TypeOK, TypeDrivers, TypeSwings
<1>7. QED BY <1>1, <1>2, <1>3, <1>4, <1>5, <1>6 DEF TypeOK

LEMMA ArmTyped == ASSUME TypeOK, Arm PROVE TypeOK'
<1>1. TypeSwings' /\ TypeLists' /\ TypeFlags' /\ TypeLock' /\ TypeTimes' /\
      TypeHandler' /\ TypeChan' /\ TypeDrivers'
  BY Frame DEF Arm, TypeOK
<1>2. TypeRhm'
  BY DEF Arm, TypeOK, TypeRhm, MainPoint
<1>3. QED BY <1>1, <1>2 DEF TypeOK

LEMMA LoopAgainTyped == ASSUME TypeOK, LoopAgain PROVE TypeOK'
<1>1. TypeSwings' /\ TypeLists' /\ TypeFlags' /\ TypeLock' /\ TypeTimes' /\
      TypeHandler' /\ TypeChan' /\ TypeDrivers'
  BY Frame DEF LoopAgain, TypeOK
<1>2. TypeRhm'
  BY DEF LoopAgain, TypeOK, TypeRhm, MainPoint
<1>3. QED BY <1>1, <1>2 DEF TypeOK

LEMMA StartTyped == ASSUME TypeOK, Start PROVE TypeOK'
<1>1. TypeSwings' /\ TypeLists' /\ TypeFlags' /\ TypeLock' /\ TypeTimes' /\
      TypeHandler' /\ TypeChan' /\ TypeDrivers'
  BY Frame DEF Start, TypeOK
<1>2. TypeRhm'
  BY DEF Start, TypeOK, TypeRhm, MainPoint
<1>3. QED BY <1>1, <1>2 DEF TypeOK

LEMMA SetupTyped == ASSUME TypeOK, Setup PROVE TypeOK'
<1>1. TypeLists' /\ TypeFlags' /\ TypeLock' /\ TypeTimes' /\ TypeHandler' /\
      TypeChan' /\ TypeDrivers'
  BY Frame DEF Setup, TypeOK
<1>2. TypeRhm'
  BY DEF Setup, TypeOK, TypeRhm, MainPoint, TypeFlags
<1>3. TypeSwings'
  BY DEF Setup, TypeOK, TypeSwings
<1>4. QED BY <1>1, <1>2, <1>3 DEF TypeOK

LEMMA FireTyped == ASSUME TypeOK, Fire PROVE TypeOK'
<1> DEFINE entry(c) == [swing |-> activeSwing, of |-> Upcoming(c),
                        fired |-> fire, valid |-> TRUE, data |-> None,
                        label |-> None]
<1>1. TypeSwings' /\ TypeLists' /\ TypeFlags' /\ TypeLock' /\ TypeTimes'
      /\ TypeHandler'
  BY Frame DEF Fire, TypeOK
<1>2. TypeRhm'
  BY DEF Fire, TypeOK, TypeRhm, MainPoint
<1>3. TypeChan'
  <2>1. \A c \in Channels : /\ entry(c) \in Result
                            /\ results[c] \in Seq(Result)
    <3>1. \A c \in Channels : Upcoming(c) \in Label
      BY DEF TypeOK, TypeChan, Scan, Upcoming, NextPeriod
    <3>2. QED BY <3>1 DEF TypeOK, TypeRhm, TypeSwings, TypeChan, Result
  <2>2. \A c \in Channels : <<entry(c)>> \o results[c] \in Seq(Result)
    <3> HIDE DEF entry
    <3>1. QED BY <2>1
  <2>3. \/ UNCHANGED <<state, results>>
        \/ /\ \E S : state' = PutSwing(state, S, activeSwing, PROCESSING)
           /\ \E S : results' = [c \in Channels |->
                       IF c \in S THEN <<entry(c)>> \o results[c]
                                  ELSE results[c]]
    <3>1. CASE NoChannelBound \/ ParametersLost BY <3>1 DEF Fire
    <3>2. CASE ~(NoChannelBound \/ ParametersLost)
      <4> DEFINE onAir == {c \in OnAir : transmitting[Rnum[c]]}
                 S == {c \in onAir : ~IsLastPeriod(scan[c])}
      <4>1. state' = PutSwing(state,
                       {c \in onAir : state[c][activeSwing] = TRIGGER},
                       activeSwing, PROCESSING)
        BY <3>2 DEF Fire
      <4>2. results' = [c \in Channels |->
                          IF c \in S THEN <<entry(c)>> \o results[c]
                                     ELSE results[c]]
        BY <3>2 DEF Fire
      <4>3. QED BY <4>1, <4>2
    <3>3. QED BY <3>1, <3>2
  <2>4. results' \in [Channels -> Seq(Result)]
    <3> HIDE DEF entry
    <3>1. results \in [Channels -> Seq(Result)] BY DEF TypeOK, TypeChan
    <3>2. \/ UNCHANGED results
          \/ \E S : results' = [c \in Channels |->
                     IF c \in S THEN <<entry(c)>> \o results[c]
                                ELSE results[c]]
      BY <2>3
    <3>3. QED BY ZenonT(60), <2>2, <3>1, <3>2
  <2>5. state' \in [Channels -> [Swing -> ChannelState]]
    <3>1. \A S : PutSwing(state, S, activeSwing, PROCESSING)
                  \in [Channels -> [Swing -> ChannelState]]
      BY PutSwingTyped DEF TypeOK, TypeChan, TypeSwings
    <3>2. QED BY SMTT(30), <2>3, <3>1 DEF TypeOK, TypeChan
  <2>6. QED BY <2>4, <2>5 DEF Fire, TypeOK, TypeChan
<1>4. TypeDrivers'
  <2>1. \/ UNCHANGED rx
        \/ \E S : rx' = [rx EXCEPT ![activeSwing] = [c \in Channels |->
                           IF c \in S THEN txBuf[activeSwing][c] ELSE @[c]]]
    BY DEF Fire
  <2>2. rx' \in [Swing -> [Channels -> Label]]
    BY <2>1 DEF TypeOK, TypeDrivers, TypeSwings
  <2>3. QED BY <2>2 DEF Fire, TypeOK, TypeDrivers
<1>5. QED BY <1>1, <1>2, <1>3, <1>4 DEF TypeOK

LEMMA CollectTyped == ASSUME TypeOK, Collect PROVE TypeOK'
<1> DEFINE due == {c \in Processing : radarActive[Rnum[c]]}
           flagged(c) == [Last(results[c]) EXCEPT !.valid = FALSE,
                                                  !.label = scan[c].period]
           samples(c) == [Last(results[c]) EXCEPT
                            !.data = rx[processingSwing][c],
                            !.label = scan[c].period]
<1>1. TypeSwings' /\ TypeLists' /\ TypeLock' /\ TypeTimes' /\ TypeHandler'
      /\ TypeDrivers'
  BY Frame DEF Collect, TypeOK
<1>2. TypeRhm'
  BY DEF Collect, TypeOK, TypeRhm, MainPoint
<1>3. TypeFlags'
  BY DEF Collect, TypeOK, TypeFlags
<1>4. TypeChan'
  <2>1. \A c \in Channels :
          /\ scan[c].period \in Label
          /\ rx[processingSwing][c] \in Label
          /\ results[c] \in Seq(Result)
    BY DEF TypeOK, TypeChan, TypeDrivers, TypeSwings, Scan
  <2>2. \A c \in Channels : results[c] # <<>> =>
          Last(results[c]) \in Result /\ Front(results[c]) \in Seq(Result)
    BY <2>1, SequenceEnds
  <2>3. \A c \in Channels : results[c] # <<>> =>
          flagged(c) \in Result /\ samples(c) \in Result
    BY <2>1, <2>2 DEF Result
  <2>4. \A c \in Channels : results[c] # <<>> =>
          /\ Append(Front(results[c]), flagged(c)) \in Seq(Result)
          /\ Append(Front(results[c]), samples(c)) \in Seq(Result)
    <3> HIDE DEF flagged, samples
    <3>1. QED BY <2>2, <2>3
  <2>5. \/ UNCHANGED <<results, payload>>
        \/ /\ \A c \in due : results[c] # <<>>
           /\ payload' = CurrentParameters(due)
           /\ results' = [c \in Channels |->
                IF c \in due
                THEN Append(Front(results[c]),
                            IF swingInvalid[Rnum[c]] THEN flagged(c)
                                                     ELSE samples(c))
                ELSE results[c]]
    BY DEF Collect
  <2>6. payload' \in [Channels -> Label]
    <3>1. CurrentParameters(due) \in [Channels -> Label]
      BY CurrentTyped DEF TypeOK
    <3>2. payload \in [Channels -> Label] BY DEF TypeOK, TypeChan
    <3>3. QED BY <2>5, <3>1, <3>2
  <2>7. results' \in [Channels -> Seq(Result)]
    <3> DEFINE new(c) == IF swingInvalid[Rnum[c]] THEN flagged(c)
                                                  ELSE samples(c)
    <3>1. \A c \in Channels : results[c] # <<>> =>
            Append(Front(results[c]), new(c)) \in Seq(Result)
      BY <2>4
    <3>2. results \in [Channels -> Seq(Result)] BY DEF TypeOK, TypeChan
    <3>3. \/ UNCHANGED results
          \/ /\ \A c \in due : results[c] # <<>>
             /\ results' = [c \in Channels |->
                  IF c \in due THEN Append(Front(results[c]), new(c))
                               ELSE results[c]]
      BY <2>5
    <3> HIDE DEF new, due
    <3>4. QED BY ZenonT(60), <3>1, <3>2, <3>3
  <2>8. QED BY <2>6, <2>7 DEF Collect, TypeOK, TypeChan
<1>5. QED BY <1>1, <1>2, <1>3, <1>4 DEF TypeOK

LEMMA FinishTyped == ASSUME TypeOK, Finish PROVE TypeOK'
<1>1. TypeSwings' /\ TypeLists' /\ TypeFlags' /\ TypeLock' /\ TypeTimes' /\
      TypeHandler' /\ TypeDrivers'
  BY Frame DEF Finish, TypeOK
<1>2. TypeRhm'
  BY DEF Finish, TypeOK, TypeRhm, MainPoint, TypeLists
<1>3. TypeChan'
  <2>1. scan' \in [Channels -> Scan]
    BY PeriodFinishedTyped DEF Finish, TypeOK, TypeChan
  <2>2. state' \in [Channels -> [Swing -> ChannelState]]
    BY DEF Finish, TypeOK, PutSwing, TypeChan, TypeSwings
  <2>3. nextState' \in [Channels -> [Swing -> ChannelState]]
    BY DEF Finish, TypeOK, PutSwing, TypeChan, TypeSwings
  <2>4. QED BY <2>1, <2>2, <2>3 DEF Finish, TypeOK, TypeChan
<1>4. QED BY <1>1, <1>2, <1>3 DEF TypeOK

LEMMA AddLastTyped ==
  ASSUME TypeOK, NEW c \in Channels, AddLast(c)
  PROVE TypeOK'
<1>1. TypeSwings' /\ TypeLock' /\ TypeTimes' /\ TypeHandler' /\ TypeChan'
  BY Frame DEF AddLast, TypeOK
<1>2. TypeRhm'
  BY DEF AddLast, TypeOK, TypeRhm
<1>3. TypeLists'
  BY DeregisterTyped DEF AddLast, TypeOK, TypeLists
<1>4. TypeFlags'
  BY WithoutTyped DEF AddLast, TypeOK, TypeFlags
<1>5. TypeDrivers'
  BY DEF AddLast, TypeOK, TypeDrivers, TypeSwings
<1>6. QED BY <1>1, <1>2, <1>3, <1>4, <1>5 DEF TypeOK

LEMMA AddNotActiveTyped ==
  ASSUME TypeOK, NEW c \in Channels, AddNotActive(c)
  PROVE TypeOK'
<1>1. TypeSwings' /\ TypeLists' /\ TypeLock' /\ TypeTimes' /\ TypeHandler' /\
      TypeChan' /\ TypeDrivers'
  BY Frame DEF AddNotActive, TypeOK
<1>2. TypeRhm'
  BY DEF AddNotActive, TypeOK, TypeRhm
<1>3. TypeFlags'
  BY DEF AddNotActive, TypeOK, TypeFlags
<1>4. QED BY <1>1, <1>2, <1>3 DEF TypeOK

LEMMA AddUpdateTyped ==
  ASSUME TypeOK, NEW c \in Channels, AddUpdate(c)
  PROVE TypeOK'
<1>1. TypeSwings' /\ TypeLists' /\ TypeLock' /\ TypeTimes' /\ TypeHandler' /\
      TypeDrivers'
  BY Frame DEF AddUpdate, TypeOK
<1>2. TypeRhm'
  BY DEF AddUpdate, TypeOK, TypeRhm, MainPoint
<1>3. TypeFlags'
  BY DEF AddUpdate, TypeOK, TypeFlags
<1>4. TypeChan'
  BY NextTyped DEF AddUpdate, TypeOK, TypeChan
<1>5. QED BY <1>1, <1>2, <1>3, <1>4 DEF TypeOK

LEMMA AddSendTyped ==
  ASSUME TypeOK, NEW c \in Channels, AddSend(c)
  PROVE TypeOK'
<1>1. TypeSwings' /\ TypeLists' /\ TypeFlags' /\ TypeLock' /\ TypeTimes' /\
      TypeHandler'
  BY Frame DEF AddSend, TypeOK
<1>2. TypeRhm'
  BY DEF AddSend, TypeOK, TypeRhm
<1>3. TypeChan'
  BY DEF AddSend, TypeOK, TypeChan, TypeSwings
<1>4. TypeDrivers'
  BY DEF AddSend, TypeOK, TypeDrivers, TypeSwings, TypeChan
<1>5. QED BY <1>1, <1>2, <1>3, <1>4 DEF TypeOK

LEMMA GenerateTyped == ASSUME TypeOK, Generate PROVE TypeOK'
<1>1. TypeSwings' /\ TypeLists' /\ TypeFlags' /\ TypeLock' /\ TypeTimes' /\
      TypeHandler' /\ TypeChan'
  BY Frame DEF Generate, TypeOK
<1>2. TypeRhm'
  BY DEF Generate, TypeOK, TypeRhm, MainPoint
<1>3. TypeDrivers'
  BY GeneratedTyped DEF Generate, TypeOK, TypeDrivers, TypeSwings
<1>4. QED BY <1>1, <1>2, <1>3 DEF TypeOK

LEMMA ReadyClearTyped == ASSUME TypeOK, ReadyClear PROVE TypeOK'
<1>1. TypeSwings' /\ TypeLists' /\ TypeFlags' /\ TypeLock' /\ TypeHandler' /\
      TypeChan' /\ TypeDrivers'
  BY Frame DEF ReadyClear, TypeOK
<1>2. TypeRhm'
  BY DEF ReadyClear, TypeOK, TypeRhm, MainPoint
<1>3. TypeTimes'
  BY DEF ReadyClear, TypeOK, TypeTimes, WithPulseTimes
<1>4. QED BY <1>1, <1>2, <1>3 DEF TypeOK

LEMMA ReadyStoreTyped == ASSUME TypeOK, ReadyStore PROVE TypeOK'
<1>1. TypeSwings' /\ TypeLists' /\ TypeFlags' /\ TypeLock' /\ TypeHandler' /\
      TypeChan' /\ TypeDrivers'
  BY Frame DEF ReadyStore, TypeOK
<1>2. TypeRhm'
  BY DEF ReadyStore, TypeOK, TypeRhm, MainPoint
<1>3. TypeTimes'
  BY DEF ReadyStore, TypeOK, TypeTimes, WithPulseTimes, TypeSwings
<1>4. QED BY <1>1, <1>2, <1>3 DEF TypeOK

LEMMA SwitchTyped == ASSUME TypeOK, Switch PROVE TypeOK'
<1>1. TypeLists' /\ TypeFlags' /\ TypeLock' /\ TypeTimes' /\ TypeHandler' /\
      TypeChan' /\ TypeDrivers'
  BY Frame DEF Switch, TypeOK
<1>2. TypeRhm'
  BY DEF Switch, TypeOK, TypeRhm, MainPoint
<1>3. TypeSwings'
  BY DEF Switch, TypeOK, TypeSwings
<1>4. QED BY <1>1, <1>2, <1>3 DEF TypeOK

LEMMA AutoTriggerTyped == ASSUME TypeOK, AutoTrigger PROVE TypeOK'
<1>1. TypeSwings' /\ TypeLists' /\ TypeFlags' /\ TypeLock' /\ TypeTimes'
      /\ TypeHandler' /\ TypeDrivers'
  BY Frame DEF AutoTrigger, TypeOK
<1>2. TypeRhm'
  BY DEF AutoTrigger, TypeOK, TypeRhm, MainPoint
<1>3. TypeChan'
  <2>1. \A c \in Channels : <<nextSwing>> \o triggered[c] \in Seq(Swing)
    BY DEF TypeOK, TypeSwings, TypeChan
  <2>2. triggered' \in [Channels -> Seq(Swing)]
    <3> DEFINE S == AutoTriggered
    <3>1. triggered' = [c \in Channels |->
            IF c \in S THEN <<nextSwing>> \o triggered[c] ELSE triggered[c]]
      BY DEF AutoTrigger
    <3> HIDE DEF S
    <3>2. QED BY <2>1, <3>1 DEF TypeOK, TypeChan
  <2>3. scan' \in [Channels -> Scan]
    BY ZenonT(60) DEF AutoTrigger, TypeOK, TypeChan, Scan
  <2>4. state' \in [Channels -> [Swing -> ChannelState]]
    BY PutSwingTyped DEF AutoTrigger, TypeOK, TypeChan, TypeSwings
  <2>5. QED BY <2>2, <2>3, <2>4 DEF AutoTrigger, TypeOK, TypeChan
<1>4. QED BY <1>1, <1>2, <1>3 DEF TypeOK

LEMMA EndTyped == ASSUME TypeOK, End PROVE TypeOK'
<1>1. TypeSwings' /\ TypeLists' /\ TypeLock' /\ TypeTimes' /\ TypeHandler' /\
      TypeChan' /\ TypeDrivers'
  BY Frame DEF End, TypeOK
<1>2. TypeRhm'
  BY DEF End, TypeOK, TypeRhm, MainPoint
<1>3. TypeFlags'
  BY DEF End, TypeOK, TypeFlags, InvalidAfterTrigger
<1>4. QED BY <1>1, <1>2, <1>3 DEF TypeOK
----------------------------------------------------------------------------
(* The actions of the control programs and their handlers, the same way.   *)

LEMMA SetActiveTyped ==
  ASSUME TypeOK, NEW c \in Channels, SetActive(c)
  PROVE TypeOK'
<1>1. TypeRhm' /\ TypeSwings' /\ TypeLock' /\ TypeTimes' /\ TypeDrivers'
  BY Frame DEF SetActive, TypeOK
<1>2. TypeLists'
  BY DEF SetActive, TypeOK, TypeLists
<1>3. TypeFlags'
  BY DEF SetActive, TypeOK, TypeFlags
<1>4. TypeHandler'
  BY SMTT(20) DEF SetActive, TypeOK, TypeHandler, Goto, HandlerPoint
<1>5. TypeChan'
  BY DEF SetActive, TypeOK, TypeChan
<1>6. QED BY <1>1, <1>2, <1>3, <1>4, <1>5 DEF TypeOK

LEMMA AwaitTriggerEndTyped ==
  ASSUME TypeOK, NEW c \in Channels, AwaitTriggerEnd(c)
  PROVE TypeOK'
<1>1. TypeRhm' /\ TypeSwings' /\ TypeLists' /\ TypeFlags' /\ TypeLock' /\
      TypeTimes' /\ TypeChan' /\ TypeDrivers'
  BY Frame DEF AwaitTriggerEnd, TypeOK
<1>2. TypeHandler'
  BY DEF AwaitTriggerEnd, TypeOK, TypeHandler, Goto, HandlerPoint
<1>3. QED BY <1>1, <1>2 DEF TypeOK

LEMMA StartScanTyped ==
  ASSUME TypeOK, NEW c \in Channels, StartScan(c)
  PROVE TypeOK'
<1>1. TypeRhm' /\ TypeSwings' /\ TypeLists' /\ TypeLock' /\ TypeTimes' /\
      TypeDrivers'
  BY Frame DEF StartScan, TypeOK
<1>2. TypeFlags'
  BY DEF StartScan, TypeOK, TypeFlags
<1>3. TypeHandler'
  BY DEF StartScan, TypeOK, TypeHandler, Goto, HandlerPoint
<1>4. TypeChan'
  BY DEF StartScan, TypeOK, TypeChan, InitNewScan, Scan
<1>5. QED BY <1>1, <1>2, <1>3, <1>4 DEF TypeOK

LEMMA StoreParametersTyped ==
  ASSUME TypeOK, NEW c \in Channels, StoreParameters(c)
  PROVE TypeOK'
<1>1. TypeRhm' /\ TypeSwings' /\ TypeLists' /\ TypeFlags' /\ TypeTimes' /\
      TypeDrivers'
  BY Frame DEF StoreParameters, TypeOK
<1>2. TypeLock'
  BY DEF StoreParameters, TypeOK, TypeLock, Release
<1>3. TypeHandler'
  BY DEF StoreParameters, TypeOK, TypeHandler, Goto, HandlerPoint
<1>4. TypeChan'
  <2>1. Expected(c) \in Label
    BY DEF StoreParameters, TypeOK, Expected, TypeHandler
  <2>2. scan' \in [Channels -> Scan]
    BY ZenonT(60) DEF StoreParameters, TypeOK, TypeChan, Scan
  <2>3. payload' \in [Channels -> Label]
    BY <2>1 DEF StoreParameters, TypeOK, TypeChan
  <2>4. QED BY <2>1, <2>2, <2>3 DEF StoreParameters, TypeOK, TypeChan
<1>5. QED BY <1>1, <1>2, <1>3, <1>4 DEF TypeOK

LEMMA TakeParametersTyped ==
  ASSUME TypeOK, NEW c \in Channels, TakeParameters(c)
  PROVE TypeOK'
<1>1. TypeRhm' /\ TypeSwings' /\ TypeLists' /\ TypeFlags' /\ TypeTimes' /\
      TypeChan' /\ TypeDrivers'
  BY Frame DEF TakeParameters, TypeOK
<1>2. TypeLock'
  BY DEF TakeParameters, TypeOK, TypeLock
<1>3. TypeHandler'
  BY DEF TakeParameters, TypeOK, TypeHandler, Goto, HandlerPoint, TypeSwings
<1>4. QED BY <1>1, <1>2, <1>3 DEF TypeOK

LEMMA RegisterTyped ==
  ASSUME TypeOK, NEW c \in Channels, Register(c)
  PROVE TypeOK'
<1>1. TypeRhm' /\ TypeSwings' /\ TypeFlags' /\ TypeTimes' /\ TypeDrivers'
  BY Frame DEF Register, TypeOK
<1>2. TypeLists'
  BY ParAssumption DEF Register, TypeOK, TypeLists, First, lists
<1>3. TypeLock'
  BY DEF Register, TypeOK, TypeLock, Release, lock
<1>4. TypeHandler'
  BY DEF Register, TypeOK, TypeHandler, Goto, HandlerPoint
<1>5. TypeChan'
  <2>1. Expected(c) \in Label
    BY DEF Register, TypeOK, Expected, TypeHandler
  <2>2. payload' \in [Channels -> Label]
    BY <2>1 DEF Register, TypeOK, TypeChan
  <2>3. QED BY <2>1, <2>2 DEF Register, TypeOK, TypeChan
<1>6. QED BY <1>1, <1>2, <1>3, <1>4, <1>5 DEF TypeOK

LEMMA CompareParametersTyped ==
  ASSUME TypeOK, NEW c \in Channels, CompareParameters(c)
  PROVE TypeOK'
<1>1. TypeRhm' /\ TypeSwings' /\ TypeLists' /\ TypeFlags' /\ TypeTimes' /\
      TypeDrivers'
  BY Frame DEF CompareParameters, TypeOK
<1>2. TypeLock'
  BY DEF CompareParameters, TypeOK, TypeLock, Release, lock
<1>3. TypeHandler'
  BY DEF CompareParameters, TypeOK, TypeHandler, Goto, HandlerPoint
<1>4. TypeChan'
  <2>1. Expected(c) \in Label
    BY DEF CompareParameters, TypeOK, Expected, TypeHandler
  <2>2. payload' \in [Channels -> Label]
    BY <2>1 DEF CompareParameters, TypeOK, TypeChan
  <2>3. QED BY <2>1, <2>2 DEF CompareParameters, TypeOK, TypeChan
<1>5. QED BY <1>1, <1>2, <1>3, <1>4 DEF TypeOK

LEMMA SetReadyTyped ==
  ASSUME TypeOK, NEW c \in Channels, SetReady(c)
  PROVE TypeOK'
<1>1. TypeRhm' /\ TypeSwings' /\ TypeLists' /\ TypeFlags' /\ TypeLock' /\
      TypeTimes' /\ TypeChan' /\ TypeDrivers'
  BY Frame DEF SetReady, TypeOK
<1>2. TypeHandler'
  BY DEF SetReady, TypeOK, TypeHandler, Goto, HandlerPoint, TypeSwings
<1>3. QED BY <1>1, <1>2 DEF TypeOK

LEMMA TriggerSwingTyped ==
  ASSUME TypeOK, NEW c \in Channels, TriggerSwing(c)
  PROVE TypeOK'
<1>1. TypeRhm' /\ TypeSwings' /\ TypeLists' /\ TypeFlags' /\ TypeLock' /\
      TypeTimes' /\ TypeDrivers'
  BY Frame DEF TriggerSwing, TypeOK
<1>2. TypeHandler'
  BY DEF TriggerSwing, TypeOK, TypeHandler, Goto, HandlerPoint
<1>3. TypeChan'
  <2>1. triggered' \in [Channels -> Seq(Swing)]
    BY DEF TriggerSwing, TypeOK, TypeChan, TypeSwings
  <2>2. state' \in [Channels -> [Swing -> ChannelState]]
    BY DEF TriggerSwing, TypeOK, TypeChan, TypeSwings
  <2>3. QED BY <2>1, <2>2 DEF TriggerSwing, TypeOK, TypeChan
<1>4. QED BY <1>1, <1>2, <1>3 DEF TypeOK

LEMMA GetDataTyped ==
  ASSUME TypeOK, NEW c \in Channels, GetData(c)
  PROVE TypeOK'
<1>1. TypeRhm' /\ TypeSwings' /\ TypeLists' /\ TypeFlags' /\ TypeLock'
      /\ TypeTimes' /\ TypeDrivers'
  BY Frame DEF GetData, TypeOK
<1>2. triggered[c] # <<>> => /\ Last(triggered[c]) \in Swing
                             /\ Front(triggered[c]) \in Seq(Swing)
  BY SequenceEnds DEF TypeOK, TypeChan
<1>3. TypeHandler'
  BY <1>2 DEF GetData, TypeOK, TypeHandler, Goto, HandlerPoint
<1>4. TypeChan'
  <2>1. triggered' \in [Channels -> Seq(Swing)]
    BY <1>2 DEF GetData, TypeOK, TypeChan
  <2>2. payload' \in [Channels -> Label]
    BY CurrentTyped DEF GetData, TypeOK
  <2>3. QED BY <2>1, <2>2 DEF GetData, TypeOK, TypeChan
<1>5. QED BY <1>1, <1>3, <1>4 DEF TypeOK

LEMMA SendResultsTyped ==
  ASSUME TypeOK, NEW c \in Channels, SendResults(c) PROVE TypeOK'
<1>1. TypeRhm' /\ TypeSwings' /\ TypeLists' /\ TypeFlags' /\ TypeLock'
      /\ TypeTimes' /\ TypeDrivers'
  BY Frame DEF SendResults, TypeOK
<1>2. results[c] # <<>> => /\ Last(results[c]) \in Result
                           /\ Front(results[c]) \in Seq(Result)
  BY SequenceEnds DEF TypeOK, TypeChan
<1>3. TypeHandler'
  <2>1. pulseTimes[Rnum[c]] \in Swing \cup {None}
    BY DEF TypeOK, TypeTimes
  <2>2. \/ UNCHANGED <<sent, sentTimes>>
        \/ /\ results[c] # <<>>
           /\ sent' = [sent EXCEPT ![c] = Last(results[c])]
           /\ sentTimes' = [sentTimes EXCEPT ![c] = pulseTimes[Rnum[c]]]
    BY DEF SendResults
  <2>3. Goto(c, "dead") \/ Goto(c, "sending")
    BY DEF SendResults
  <2>4. sent' \in [Channels -> Result]
    BY ZenonT(60), <1>2, <2>2 DEF TypeOK, TypeHandler
  <2>5. sentTimes' \in [Channels -> Swing \cup {None}]
    BY <2>1, <2>2 DEF TypeOK, TypeHandler
  <2>6. pc' \in [Channels -> HandlerPoint]
    BY <2>3 DEF TypeOK, TypeHandler, Goto, HandlerPoint
  <2>7. QED BY <2>4, <2>5, <2>6 DEF SendResults, TypeOK, TypeHandler
<1>4. TypeChan'
  <2>1. \/ UNCHANGED results
        \/ /\ results[c] # <<>>
           /\ results' = [results EXCEPT ![c] = Front(results[c])]
    BY DEF SendResults
  <2>2. results' \in [Channels -> Seq(Result)]
    BY <1>2, <2>1 DEF TypeOK, TypeChan
  <2>3. QED BY <2>2 DEF SendResults, TypeOK, TypeChan
<1>5. QED BY <1>1, <1>3, <1>4 DEF TypeOK

LEMMA EndGetDataTyped ==
  ASSUME TypeOK, NEW c \in Channels, EndGetData(c)
  PROVE TypeOK'
<1>1. TypeRhm' /\ TypeSwings' /\ TypeLists' /\ TypeFlags' /\ TypeLock' /\
      TypeTimes' /\ TypeDrivers'
  BY Frame DEF EndGetData, TypeOK
<1>2. TypeHandler'
  BY DEF EndGetData, TypeOK, TypeHandler, Goto, HandlerPoint
<1>3. TypeChan'
  BY DEF EndGetData, TypeOK, TypeChan, TypeHandler
<1>4. QED BY <1>1, <1>2, <1>3 DEF TypeOK

LEMMA SetInactiveTyped ==
  ASSUME TypeOK, NEW c \in Channels, SetInactive(c) PROVE TypeOK'
<1>1. TypeRhm' /\ TypeSwings' /\ TypeLock' /\ TypeTimes' /\ TypeDrivers'
  BY Frame DEF SetInactive, TypeOK
<1>2. TypeLists'
  <2> DEFINE gone == c \in channels
  <2>1. Deregister(gone) BY DEF SetInactive
  <2>2. nRegistered' \in Nat /\ commonPar' \in Nat \cup {None}
    <3> HIDE DEF gone
    <3>1. CASE gone BY <3>1, <2>1, DeregisterTyped DEF TypeOK
    <3>2. CASE ~gone BY <3>2, <2>1 DEF Deregister, TypeOK, TypeLists
    <3>3. QED BY <3>1, <3>2
  <2>3. QED BY <2>2 DEF SetInactive, TypeOK, TypeLists
<1>3. TypeFlags'
  BY WithoutTyped DEF SetInactive, TypeOK, TypeFlags
<1>4. TypeHandler'
  BY DEF SetInactive, TypeOK, TypeHandler, Goto, HandlerPoint
<1>5. TypeChan'
  BY DEF SetInactive, TypeOK, TypeChan
<1>6. QED BY <1>1, <1>2, <1>3, <1>4, <1>5 DEF TypeOK

LEMMA QuitTyped == ASSUME TypeOK, NEW c \in Channels, Quit(c) PROVE TypeOK'
<1>1. TypeRhm' /\ TypeSwings' /\ TypeLists' /\ TypeFlags' /\ TypeLock' /\
      TypeTimes' /\ TypeChan' /\ TypeDrivers'
  BY Frame DEF Quit, TypeOK
<1>2. TypeHandler'
  BY DEF Quit, TypeOK, TypeHandler, Goto, HandlerPoint
<1>3. QED BY <1>1, <1>2 DEF TypeOK

LEMMA LoseConnectionTyped ==
  ASSUME TypeOK, NEW c \in Channels, LoseConnection(c)
  PROVE TypeOK'
<1>1. TypeRhm' /\ TypeSwings' /\ TypeLists' /\ TypeFlags' /\ TypeTimes' /\
      TypeChan' /\ TypeDrivers'
  BY Frame DEF LoseConnection, TypeOK
<1>2. TypeLock'
  BY DEF LoseConnection, TypeOK, TypeLock
<1>3. TypeHandler'
  BY DEF LoseConnection, TypeOK, TypeHandler, Goto, HandlerPoint
<1>4. QED BY <1>1, <1>2, <1>3 DEF TypeOK

LEMMA AwaitTriggerTyped ==
  ASSUME TypeOK, NEW c \in Channels, AwaitTrigger(c)
  PROVE TypeOK'
<1>1. TypeRhm' /\ TypeSwings' /\ TypeLists' /\ TypeFlags' /\ TypeLock' /\
      TypeTimes' /\ TypeChan' /\ TypeDrivers'
  BY Frame DEF AwaitTrigger, TypeOK
<1>2. TypeHandler'
  BY DEF AwaitTrigger, TypeOK, TypeHandler, Goto, HandlerPoint
<1>3. QED BY <1>1, <1>2 DEF TypeOK

LEMMA UnlistTyped == ASSUME TypeOK, NEW c \in Channels, Unlist(c) PROVE TypeOK'
<1>1. TypeRhm' /\ TypeSwings' /\ TypeFlags' /\ TypeTimes' /\ TypeChan'
  BY Frame DEF Unlist, TypeOK
<1>2. TypeLists'
  BY DEF Unlist, TypeOK, TypeLists
<1>3. TypeLock'
  BY DEF Unlist, TypeOK, TypeLock, Release, lock
<1>4. TypeHandler'
  BY DEF Unlist, TypeOK, TypeHandler, Goto, HandlerPoint
<1>5. TypeDrivers'
  BY DEF Unlist, TypeOK, TypeDrivers
<1>6. QED BY <1>1, <1>2, <1>3, <1>4, <1>5 DEF TypeOK

LEMMA EndQuitTyped ==
  ASSUME TypeOK, NEW c \in Channels, EndQuit(c)
  PROVE TypeOK'
<1>1. TypeRhm' /\ TypeSwings' /\ TypeTimes' /\ TypeChan' /\ TypeDrivers'
  BY Frame DEF EndQuit, TypeOK
<1>2. TypeLists'
  BY DeregisterTyped DEF EndQuit, TypeOK, TypeLists
<1>3. TypeFlags'
  BY WithoutTyped DEF EndQuit, TypeOK, TypeFlags
<1>4. TypeLock'
  BY DEF EndQuit, TypeOK, TypeLock, Release, lock
<1>5. TypeHandler'
  BY DEF EndQuit, TypeOK, TypeHandler, Goto, HandlerPoint
<1>6. QED BY <1>1, <1>2, <1>3, <1>4, <1>5 DEF TypeOK
----------------------------------------------------------------------------
LEMMA TypeInit == ASSUME Init PROVE TypeOK
<1> USE DEF Init
<1>1. TypeRhm BY DEF TypeRhm, MainPoint
<1>2. TypeSwings BY DEF TypeSwings
<1>3. TypeLists BY DEF TypeLists
<1>4. TypeFlags BY DEF TypeFlags
<1>5. TypeLock BY DEF TypeLock
<1>6. TypeTimes BY DEF TypeTimes
<1>7. TypeHandler BY DEF TypeHandler, HandlerPoint, Result
<1>8. TypeChan BY DEF TypeChan, NoScan, Scan
<1>9. TypeDrivers BY DEF TypeDrivers
<1>10. QED
  BY <1>1, <1>2, <1>3, <1>4, <1>5, <1>6, <1>7, <1>8, <1>9 DEF TypeOK

LEMMA MainTyped == ASSUME TypeOK, Main PROVE TypeOK'
BY NoticeNewTyped, NothingNewTyped, AwaitActiveTyped, AwaitSetParTyped,
   InitStartTyped, InitEndTyped, ArmTyped, LoopAgainTyped, StartTyped,
   SetupTyped, FireTyped, CollectTyped, FinishTyped, AddLastTyped,
   AddNotActiveTyped, AddUpdateTyped, AddSendTyped, GenerateTyped,
   ReadyClearTyped, ReadyStoreTyped, SwitchTyped, AutoTriggerTyped, EndTyped
   DEF Main

LEMMA HandlerTyped ==
  ASSUME TypeOK, NEW c \in Channels, Handler(c) PROVE TypeOK'
BY SetActiveTyped, AwaitTriggerEndTyped, StartScanTyped,
   StoreParametersTyped, TakeParametersTyped, RegisterTyped,
   CompareParametersTyped, SetReadyTyped, TriggerSwingTyped, GetDataTyped,
   SendResultsTyped, EndGetDataTyped, SetInactiveTyped, QuitTyped,
   LoseConnectionTyped, AwaitTriggerTyped, UnlistTyped, EndQuitTyped
   DEF Handler, Serve

LEMMA StutterTyped == ASSUME TypeOK, UNCHANGED vars PROVE TypeOK'
BY Frame DEF vars, TypeOK

(* Every variable of the swing pipeline keeps its type, whatever the control *)
(* programs send and whenever they leave: no label, swing or state is made *)
(* up, and the number of registered channels never falls below zero.       *)
THEOREM TypeCorrect == Spec => []TypeOK
<1>1. TypeOK /\ [Next]_vars => TypeOK'
  BY MainTyped, HandlerTyped, StutterTyped DEF Next
<1>2. QED BY TypeInit, <1>1, PTL DEF Spec

----------------------------------------------------------------------------
(* SetParExclusion.  It is inductive once pc and setPar have their types:  *)
(* few actions of the main thread and of a handler touch the semaphore.    *)

(* Only the two halves of initialize_channel touch it in the main thread,  *)
LEMMA MainKeepsOut ==
  ASSUME Main
  PROVE  \/ InitStart \/ InitEnd
         \/ /\ UNCHANGED <<lock, pc>> /\ main' # "initSend"
            /\ main \notin {"initSend", "crashed"}
<1> DEFINE Out == /\ UNCHANGED <<lock, pc>> /\ main' # "initSend"
                  /\ main \notin {"initSend", "crashed"}
<1> USE DEF handler
<1>1. ASSUME \/ NoticeNew \/ NothingNew \/ AwaitSetPar \/ Arm \/ LoopAgain
             \/ Start \/ Setup \/ Fire \/ Collect \/ Finish
      PROVE  Out
  BY <1>1 DEF NoticeNew, NothingNew, AwaitSetPar, Arm, LoopAgain, Start,
     Setup, Fire, Collect, Finish
<1>2. ASSUME \/ Generate \/ ReadyClear \/ ReadyStore \/ Switch
             \/ AutoTrigger \/ End
      PROVE  Out
  BY <1>2 DEF Generate, ReadyClear, ReadyStore, Switch, AutoTrigger, End
<1>3. ASSUME NEW c \in Channels,
             \/ AwaitActive(c) \/ AddLast(c) \/ AddNotActive(c)
             \/ AddUpdate(c) \/ AddSend(c)
      PROVE  Out
  BY <1>3 DEF AwaitActive, AddLast, AddNotActive, AddUpdate, AddSend
<1>4. QED BY <1>1, <1>2, <1>3 DEF Main

(* and only SET_PARAMETERS and a program that leaves in a handler; no other*)
(* step brings a handler into SET_PARAMETERS, or one that may hold the     *)
(* semaphore back to serving.                                              *)
LEMMA HandlerKeepsOut ==
  ASSUME TypeOK, NEW c \in Channels, Handler(c)
  PROVE  \/ TakeParameters(c) \/ StoreParameters(c) \/ Register(c)
         \/ CompareParameters(c) \/ LoseConnection(c) \/ Unlist(c)
         \/ EndQuit(c)
         \/ /\ UNCHANGED <<lock, main>>
            /\ \A d \in Channels :
                 /\ pc'[d] = "parwait" => pc[d] = "parwait"
                 /\ pc[d] \in Holding => pc'[d] \in Holding
<1> DEFINE Out == /\ UNCHANGED <<lock, main>>
                  /\ \A d \in Channels :
                       /\ pc'[d] = "parwait" => pc[d] = "parwait"
                       /\ pc[d] \in Holding => pc'[d] \in Holding
<1> USE DEF rhm, TypeOK, TypeHandler, Goto, Holding
<1>1. ASSUME SetActive(c) \/ AwaitTriggerEnd(c) \/ StartScan(c)
      PROVE  Out
  BY <1>1 DEF SetActive, AwaitTriggerEnd, StartScan, handler
<1>2. ASSUME \/ SetReady(c) \/ TriggerSwing(c) \/ GetData(c)
             \/ SendResults(c) \/ EndGetData(c)
      PROVE  Out
  BY <1>2 DEF SetReady, TriggerSwing, GetData, SendResults, EndGetData
<1>3. ASSUME SetInactive(c) \/ Quit(c) \/ AwaitTrigger(c)
      PROVE  Out
  BY <1>3 DEF SetInactive, BetweenCommands, Quit, AwaitTrigger
<1>4. QED BY <1>1, <1>2, <1>3 DEF Handler, Serve

LEMMA ExclusionStep ==
  ASSUME TypeOK, SetParExclusion, [Next]_vars PROVE SetParExclusion'
<1> USE DEF SetParExclusion, lock
<1>1. /\ setPar \in Channels \cup {"free", "main", "lost"} /\ nSetPar \in Int
      /\ DOMAIN pc = Channels
      /\ {"free", "main", "lost"} \cap Channels = {}
  BY DEF TypeOK, TypeLock, TypeHandler
<1>2. CASE Main
  <2>1. CASE InitStart
    BY <1>1, <2>1 DEF InitStart, handler
  <2>2. CASE InitEnd
    BY <1>1, <2>2 DEF InitEnd, handler
  <2>3. CASE /\ UNCHANGED <<lock, pc>> /\ main' # "initSend"
             /\ main \notin {"initSend", "crashed"}
    BY <2>3
  <2>4. QED BY <1>2, <2>1, <2>2, <2>3, MainKeepsOut
<1>3. ASSUME NEW c \in Channels, Handler(c) PROVE SetParExclusion'
  <2> USE DEF Holding, Goto, rhm
  <2>1. CASE TakeParameters(c)
    BY <1>1, <2>1 DEF TakeParameters
  <2>2. CASE StoreParameters(c)
    BY <1>1, <2>2 DEF StoreParameters, Release
  <2>3. CASE Register(c)
    BY <1>1, <2>3 DEF Register, Release
  <2>4. CASE CompareParameters(c)
    BY <1>1, <2>4 DEF CompareParameters, Release
  <2>5. CASE LoseConnection(c)
    BY <1>1, <2>5 DEF LoseConnection
  <2>6. CASE Unlist(c)
    BY <1>1, <2>6 DEF Unlist, Release
  <2>7. CASE EndQuit(c)
    BY <1>1, <2>7 DEF EndQuit, Release
  <2>8. CASE /\ UNCHANGED <<lock, main>>
             /\ \A d \in Channels :
                  /\ pc'[d] = "parwait" => pc[d] = "parwait"
                  /\ pc[d] \in Holding => pc'[d] \in Holding
    BY <2>8
  <2>9. QED
    BY <1>3, <2>1, <2>2, <2>3, <2>4, <2>5, <2>6, <2>7, <2>8, HandlerKeepsOut
<1>4. CASE UNCHANGED vars
  BY <1>4 DEF vars, rhm, handler
<1>5. QED BY <1>2, <1>3, <1>4 DEF Next

(* At most one thread, a SET_PARAMETERS handler or initialize_channel, is  *)
(* between the acquisition and the release of set_par_semaphore; a handler *)
(* that goes on serving has given it back; and n_SetParameterHandlers_active*)
(* is the number of handlers that took it and did not give it back, one    *)
(* whose connection was lost while it received included.                   *)
THEOREM Exclusion == Spec => []SetParExclusion
<1>1. Init => SetParExclusion
  BY DEF Init, SetParExclusion
<1>2. TypeOK /\ SetParExclusion /\ [Next]_vars => SetParExclusion'
  BY ExclusionStep
<1>3. QED BY <1>1, <1>2, TypeCorrect, PTL DEF Spec
============================================================================
