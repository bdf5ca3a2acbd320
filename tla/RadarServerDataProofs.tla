------------------------ MODULE RadarServerDataProofs -----------------------
(***************************************************************************)
(* Which data takes which way through the swing pipeline: the sequences    *)
(* sent ahead to the CUDA driver, the transmit buffers generated from      *)
(* them, what was on the air, and the entries of resultDict_list that wait *)
(* for it.                                                                 *)
(***************************************************************************)
EXTENDS RadarServerStageProofs

USE RadarsAssumption, ChannelAssumption, ScanAssumption
USE DEF Swing, Label, None, ChannelState, INACTIVE, READY, TRIGGER,
        PROCESSING, SAMPLES_READY, LAST_SWING, Radars, processingSwing

(* No two channels on one radar.                                           *)
OneEach == \A c, d \in Channels : Rnum[c] = Rnum[d] => c = d

(* What is received for a channel depends on no other one, and no handler  *)
(* gets between the two steps of an update.                                *)
Apart == OneEach /\ ~Preemptible

(* The flag of a swing that was not transmitted is one for the radar.      *)
OwnFlags == OneEach \/ LatePeriods = {}

(* A camping program is activated while its last swing is in flight, which *)
(* clears the flag of that swing.                                          *)
NoLateCamping == LatePeriods = {} \/ \A c \in Channels : ScanLen[c] # 1
----------------------------------------------------------------------------
(* The sequences and transmit buffers.                                     *)

(* Between AddUpdate and AddSend, the parameters a sequence is made of.    *)
SendsNext ==
  /\ main \notin {"add", "crashed"} => adding = "none"
  /\ main = "add" /\ adding # "none" =>
       payload[adding] = NextPeriod(scan[adding]) /\ ~lastPeriod[Rnum[adding]]

(* The swing that is transmitted next ...                                  *)
Between == Rest \cup {"armed", "setup", "fire", "autotrigger", "end"}

NextReady(c) ==
  main \in Between =>
    /\ cudaSeq[activeSwing][c] = Upcoming(c)
    /\ radarActive[Rnum[c]] => txBuf[activeSwing][c] = Upcoming(c)

(* ... and the same while it is being prepared.                            *)
ToBeAdded(c) == main = "add" /\ (c \in todo \/ adding = c)

BeingPrepared(c) ==
  main \in Prep /\ ~ToBeAdded(c) =>
    /\ cudaSeq[processingSwing][c] = Upcoming(c)
    /\ main = "add" => ~lastPeriod[Rnum[c]]
    /\ main # "add" /\ radarActive[Rnum[c]] =>
         txBuf[processingSwing][c] = Upcoming(c)

Prepares(c) ==
  /\ c \in newChannels /\ main = "initSend" =>
       cudaSeq[activeSwing][c] = scan[c].period
  /\ c \in channels /\ ~IsLastPeriod(scan[c]) =>
       NextReady(c) /\ BeingPrepared(c)

PrepareInv == StageInv /\ SendsNext /\ \A c \in Channels : Prepares(c)
----------------------------------------------------------------------------
(* The entries of resultDict_list.                                         *)
Entries(c) == ToSet(results[c])

(* Made by the trigger that is running.                                    *)
New(e) ==
  \/ main \in {"collect", "finish"} \cup Prep /\ e.swing = activeSwing
  \/ main \in {"autotrigger", "end"} /\ e.swing = processingSwing

AfterCollect == {"finish", "autotrigger", "end"} \cup Prep

(* The period an entry without samples was made for.                       *)
PeriodOf(c, e) ==
  IF main \in {"collect", "finish"} /\ ~scan[c].pre /\ e.swing = activeSwing
  THEN NextPeriod(scan[c]) ELSE scan[c].period

(* It describes what was on the air.  When nothing was, for lack of time,   *)
(* the flag of its swing is up, or will be when the trigger ends.          *)
Open(c, e) ==
  e.label = None =>
    /\ e.of = PeriodOf(c, e) /\ e.valid
    /\ Apart /\ e.fired => rx[e.swing][c] = e.of
    /\ e.fired <=> IF New(e) THEN fire ELSE ~swingInvalid[Rnum[c]]
    /\ main \in AfterCollect => New(e) /\ ~swingInvalid[Rnum[c]]

(* An entry with samples, or what is sent of it.                           *)
Sound(e) ==
  /\ e.of = e.label /\ (e.valid <=> e.fired)
  /\ Apart /\ e.valid => e.data = e.label

Recorded(c) ==
  /\ \A e \in Entries(c) : e.label # None => Sound(e)
  /\ pc[c] = "sending" => Sound(sent[c])
  /\ main # "crashed" /\ c \in channels => \A e \in Entries(c) : Open(c, e)

OnTime ==
  \/ LatePeriods # {}
  \/ /\ main \in {"setup", "autotrigger", "end"} \cup Fires \cup Prep => fire
     /\ \A r \in Radars : ~swingInvalid[r]

DataInv ==
  /\ StageInv /\ OnTime
  /\ Apart => PrepareInv
  /\ \A c \in Channels : Recorded(c)
----------------------------------------------------------------------------
(* What is sent to the CUDA driver describes the next period.              *)

LEMMA SendsInit == ASSUME Init PROVE SendsNext
BY DEF Init, SendsNext

LEMMA SendsMain ==
  ASSUME TypeOK, SendsNext, Main
  PROVE  SendsNext'
<1> USE DEF SendsNext
<1>1. CASE \/ NoticeNew \/ NothingNew \/ AwaitSetPar \/ InitStart \/ InitEnd
           \/ Arm \/ LoopAgain \/ Start \/ Setup
  BY <1>1 DEF NoticeNew, NothingNew, AwaitSetPar, InitStart, InitEnd, Arm,
     LoopAgain, Start, Setup
<1>2. CASE \/ Fire \/ Collect \/ Finish \/ Generate \/ ReadyClear
           \/ ReadyStore \/ Switch \/ AutoTrigger \/ End
  BY <1>2 DEF Fire, Collect, Finish, Generate, ReadyClear, ReadyStore,
     Switch, AutoTrigger, End
<1>3. ASSUME NEW c \in Channels, AddUpdate(c) PROVE SendsNext'
  <2>1. /\ adding' = c /\ main' \in {"add", "crashed"} /\ scan' = scan
        /\ payload' = NextParameters(c)
        /\ lastPeriod' = [lastPeriod EXCEPT ![Rnum[c]] = FALSE]
    BY <1>3 DEF AddUpdate
  <2>2. /\ payload \in [Channels -> Label] /\ Rnum[c] \in Radars
        /\ lastPeriod \in [Radars -> BOOLEAN]
    BY DEF TypeOK, TypeChan, TypeFlags
  <2>3. payload'[c] = NextPeriod(scan[c]) /\ ~lastPeriod'[Rnum[c]]
    BY <2>1, <2>2 DEF NextParameters
  <2>4. NextPeriod(scan[c])' = NextPeriod(scan[c])
    BY <2>1 DEF NextPeriod, Camping
  <2>5. QED BY <2>1, <2>3, <2>4
<1>4. ASSUME NEW c \in Channels,
             AwaitActive(c) \/ AddLast(c) \/ AddNotActive(c) \/ AddSend(c)
      PROVE  SendsNext'
  BY <1>4 DEF AwaitActive, AddLast, AddNotActive, AddSend, TypeOK, TypeRhm
<1>5. QED BY <1>1, <1>2, <1>3, <1>4 DEF Main

LEMMA SendsHandler ==
  ASSUME ~Preemptible, TypeOK, SendsNext, NEW c \in Channels, Handler(c)
  PROVE  SendsNext'
<1>1. MayRun
  BY DEF Handler, Serve, SetActive, AwaitTriggerEnd, StartScan,
     StoreParameters, TakeParameters, Register, CompareParameters, SetReady,
     TriggerSwing, GetData, SendResults, EndGetData, SetInactive, Quit,
     LoseConnection, AwaitTrigger, Unlist, EndQuit
<1>2. ~(main = "add" /\ adding # "none")
  BY <1>1 DEF MayRun, MidUpdate
<1>3. UNCHANGED <<main, adding>>
  BY DEF Handler, Serve, SetActive, AwaitTriggerEnd, StartScan,
     StoreParameters, TakeParameters, Register, CompareParameters, SetReady,
     TriggerSwing, GetData, SendResults, EndGetData, SetInactive, Quit,
     LoseConnection, AwaitTrigger, Unlist, EndQuit, rhm
<1>4. QED BY <1>2, <1>3 DEF SendsNext

LEMMA SendsStutter == ASSUME SendsNext, UNCHANGED vars PROVE SendsNext'
BY DEF SendsNext, vars, rhm, chan, flags, NextPeriod, Camping

LEMMA SendsStep ==
  ASSUME ~Preemptible, TypeOK, SendsNext, [Next]_vars
  PROVE  SendsNext'
BY SendsMain, SendsHandler, SendsStutter DEF Next
----------------------------------------------------------------------------
(* What a handler leaves alone.                                            *)

LEMMA HandlerHardware ==
  ASSUME NEW c \in Channels, Handler(c)
  PROVE  UNCHANGED <<main, fire, todo, adding, activeSwing, txBuf, rx>>
<1>1. UNCHANGED <<main, fire, todo, adding, activeSwing>>
  BY DEF Handler, Serve, SetActive, AwaitTriggerEnd, StartScan,
     StoreParameters, TakeParameters, Register, CompareParameters, SetReady,
     TriggerSwing, GetData, SendResults, EndGetData, SetInactive, Quit,
     LoseConnection, AwaitTrigger, Unlist, EndQuit, rhm, swings
<1>2. UNCHANGED <<txBuf, rx>>
  BY DEF Handler, Serve, SetActive, AwaitTriggerEnd, StartScan,
     StoreParameters, TakeParameters, Register, CompareParameters, SetReady,
     TriggerSwing, GetData, SendResults, EndGetData, SetInactive, Quit,
     LoseConnection, AwaitTrigger, Unlist, EndQuit, drivers
<1>3. QED BY <1>1, <1>2

(* The sequences of a channel go with the channel.                         *)
LEMMA HandlerSequences ==
  ASSUME TypeOK, NEW c \in Channels, Handler(c), NEW d \in Channels,
         d # c \/ c \in channels' \cup newChannels', NEW s \in Swing
  PROVE  cudaSeq'[s][d] = cudaSeq[s][d]
<1>1. CASE Unlist(c)
  <2>1. /\ c \notin channels' \cup newChannels'
        /\ \/ cudaSeq' = [t \in Swing |-> [cudaSeq[t] EXCEPT ![c] = None]]
           \/ cudaSeq' = cudaSeq
    BY <1>1 DEF Unlist, TypeOK, TypeLists
  <2>2. cudaSeq \in [Swing -> [Channels -> Label]]
    BY DEF TypeOK, TypeDrivers
  <2>3. QED BY <2>1, <2>2
<1>2. CASE ~Unlist(c)
  BY <1>2 DEF Handler, Serve, SetActive, AwaitTriggerEnd, StartScan,
     StoreParameters, TakeParameters, Register, CompareParameters, SetReady,
     TriggerSwing, GetData, SendResults, EndGetData, SetInactive, Quit,
     LoseConnection, AwaitTrigger, EndQuit, drivers
<1>3. QED BY <1>1, <1>2

(* The flags of the radar of another channel.                              *)
LEMMA InvalidKept ==
  ASSUME TypeOK, Counted, NEW c \in Channels, NEW gone \in BOOLEAN,
         gone => c \in Registered, NEW d \in channels, d # c
  PROVE  SwingInvalidWithout(gone)[Rnum[d]] = swingInvalid[Rnum[d]]
<1>1. d \in Registered /\ d \in Channels
  BY DEF Registered, TypeOK, TypeLists
<1>2. nRegistered \in Nat /\ swingInvalid \in [Radars -> BOOLEAN]
  BY DEF TypeOK, TypeLists, TypeFlags
<1>3. ~(gone /\ nRegistered <= 1)
  BY <1>1, <1>2, TwoRegistered
<1>4. Rnum[d] \in Radars
  BY <1>1
<1>5. QED BY <1>2, <1>3, <1>4 DEF SwingInvalidWithout

LEMMA HandlerFlags ==
  ASSUME OneEach, TypeOK, Counted, NEW c \in Channels, Handler(c),
         NEW d \in channels, d # c
  PROVE  /\ radarActive'[Rnum[d]] => radarActive[Rnum[d]]
         /\ lastPeriod'[Rnum[d]] = lastPeriod[Rnum[d]]
         /\ swingInvalid'[Rnum[d]] = swingInvalid[Rnum[d]]
<1> USE DEF flags
<1>1. /\ d \in Channels /\ Rnum[d] \in Radars /\ Rnum[c] \in Radars
      /\ Rnum[d] # Rnum[c]
      /\ radarActive \in [Radars -> BOOLEAN]
      /\ lastPeriod \in [Radars -> BOOLEAN]
      /\ swingInvalid \in [Radars -> BOOLEAN]
  BY DEF OneEach, TypeOK, TypeLists, TypeFlags
<1>2. CASE SetActive(c) BY <1>1, <1>2 DEF SetActive
<1>3. CASE StartScan(c) BY <1>1, <1>3 DEF StartScan
<1>4. CASE SetInactive(c)
  <2>1. PICK gone \in BOOLEAN : gone <=> c \in channels
    OBVIOUS
  <2>2. gone => c \in Registered
    BY <2>1 DEF Registered
  <2>3. SwingInvalidWithout(gone)[Rnum[d]] = swingInvalid[Rnum[d]]
    BY <2>2, InvalidKept
  <2>4. /\ swingInvalid' = [SwingInvalidWithout(gone) EXCEPT ![Rnum[c]] =
                              @ /\ On(Rnum[c]) \ {c} # {}]
        /\ radarActive' = RadarActiveWithout(c, gone)
        /\ lastPeriod' = lastPeriod
    BY <1>4, <2>1 DEF SetInactive, SwingInvalidWithout, RadarActiveWithout
  <2>5. SwingInvalidWithout(gone) \in [Radars -> BOOLEAN]
    BY DEF SwingInvalidWithout
  <2>6. swingInvalid'[Rnum[d]] = swingInvalid[Rnum[d]]
    BY <1>1, <2>3, <2>4, <2>5
  <2>7. radarActive'[Rnum[d]] => radarActive[Rnum[d]]
    BY <1>1, <2>4 DEF RadarActiveWithout
  <2>8. QED BY <2>4, <2>6, <2>7
<1>5. CASE EndQuit(c)
  <2>1. c \in Registered BY <1>5 DEF Registered, EndQuit
  <2>2. SwingInvalidWithout(TRUE)[Rnum[d]] = swingInvalid[Rnum[d]]
    BY <2>1, InvalidKept
  <2>3. QED BY <1>1, <1>5, <2>2 DEF EndQuit, RadarActiveWithout
<1>6. CASE \/ AwaitTriggerEnd(c) \/ StoreParameters(c) \/ TakeParameters(c)
           \/ Register(c) \/ CompareParameters(c) \/ SetReady(c)
           \/ TriggerSwing(c)
  BY <1>6 DEF AwaitTriggerEnd, StoreParameters, TakeParameters, Register,
     CompareParameters, SetReady, TriggerSwing
<1>7. CASE \/ GetData(c) \/ SendResults(c) \/ EndGetData(c)
           \/ AwaitTrigger(c) \/ Unlist(c) \/ Quit(c) \/ LoseConnection(c)
  BY <1>7 DEF GetData, SendResults, EndGetData, AwaitTrigger, Unlist, Quit,
     LoseConnection
<1>8. QED BY <1>2, <1>3, <1>4, <1>5, <1>6, <1>7 DEF Handler, Serve

(* The handler of a registered channel neither starts a scan nor raises    *)
(* the flags of its radar.                                                 *)
SameScan(c) ==
  /\ scan'[c].len = scan[c].len /\ scan'[c].period = scan[c].period
  /\ scan'[c].pre = scan[c].pre

LEMMA HandlerOwnScan ==
  ASSUME TypeOK, NEW c \in Channels, Stage(c), Handler(c),
         c \in channels \cup newChannels
  PROVE  /\ SameScan(c)
         /\ c \in channels =>
              /\ lastPeriod'[Rnum[c]] => lastPeriod[Rnum[c]]
              /\ radarActive'[Rnum[c]] => radarActive[Rnum[c]]
<1> USE DEF flags, chan, SameScan
<1>1. /\ Rnum[c] \in Radars
      /\ radarActive \in [Radars -> BOOLEAN]
      /\ lastPeriod \in [Radars -> BOOLEAN]
      /\ scan \in [Channels -> Scan]
  BY DEF TypeOK, TypeFlags, TypeChan
<1>2. CASE SetActive(c)
  <2>1. c \in channels /\ Running(c)
    BY <1>2, AtStart DEF SetActive
  <2>2. radarActive[Rnum[c]]
    BY <2>1 DEF Running
  <2>3. QED BY <1>1, <1>2, <2>1, <2>2 DEF SetActive
<1>3. CASE StartScan(c)
  <2>1. Prepared(c) /\ pc[c] = "newscan" /\ ~Gone(c)
    BY <1>3, AtStart DEF StartScan, Gone, Leaving
  <2>2. FALSE
    BY <2>1 DEF Prepared
  <2>3. QED BY <2>2
<1>4. CASE StoreParameters(c)
  <2>1. scan' = [scan EXCEPT ![c].initPar = FALSE] /\ UNCHANGED flags
    BY <1>4 DEF StoreParameters
  <2>2. scan'[c] = [scan[c] EXCEPT !.initPar = FALSE]
    BY <1>1, <2>1
  <2>3. scan[c] \in Scan BY <1>1
  <2>4. SameScan(c) BY <2>2, <2>3 DEF Scan
  <2>5. QED BY <2>1, <2>4
<1>5. CASE SetInactive(c) \/ EndQuit(c)
  BY <1>1, <1>5 DEF SetInactive, EndQuit, RadarActiveWithout
<1>6. CASE \/ AwaitTriggerEnd(c) \/ TakeParameters(c)
           \/ Register(c) \/ CompareParameters(c) \/ SetReady(c)
           \/ TriggerSwing(c)
  BY <1>6 DEF AwaitTriggerEnd, TakeParameters,
     Register, CompareParameters, SetReady, TriggerSwing
<1>7. CASE \/ GetData(c) \/ SendResults(c) \/ EndGetData(c)
           \/ AwaitTrigger(c) \/ Unlist(c) \/ Quit(c) \/ LoseConnection(c)
  BY <1>7 DEF GetData, SendResults, EndGetData, AwaitTrigger, Unlist, Quit,
     LoseConnection
<1>8. QED BY <1>2, <1>3, <1>4, <1>5, <1>6, <1>7 DEF Handler, Serve

(* The lists a handler puts its own channel on.                            *)
LEMMA HandlerLists ==
  ASSUME TypeOK, SetParExclusion, NEW c \in Channels, Handler(c)
  PROVE  /\ c \in channels' => c \in channels
         /\ c \in newChannels' => c \in newChannels \/ main # "initSend"
<1>1. CASE Register(c)
  <2>1. setPar = c
    BY <1>1 DEF Register, SetParExclusion
  <2>2. main # "initSend"
    BY <2>1 DEF SetParExclusion
  <2>3. QED BY <1>1, <2>2 DEF Register
<1>2. CASE ~Register(c)
  BY <1>2 DEF Handler, Serve, SetActive, AwaitTriggerEnd, StartScan,
     StoreParameters, TakeParameters, CompareParameters, SetReady,
     TriggerSwing, GetData, SendResults, EndGetData, SetInactive, Quit,
     LoseConnection, AwaitTrigger, Unlist, EndQuit, lists
<1>3. QED BY <1>1, <1>2

(* Prepares(c) depends on the scan, the sequences, the buffers and the     *)
(* flags of the channel.                                                   *)
LEMMA PreparesKept ==
  ASSUME TypeOK, NEW c \in Channels, Prepares(c),
         UNCHANGED <<main, todo, adding, activeSwing, txBuf>>,
         c \in newChannels' => c \in newChannels \/ main # "initSend",
         c \in channels' => c \in channels,
         c \in channels' \cup newChannels' =>
           \A s \in Swing : cudaSeq'[s][c] = cudaSeq[s][c],
         c \in (channels \cup newChannels) \cap (channels' \cup newChannels') =>
           SameScan(c),
         c \in channels' =>
           /\ lastPeriod'[Rnum[c]] => lastPeriod[Rnum[c]]
           /\ radarActive'[Rnum[c]] => radarActive[Rnum[c]]
  PROVE  Prepares(c)'
<1>1. activeSwing \in Swing /\ processingSwing \in Swing
  BY DEF TypeOK, TypeSwings
<1>2. ASSUME c \in newChannels', main' = "initSend"
      PROVE  cudaSeq'[activeSwing'][c] = scan'[c].period
  BY <1>1, <1>2 DEF Prepares, SameScan
<1>3. ASSUME c \in channels', ~IsLastPeriod(scan[c])'
      PROVE  (NextReady(c) /\ BeingPrepared(c))'
  <2>1. c \in channels /\ ~IsLastPeriod(scan[c]) /\ Upcoming(c)' = Upcoming(c)
    BY <1>3 DEF SameScan, IsLastPeriod, Camping, Upcoming, NextPeriod
  <2>2. NextReady(c) /\ BeingPrepared(c)
    BY <2>1 DEF Prepares
  <2>3. /\ cudaSeq'[activeSwing'][c] = cudaSeq[activeSwing][c]
        /\ cudaSeq'[processingSwing'][c] = cudaSeq[processingSwing][c]
    BY <1>1, <1>3
  <2>4. NextReady(c)'
    BY <1>3, <2>1, <2>2, <2>3 DEF NextReady
  <2>5. BeingPrepared(c)'
    BY <1>3, <2>1, <2>2, <2>3 DEF BeingPrepared, ToBeAdded
  <2>6. QED BY <2>4, <2>5
<1>4. QED BY <1>2, <1>3 DEF Prepares

LEMMA PreparesHandler ==
  ASSUME OneEach, StageInv, NEW c \in Channels, Handler(c),
         NEW d \in Channels, Prepares(d)
  PROVE  Prepares(d)'
<1>1. /\ TypeOK /\ SetParExclusion /\ Counted /\ Stage(d) /\ Stage(c)
  BY DEF StageInv, Stages
<1>2. UNCHANGED <<main, todo, adding, activeSwing, txBuf>>
  BY HandlerHardware
<1>3. CASE d = c
  <2>1. /\ c \in channels' => c \in channels
        /\ c \in newChannels' => c \in newChannels \/ main # "initSend"
    BY <1>1, HandlerLists
  <2>2. c \in channels' \cup newChannels' =>
          \A s \in Swing : cudaSeq'[s][c] = cudaSeq[s][c]
    BY <1>1, HandlerSequences
  <2>3. c \in channels \cup newChannels =>
          /\ SameScan(c)
          /\ c \in channels =>
               /\ lastPeriod'[Rnum[c]] => lastPeriod[Rnum[c]]
               /\ radarActive'[Rnum[c]] => radarActive[Rnum[c]]
    BY <1>1, HandlerOwnScan
  <2>4. QED BY <1>1, <1>2, <1>3, <2>1, <2>2, <2>3, PreparesKept
<1>4. CASE d # c
  <2>1. /\ UNCHANGED Own(d)
        /\ d \in channels' <=> d \in channels
        /\ d \in newChannels' <=> d \in newChannels
    BY <1>1, <1>4, HandlerElsewhere
  <2>2. SameScan(d)
    BY <2>1 DEF Own, SameScan
  <2>3. \A s \in Swing : cudaSeq'[s][d] = cudaSeq[s][d]
    BY <1>1, <1>4, HandlerSequences
  <2>4. d \in channels =>
          /\ lastPeriod'[Rnum[d]] => lastPeriod[Rnum[d]]
          /\ radarActive'[Rnum[d]] => radarActive[Rnum[d]]
    BY <1>1, <1>4, HandlerFlags
  <2>5. QED BY <1>1, <1>2, <2>1, <2>2, <2>3, <2>4, PreparesKept
<1>5. QED BY <1>3, <1>4
----------------------------------------------------------------------------
(* What the main thread prepares.                                          *)

(* It moves on between two triggers, or between two steps of the           *)
(* preparation, and touches nothing of it.                                 *)
LEMMA PreparesMoves ==
  ASSUME TypeOK, NEW c \in Channels, Prepares(c),
         UNCHANGED <<chan, drivers, lists, flags, activeSwing, adding>>,
         \/ main' \in {"crashed", "collect"}
         \/ main \in Between /\ main' \in Between \ {"initSend"}
         \/ main \in Prep \ {"add"} /\ main' \in Prep \ {"add"}
  PROVE  Prepares(c)'
<1> USE DEF chan, drivers, lists, flags
<1>1. main' # "initSend"
  BY DEF Prep, Between, Rest
<1>2. ASSUME c \in channels', ~IsLastPeriod(scan[c])'
      PROVE  (NextReady(c) /\ BeingPrepared(c))'
  <2>1. /\ NextReady(c) /\ BeingPrepared(c)
        /\ Upcoming(c)' = Upcoming(c)
    BY <1>2 DEF Prepares, IsLastPeriod, Camping, Upcoming, NextPeriod
  <2>2. CASE main' \in Between
    <3>1. main \in Between /\ main' \notin Prep
      BY <2>2 DEF Between, Prep, Rest
    <3>2. QED BY <2>1, <3>1 DEF NextReady, BeingPrepared
  <2>3. CASE main' \in Prep
    <3>1. /\ main \in Prep /\ main # "add" /\ main' # "add"
          /\ main' \notin Between
      BY <2>3 DEF Between, Prep, Rest
    <3>2. QED BY <2>1, <3>1 DEF NextReady, BeingPrepared, ToBeAdded
  <2>4. CASE main' \notin Between \cup Prep
    BY <2>4 DEF NextReady, BeingPrepared
  <2>5. QED BY <2>2, <2>3, <2>4
<1>3. QED BY <1>1, <1>2 DEF Prepares

(* initialize_channel sends the sequence of the current period, ...        *)
LEMMA InitStartPrepares ==
  ASSUME TypeOK, NEW c \in Channels, Stage(c), Prepares(c), InitStart
  PROVE  Prepares(c)'
<1>1. CASE main' = "crashed"
  BY <1>1 DEF Prepares, NextReady, BeingPrepared, Between, Prep, Rest
<1>2. CASE main' # "crashed"
  <2>1. /\ main = "initialize" /\ main' = "initSend"
        /\ cudaSeq' = [cudaSeq EXCEPT ![activeSwing] = [d \in Channels |->
             IF d \in newChannels THEN scan[d].period
                                  ELSE cudaSeq[activeSwing][d]]]
        /\ UNCHANGED <<scan, txBuf, activeSwing, channels, newChannels,
                       radarActive>>
    BY <1>2 DEF InitStart, swings, lists, flags
  <2>2. cudaSeq \in [Swing -> [Channels -> Label]] /\ activeSwing \in Swing
    BY DEF TypeOK, TypeDrivers, TypeSwings
  <2>3. cudaSeq'[activeSwing'][c] =
          IF c \in newChannels THEN scan[c].period ELSE cudaSeq[activeSwing][c]
    BY <2>1, <2>2
  <2>4. c \in newChannels => c \notin channels
    BY DEF Stage
  <2>5. ASSUME c \in channels', ~IsLastPeriod(scan[c])'
        PROVE  (NextReady(c) /\ BeingPrepared(c))'
    <3>1. /\ NextReady(c) /\ c \notin newChannels
          /\ Upcoming(c)' = Upcoming(c)
      BY <2>1, <2>4, <2>5 DEF Prepares, IsLastPeriod, Camping, Upcoming,
         NextPeriod
    <3>2. main \in Between /\ main' \notin Prep
      BY <2>1 DEF Between, Rest, Prep
    <3>3. QED BY <2>1, <2>3, <3>1, <3>2 DEF NextReady, BeingPrepared
  <2>6. QED BY <2>1, <2>3, <2>5 DEF Prepares
<1>3. QED BY <1>1, <1>2

LEMMA GeneratedAt ==
  ASSUME TypeOK, NEW s \in Swing, NEW R, NEW c \in Channels, Rnum[c] \in R
  PROVE  Generated(s, R)[s][c] = cudaSeq[s][c]
<1>1. txBuf \in [Swing -> [Channels -> Label]]
  BY DEF TypeOK, TypeDrivers
<1>2. QED BY <1>1 DEF Generated

(* ... and generates the buffers of the swing that is next.                *)
LEMMA InitEndPrepares ==
  ASSUME TypeOK, Aligned, NEW c \in Channels, Stage(c), Prepares(c), InitEnd
  PROVE  Prepares(c)'
<1>1. CASE main' = "crashed"
  BY <1>1 DEF Prepares, NextReady, BeingPrepared, Between, Prep, Rest
<1>2. CASE main' # "crashed"
  <2>1. /\ main = "initSend" /\ main' = "check"
        /\ todo \subseteq newChannels /\ channels' = channels \cup todo
        /\ txBuf' = Generated(activeSwing, ActiveRadars)
        /\ UNCHANGED <<scan, cudaSeq, activeSwing, radarActive>>
    BY <1>2 DEF InitEnd, swings, flags
  <2>2. activeSwing \in Swing /\ Rnum[c] \in Radars
    BY DEF TypeOK, TypeSwings
  <2>3. radarActive[Rnum[c]] => txBuf'[activeSwing][c] = cudaSeq[activeSwing][c]
    BY <2>1, <2>2, GeneratedAt DEF ActiveRadars
  <2>4. ASSUME c \in channels', ~IsLastPeriod(scan[c])'
        PROVE  (NextReady(c) /\ BeingPrepared(c))'
    <3>1. Upcoming(c)' = Upcoming(c)
      BY <2>1 DEF Upcoming, NextPeriod, Camping
    <3>2. cudaSeq[activeSwing][c] = Upcoming(c)
      <4>1. CASE c \in channels
        BY <2>1, <2>4, <4>1 DEF Prepares, NextReady, Between, Rest,
           IsLastPeriod, Camping
      <4>2. CASE c \notin channels
        <5>1. c \in newChannels /\ Waiting(c)
          BY <2>1, <2>4, <4>2 DEF Stage
        <5>2. scan[c].pre
          BY <5>1 DEF Waiting, Start1
        <5>3. QED BY <2>1, <5>1, <5>2 DEF Prepares, Upcoming
      <4>3. QED BY <4>1, <4>2
    <3>3. main' \notin Prep
      BY <2>1 DEF Prep
    <3>4. QED BY <2>1, <2>3, <3>1, <3>2, <3>3 DEF NextReady, BeingPrepared
  <2>5. QED BY <2>1, <2>4 DEF Prepares
<1>3. QED BY <1>1, <1>2

(* Every channel still has to be added when the loop starts.               *)
LEMMA FinishPrepares ==
  ASSUME NEW c \in Channels, Finish
  PROVE  Prepares(c)'
<1>1. main' = "add" /\ todo' = channels /\ channels' = channels
  BY DEF Finish, lists
<1>2. QED BY <1>1 DEF Prepares, NextReady, BeingPrepared, ToBeAdded, Between,
   Rest

(* A channel that is being prepared has left its pre-period.               *)
LEMMA PrepScan ==
  ASSUME NEW c \in Channels, Stage(c), c \in channels, main \in Prep
  PROVE  ~scan[c].pre
<1>1. Fired(c) \/ (\E x \in Swing : Missed(c, x)) \/ Running(c) \/ Leaves(c)
  BY AtAdd
<1>2. main \notin {"collect", "finish"}
  BY DEF Prep
<1>3. CASE Fired(c) BY <1>2, <1>3 DEF Fired, First1
<1>4. CASE \E x \in Swing : Missed(c, x) BY <1>2, <1>4 DEF Missed, First1
<1>5. CASE Running(c) BY <1>5 DEF Running, Going
<1>6. CASE Leaves(c)
  BY <1>6 DEF Leaves, Ended, Stuck, Over
<1>7. QED BY <1>1, <1>3, <1>4, <1>5, <1>6

(* The channels passed by keep what the others have.                       *)
LEMMA AddLastPrepares ==
  ASSUME OneEach, TypeOK, NEW d \in Channels, AddLast(d), NEW c \in Channels,
         Prepares(c)
  PROVE  Prepares(c)'
<1>1. /\ main = "add" /\ main' = "add" /\ adding = "none" /\ adding' = "none"
      /\ todo' = todo \ {d} /\ IsLastPeriod(scan[d])
      /\ lastPeriod' = [lastPeriod EXCEPT ![Rnum[d]] = TRUE]
      /\ cudaSeq' = [cudaSeq EXCEPT ![processingSwing][d] = None]
      /\ channels' \subseteq channels
      /\ UNCHANGED <<scan, txBuf, activeSwing>>
  BY DEF AddLast, swings, chan
<1>2. /\ cudaSeq \in [Swing -> [Channels -> Label]]
      /\ activeSwing \in Swing /\ processingSwing \in Swing
      /\ lastPeriod \in [Radars -> BOOLEAN]
      /\ Rnum[c] \in Radars /\ Rnum[d] \in Radars
  BY DEF TypeOK, TypeDrivers, TypeSwings, TypeFlags
<1>3. ASSUME c \in channels', ~IsLastPeriod(scan[c])'
      PROVE  (NextReady(c) /\ BeingPrepared(c))'
  <2>1. /\ c # d /\ Rnum[c] # Rnum[d] /\ BeingPrepared(c)
        /\ Upcoming(c)' = Upcoming(c)
    BY <1>1, <1>3 DEF OneEach, Prepares, IsLastPeriod, Camping, Upcoming,
       NextPeriod
  <2>2. /\ cudaSeq'[processingSwing'][c] = cudaSeq[processingSwing][c]
        /\ lastPeriod'[Rnum[c]] = lastPeriod[Rnum[c]]
        /\ ToBeAdded(c)' <=> ToBeAdded(c)
    BY <1>1, <1>2, <2>1 DEF ToBeAdded
  <2>3. BeingPrepared(c)'
    BY <1>1, <2>1, <2>2 DEF BeingPrepared
  <2>4. main' \notin Between
    BY <1>1 DEF Between, Rest
  <2>5. QED BY <2>3, <2>4 DEF NextReady
<1>4. QED BY <1>1, <1>3 DEF Prepares

LEMMA AddNotActivePrepares ==
  ASSUME OneEach, TypeOK, NEW d \in Channels, AddNotActive(d), Stage(d),
         NEW c \in Channels, Prepares(c)
  PROVE  Prepares(c)'
<1>1. /\ main = "add" /\ main' = "add" /\ adding = "none" /\ adding' = "none"
      /\ todo' = todo \ {d} /\ ~active[d] /\ channels' = channels
      /\ lastPeriod' = [lastPeriod EXCEPT ![Rnum[d]] = FALSE]
      /\ UNCHANGED <<scan, txBuf, cudaSeq, activeSwing>>
  BY DEF AddNotActive, swings, chan, lists, drivers
<1>2. /\ lastPeriod \in [Radars -> BOOLEAN]
      /\ Rnum[c] \in Radars /\ Rnum[d] \in Radars
  BY DEF TypeOK, TypeFlags
<1>3. d \notin channels
  BY <1>1 DEF Stage
<1>4. ASSUME c \in channels', ~IsLastPeriod(scan[c])'
      PROVE  (NextReady(c) /\ BeingPrepared(c))'
  <2>1. /\ c # d /\ Rnum[c] # Rnum[d] /\ BeingPrepared(c)
        /\ Upcoming(c)' = Upcoming(c)
    BY <1>1, <1>3, <1>4 DEF OneEach, Prepares, IsLastPeriod, Camping,
       Upcoming, NextPeriod
  <2>2. /\ lastPeriod'[Rnum[c]] = lastPeriod[Rnum[c]]
        /\ ToBeAdded(c)' <=> ToBeAdded(c)
    BY <1>1, <1>2, <2>1 DEF ToBeAdded
  <2>3. BeingPrepared(c)'
    BY <1>1, <2>1, <2>2 DEF BeingPrepared
  <2>4. main' \notin Between
    BY <1>1 DEF Between, Rest
  <2>5. QED BY <2>3, <2>4 DEF NextReady
<1>5. QED BY <1>1, <1>4 DEF Prepares

LEMMA AddUpdatePrepares ==
  ASSUME OneEach, TypeOK, NEW d \in Channels, AddUpdate(d),
         NEW c \in Channels, Prepares(c)
  PROVE  Prepares(c)'
<1>1. CASE main' = "crashed"
  BY <1>1 DEF Prepares, NextReady, BeingPrepared, Between, Prep, Rest
<1>2. CASE main' # "crashed"
  <2>1. /\ main = "add" /\ main' = "add" /\ adding = "none" /\ adding' = d
        /\ todo' = todo \ {d} /\ channels' = channels
        /\ lastPeriod' = [lastPeriod EXCEPT ![Rnum[d]] = FALSE]
        /\ UNCHANGED <<scan, txBuf, cudaSeq, activeSwing>>
    BY <1>2 DEF AddUpdate, swings, lists, drivers
  <2>2. /\ lastPeriod \in [Radars -> BOOLEAN]
        /\ Rnum[c] \in Radars /\ Rnum[d] \in Radars
    BY DEF TypeOK, TypeFlags
  <2>3. ASSUME c \in channels', ~IsLastPeriod(scan[c])', c # d
        PROVE  BeingPrepared(c)'
    <3>1. /\ Rnum[c] # Rnum[d] /\ BeingPrepared(c)
          /\ Upcoming(c)' = Upcoming(c)
      BY <2>1, <2>3 DEF OneEach, Prepares, IsLastPeriod, Camping,
         Upcoming, NextPeriod
    <3>2. /\ lastPeriod'[Rnum[c]] = lastPeriod[Rnum[c]]
          /\ ToBeAdded(c)' <=> ToBeAdded(c)
      BY <2>1, <2>2, <2>3, <3>1 DEF ToBeAdded
    <3>3. QED BY <2>1, <3>1, <3>2 DEF BeingPrepared
  <2>4. c = d => BeingPrepared(c)'
    BY <2>1 DEF BeingPrepared, ToBeAdded
  <2>5. NextReady(c)' /\ main' # "initSend"
    BY <2>1 DEF NextReady, Between, Rest
  <2>6. QED BY <2>3, <2>4, <2>5 DEF Prepares
<1>3. QED BY <1>1, <1>2

LEMMA AddSendPrepares ==
  ASSUME TypeOK, SendsNext, NEW d \in Channels, AddSend(d), NEW c \in Channels,
         Stage(c), Prepares(c)
  PROVE  Prepares(c)'
<1>1. /\ main = "add" /\ main' = "add" /\ adding = d /\ adding' = "none"
      /\ todo' = todo /\ channels' = channels
      /\ cudaSeq' = [cudaSeq EXCEPT ![processingSwing][d] = payload[d]]
      /\ UNCHANGED <<scan, txBuf, lastPeriod, activeSwing>>
  BY DEF AddSend, swings, lists, flags
<1>2. /\ cudaSeq \in [Swing -> [Channels -> Label]]
      /\ processingSwing \in Swing /\ d # "none"
  BY DEF TypeOK, TypeDrivers, TypeSwings
<1>3. payload[d] = NextPeriod(scan[d]) /\ ~lastPeriod[Rnum[d]]
  BY <1>1, <1>2 DEF SendsNext
<1>4. ASSUME c \in channels', ~IsLastPeriod(scan[c])'
      PROVE  (NextReady(c) /\ BeingPrepared(c))'
  <2>1. /\ c \in channels /\ BeingPrepared(c)
        /\ Upcoming(c)' = Upcoming(c)
    BY <1>1, <1>4 DEF Prepares, IsLastPeriod, Camping, Upcoming, NextPeriod
  <2>2. CASE c = d
    <3>1. ~scan[c].pre
      BY <1>1, <2>1, PrepScan DEF Prep
    <3>2. cudaSeq'[processingSwing'][c] = Upcoming(c)
      BY <1>1, <1>2, <1>3, <2>2, <3>1 DEF Upcoming
    <3>3. QED BY <1>1, <1>3, <2>1, <2>2, <3>2 DEF BeingPrepared, NextReady,
       Between, Rest
  <2>3. CASE c # d
    <3>1. /\ cudaSeq'[processingSwing'][c] = cudaSeq[processingSwing][c]
          /\ ToBeAdded(c)' <=> ToBeAdded(c)
      BY <1>1, <1>2, <2>3 DEF ToBeAdded
    <3>2. QED BY <1>1, <2>1, <3>1 DEF BeingPrepared, NextReady, Between, Rest
  <2>4. QED BY <2>2, <2>3
<1>5. QED BY <1>1, <1>4 DEF Prepares

LEMMA GeneratePrepares ==
  ASSUME TypeOK, NEW c \in Channels, Prepares(c), Generate
  PROVE  Prepares(c)'
<1>1. /\ main = "add" /\ adding = "none" /\ todo = {} /\ main' = "ready"
      /\ txBuf' = Generated(processingSwing,
                            {r \in ActiveRadars : ~lastPeriod[r]})
      /\ UNCHANGED <<scan, cudaSeq, radarActive, channels, activeSwing>>
  BY DEF Generate, swings, lists, flags, chan
<1>2. /\ processingSwing \in Swing /\ Rnum[c] \in Radars /\ c # "none"
  BY DEF TypeOK, TypeSwings
<1>3. ASSUME c \in channels', ~IsLastPeriod(scan[c])'
      PROVE  (NextReady(c) /\ BeingPrepared(c))'
  <2>1. /\ cudaSeq[processingSwing][c] = Upcoming(c) /\ ~lastPeriod[Rnum[c]]
        /\ Upcoming(c)' = Upcoming(c)
    BY <1>1, <1>2, <1>3 DEF Prepares, BeingPrepared, ToBeAdded, Prep,
       IsLastPeriod, Camping, Upcoming, NextPeriod
  <2>2. radarActive[Rnum[c]] =>
          txBuf'[processingSwing][c] = cudaSeq[processingSwing][c]
    BY <1>1, <1>2, <2>1, GeneratedAt DEF ActiveRadars
  <2>3. QED BY <1>1, <2>1, <2>2 DEF BeingPrepared, NextReady, Between, Rest
<1>4. QED BY <1>1, <1>3 DEF Prepares

(* What was prepared is what is transmitted next.                          *)
LEMMA SwitchPrepares ==
  ASSUME TypeOK, NEW c \in Channels, Prepares(c), Switch
  PROVE  Prepares(c)'
<1>1. /\ main = "switch" /\ main' = "autotrigger"
      /\ activeSwing' = processingSwing
      /\ UNCHANGED <<scan, cudaSeq, txBuf, radarActive, channels>>
  BY DEF Switch, lists, flags, chan, drivers
<1>2. ASSUME c \in channels', ~IsLastPeriod(scan[c])'
      PROVE  (NextReady(c) /\ BeingPrepared(c))'
  <2>1. BeingPrepared(c) /\ Upcoming(c)' = Upcoming(c)
    BY <1>1, <1>2 DEF Prepares, IsLastPeriod, Camping, Upcoming, NextPeriod
  <2>2. QED BY <1>1, <2>1 DEF BeingPrepared, ToBeAdded, NextReady, Prep
<1>3. QED BY <1>1, <1>2 DEF Prepares

LEMMA AutoTriggerPrepares ==
  ASSUME TypeOK, NEW c \in Channels, Prepares(c), AutoTrigger
  PROVE  Prepares(c)'
<1>1. /\ main = "autotrigger" /\ main' = "end"
      /\ UNCHANGED <<cudaSeq, txBuf, radarActive, channels, activeSwing>>
  BY DEF AutoTrigger, swings, lists, flags, drivers
<1>2. SameScan(c)
  <2>1. \/ scan'[c] = scan[c]
        \/ scan'[c] = [scan[c] EXCEPT !.first = FALSE]
    BY DEF AutoTrigger
  <2>2. scan[c] \in Scan
    BY DEF TypeOK, TypeChan
  <2>3. QED BY <2>1, <2>2 DEF SameScan, Scan
<1>3. ASSUME c \in channels', ~IsLastPeriod(scan[c])'
      PROVE  (NextReady(c) /\ BeingPrepared(c))'
  <2>1. NextReady(c) /\ Upcoming(c)' = Upcoming(c)
    BY <1>1, <1>2, <1>3 DEF Prepares, SameScan, IsLastPeriod, Camping,
       Upcoming, NextPeriod
  <2>2. QED BY <1>1, <2>1 DEF NextReady, BeingPrepared, Between, Prep
<1>4. QED BY <1>1, <1>3 DEF Prepares

LEMMA SetupPrepares ==
  ASSUME TypeOK, NEW c \in Channels, Prepares(c), Setup \/ End
  PROVE  Prepares(c)'
<1>1. /\ \/ main = "setup" /\ main' = "fire"
         \/ main = "end" /\ main' = "loop"
      /\ UNCHANGED <<cudaSeq, txBuf, radarActive, channels, activeSwing, scan>>
  BY DEF Setup, End, swings, lists, flags, drivers, chan
<1>2. ASSUME c \in channels', ~IsLastPeriod(scan[c])'
      PROVE  (NextReady(c) /\ BeingPrepared(c))'
  <2>1. NextReady(c) /\ Upcoming(c)' = Upcoming(c)
    BY <1>1, <1>2 DEF Prepares, IsLastPeriod, Camping, Upcoming, NextPeriod
  <2>2. QED BY <1>1, <2>1 DEF NextReady, BeingPrepared, Between, Rest, Prep
<1>3. QED BY <1>1, <1>2 DEF Prepares

LEMMA PreparesMain ==
  ASSUME OneEach, StageInv, SendsNext, Main, NEW c \in Channels, Prepares(c)
  PROVE  Prepares(c)'
<1>1. TypeOK /\ Aligned /\ \A d \in Channels : Stage(d)
  BY DEF StageInv, Stages
<1>2. CASE \/ NoticeNew \/ NothingNew \/ AwaitSetPar \/ Arm \/ LoopAgain
           \/ Start \/ \E d \in Channels : AwaitActive(d)
  <2>1. /\ UNCHANGED <<chan, drivers, lists, flags, activeSwing, adding>>
        /\ main \in Between
        /\ main' \in (Between \ {"initSend"}) \cup {"crashed"}
    BY <1>2 DEF NoticeNew, NothingNew, AwaitSetPar, Arm, LoopAgain, Start,
       AwaitActive, swings, Between, Rest
  <2>2. QED BY <1>1, <2>1, PreparesMoves
<1>3. CASE ReadyClear \/ ReadyStore
  <2>1. /\ UNCHANGED <<chan, drivers, lists, flags, activeSwing, adding>>
        /\ main \in Prep \ {"add"} /\ main' \in Prep \ {"add"}
    BY <1>3 DEF ReadyClear, ReadyStore, swings, Prep
  <2>2. QED BY <1>1, <2>1, PreparesMoves
<1>4. CASE Fire \/ Collect
  <2>1. main' \in {"collect", "finish", "crashed"}
    BY <1>4 DEF Fire, Collect
  <2>2. QED BY <2>1 DEF Prepares, NextReady, BeingPrepared, Between, Prep, Rest
<1>5. CASE \/ InitStart \/ InitEnd \/ Finish \/ Generate \/ Switch
           \/ AutoTrigger \/ Setup \/ End
  BY <1>1, <1>5, InitStartPrepares, InitEndPrepares, FinishPrepares,
     GeneratePrepares, SwitchPrepares, AutoTriggerPrepares, SetupPrepares
<1>6. CASE \E d \in Channels : \/ AddLast(d) \/ AddNotActive(d)
                               \/ AddUpdate(d) \/ AddSend(d)
  BY <1>1, <1>6, AddLastPrepares, AddNotActivePrepares, AddUpdatePrepares,
     AddSendPrepares
<1>7. QED BY <1>2, <1>3, <1>4, <1>5, <1>6 DEF Main

LEMMA PrepareInit == ASSUME Init PROVE PrepareInv
<1>1. \A c \in Channels : Prepares(c)
  BY DEF Init, Prepares
<1>2. QED BY <1>1, StageInit, SendsInit DEF PrepareInv

LEMMA PrepareStep ==
  ASSUME MayStop = {}, ~Preemptible, OneEach, PrepareInv, [Next]_vars
  PROVE  PrepareInv'
<1>1. StageInv /\ SendsNext /\ TypeOK
  BY DEF PrepareInv, StageInv
<1>2. StageInv' /\ SendsNext'
  BY <1>1, StageStep, SendsStep
<1>3. ASSUME NEW c \in Channels PROVE Prepares(c)'
  <2>1. Prepares(c)
    BY DEF PrepareInv
  <2>2. CASE UNCHANGED vars
    BY <2>1, <2>2 DEF vars, rhm, swings, lists, flags, chan, drivers,
       Prepares, NextReady, BeingPrepared, ToBeAdded, IsLastPeriod, Camping,
       Upcoming, NextPeriod
  <2>3. QED BY <1>1, <2>1, <2>2, PreparesMain, PreparesHandler DEF Next
<1>4. QED BY <1>2, <1>3 DEF PrepareInv

LEMMA PrepareAlways ==
  ASSUME MayStop = {}, ~Preemptible, OneEach PROVE Spec => []PrepareInv
<1>1. Init => PrepareInv BY PrepareInit
<1>2. PrepareInv /\ [Next]_vars => PrepareInv' BY PrepareStep
<1>3. QED BY <1>1, <1>2, PTL DEF Spec

(* What is put on the air for a channel is the period its scan is at       *)
(* (GeneratedForSwing): the sequence, the buffer and the scan, kept in     *)
(* three places, are those of one period whenever USRP_TRIGGER is sent.    *)
THEOREM OnAirIsUpcoming ==
  ASSUME MayStop = {}, ~Preemptible, OneEach PROVE Spec => []GeneratedForSwing
<1>1. PrepareInv => GeneratedForSwing
  <2> SUFFICES ASSUME PrepareInv, main = "fire", NEW c \in OnAir,
                      ~IsLastPeriod(scan[c])
               PROVE  txBuf[activeSwing][c] = Upcoming(c)
    BY DEF GeneratedForSwing
  <2>1. c \in Channels /\ c \in channels /\ radarActive[Rnum[c]]
    BY DEF PrepareInv, StageInv, TypeOK, TypeLists, OnAir
  <2>2. NextReady(c)
    BY <2>1 DEF PrepareInv, Prepares
  <2>3. QED BY <2>1, <2>2 DEF NextReady, Between
<1>2. QED BY <1>1, PrepareAlways, PTL
----------------------------------------------------------------------------
(* The entries of resultDict_list.                                         *)

LEMMA PushedSet ==
  ASSUME NEW T, NEW q \in Seq(T), NEW e \in T
  PROVE  ToSet(<<e>> \o q) \subseteq {e} \cup ToSet(q)
<1> DEFINE p == <<e>> \o q
<1>1. /\ Len(p) = 1 + Len(q) /\ p \in Seq(T)
      /\ \A i \in 1 .. 1 + Len(q) : p[i] = IF i <= 1 THEN e ELSE q[i - 1]
  OBVIOUS
<1> HIDE DEF p
<1>2. DOMAIN p = 1 .. 1 + Len(q) /\ DOMAIN q = 1 .. Len(q)
  BY <1>1
<1>3. ASSUME NEW i \in 1 .. 1 + Len(q)
      PROVE  p[i] \in {e} \cup ToSet(q)
  <2>1. CASE i = 1 BY <1>1, <2>1
  <2>2. CASE i # 1
    <3>1. i - 1 \in 1 .. Len(q) /\ ~(i <= 1)
      BY <2>2
    <3>2. q[i - 1] \in ToSet(q)
      BY <1>2, <3>1 DEF ToSet
    <3>3. QED BY <1>1, <3>1, <3>2
  <2>3. QED BY <2>1, <2>2
<1>4. ToSet(p) = {p[i] : i \in 1 .. 1 + Len(q)}
  BY <1>2 DEF ToSet
<1>5. ToSet(p) \subseteq {e} \cup ToSet(q)
  BY <1>3, <1>4
<1>6. QED BY <1>5 DEF p

LEMMA FrontSet ==
  ASSUME NEW T, NEW q \in Seq(T), q # <<>>
  PROVE  ToSet(Front(q)) \subseteq ToSet(q) /\ Last(q) \in ToSet(q)
<1> DEFINE f == Front(q)
<1>1. /\ Len(q) \in Nat \ {0} /\ DOMAIN q = 1 .. Len(q)
      /\ f \in Seq(T) /\ Len(f) = Len(q) - 1
      /\ \A i \in 1 .. Len(q) - 1 : f[i] = q[i]
  BY FrontAt
<1>2. Last(q) \in ToSet(q)
  BY <1>1 DEF Last, ToSet
<1> HIDE DEF f
<1>3. /\ ToSet(f) = {f[i] : i \in 1 .. Len(q) - 1}
      /\ ToSet(q) = {q[i] : i \in 1 .. Len(q)}
  BY <1>1 DEF ToSet
<1>4. ToSet(f) \subseteq ToSet(q)
  BY <1>1, <1>3
<1>5. QED BY <1>2, <1>4 DEF f

LEMMA FilledSet ==
  ASSUME NEW T, NEW q \in Seq(T), NEW e \in T, q # <<>>
  PROVE  ToSet(Append(Front(q), e)) \subseteq {e} \cup ToSet(Front(q))
<1> DEFINE f == Front(q)
<1>1. f \in Seq(T)
  BY FrontAt
<1> HIDE DEF f
<1>2. /\ Len(Append(f, e)) = Len(f) + 1 /\ DOMAIN f = 1 .. Len(f)
      /\ Append(f, e)[Len(f) + 1] = e
      /\ \A i \in 1 .. Len(f) : Append(f, e)[i] = f[i]
      /\ Len(f) \in Nat /\ Append(f, e) \in Seq(T)
  BY <1>1, AppendProperties
<1>3. DOMAIN Append(f, e) = 1 .. Len(f) + 1
  BY <1>2
<1>4. ASSUME NEW i \in 1 .. Len(f) + 1
      PROVE  Append(f, e)[i] \in {e} \cup ToSet(f)
  <2>1. CASE i = Len(f) + 1 BY <1>2, <2>1
  <2>2. CASE i # Len(f) + 1
    <3>1. i \in 1 .. Len(f) BY <1>2, <2>2
    <3>2. QED BY <1>2, <3>1 DEF ToSet
  <2>3. QED BY <2>1, <2>2
<1>5. ToSet(Append(f, e)) \subseteq {e} \cup ToSet(f)
  BY <1>3, <1>4 DEF ToSet
<1>6. QED BY <1>5 DEF f

(* A sequence of one or two entries has no others.                         *)
LEMMA FewEntries ==
  ASSUME NEW T, NEW q \in Seq(T), NEW e \in ToSet(q)
  PROVE  /\ Len(q) = 1 => e = q[1]
         /\ Len(q) = 2 => e = q[1] \/ e = q[2]
         /\ q # <<>>
<1>1. DOMAIN q = 1 .. Len(q) /\ Len(q) \in Nat
  OBVIOUS
<1>2. PICK i \in 1 .. Len(q) : e = q[i]
  BY <1>1 DEF ToSet
<1>3. Len(q) = 1 => i = 1
  BY <1>2
<1>4. Len(q) = 2 => i = 1 \/ i = 2
  BY <1>2
<1>5. q # <<>>
  BY <1>1, <1>2
<1>6. QED BY <1>2, <1>3, <1>4, <1>5
----------------------------------------------------------------------------
(* The handlers leave the entries as they are, or send the oldest.         *)

LEMMA HandlerSends ==
  ASSUME TypeOK, NEW c \in Channels, Handler(c),
         \A e \in Entries(c) : e.label # None => Sound(e),
         pc[c] = "sending" => Sound(sent[c])
  PROVE  /\ ToSet(results'[c]) \subseteq Entries(c)
         /\ pc'[c] = "sending" => Sound(sent'[c])
<1>1. /\ results \in [Channels -> Seq(Result)]
      /\ sent \in [Channels -> Result] /\ pc \in [Channels -> HandlerPoint]
  BY DEF TypeOK, TypeChan, TypeHandler
<1>2. CASE SendResults(c)
  <2>1. CASE results[c] = <<>>
    <3>1. results' = results /\ pc'[c] = "dead"
      BY <1>1, <1>2, <2>1 DEF SendResults, Goto
    <3>2. QED BY <3>1 DEF Entries
  <2>2. CASE results[c] # <<>>
    <3>1. /\ sent'[c] = Last(results[c]) /\ results'[c] = Front(results[c])
          /\ pc'[c] = "sending" => sent'[c].label # None
      BY <1>1, <1>2, <2>2 DEF SendResults, Goto
    <3>2. /\ ToSet(Front(results[c])) \subseteq ToSet(results[c])
          /\ Last(results[c]) \in ToSet(results[c])
      BY <1>1, <2>2, FrontSet
    <3>3. QED BY <3>1, <3>2 DEF Entries
  <2>3. QED BY <2>1, <2>2
<1>3. CASE ~SendResults(c)
  <2>1. UNCHANGED <<results, sent>>
    BY <1>3 DEF Handler, Serve, SetActive, AwaitTriggerEnd, StartScan,
       StoreParameters, TakeParameters, Register, CompareParameters, SetReady,
       TriggerSwing, GetData, EndGetData, SetInactive, Quit, LoseConnection,
       AwaitTrigger, Unlist, EndQuit, chan, handler
  <2>2. pc'[c] = "sending" => pc[c] = "sending"
    <3>1. CASE \/ SetActive(c) \/ AwaitTriggerEnd(c) \/ StartScan(c)
               \/ StoreParameters(c) \/ TakeParameters(c) \/ Register(c)
               \/ CompareParameters(c)
      BY <1>1, <3>1 DEF SetActive, AwaitTriggerEnd, StartScan,
         StoreParameters, TakeParameters, Register, CompareParameters, Goto,
         handler
    <3>2. CASE \/ SetReady(c) \/ TriggerSwing(c) \/ GetData(c)
               \/ EndGetData(c) \/ SetInactive(c) \/ Quit(c)
               \/ LoseConnection(c) \/ AwaitTrigger(c) \/ Unlist(c) \/ EndQuit(c)
      BY <1>1, <3>2 DEF SetReady, TriggerSwing, GetData, EndGetData,
         SetInactive, Quit, LoseConnection, AwaitTrigger, Unlist, EndQuit,
         Goto
    <3>3. QED BY <1>3, <3>1, <3>2 DEF Handler, Serve
  <2>3. QED BY <2>1, <2>2 DEF Entries
<1>4. QED BY <1>2, <1>3

(* A SET_ACTIVE that clears the flag of a swing is one of a camping        *)
(* program.                                                                *)
LEMMA HandlerOwnFlag ==
  ASSUME NoLateCamping, TypeOK, NEW c \in Channels, Stage(c), Handler(c),
         c \in channels', LatePeriods # {}
  PROVE  swingInvalid'[Rnum[c]] = swingInvalid[Rnum[c]]
<1>1. /\ Rnum[c] \in Radars
      /\ swingInvalid \in [Radars -> BOOLEAN]
  BY DEF TypeOK, TypeFlags
<1>2. CASE SetActive(c)
  <2>1. c \in channels /\ pc[c] = "idle"
    BY <1>2 DEF SetActive
  <2>2. Running(c) /\ Prepared(c)
    BY <2>1, AtStart
  <2>3. scan[c].len = ScanLen[c] /\ Camping(scan[c])
    BY <2>1, <2>2 DEF Running, Going, Began, Prepared, Gone, Leaving
  <2>4. QED BY <2>3 DEF NoLateCamping, Camping
<1>3. CASE SetInactive(c)
  BY <1>3 DEF SetInactive
<1>4. CASE EndQuit(c)
  <2>1. c \notin channels
    BY <1>4, EndQuitStage
  <2>2. channels' = channels
    BY <1>4 DEF EndQuit
  <2>3. QED BY <2>1, <2>2
<1>5. CASE ~(SetActive(c) \/ SetInactive(c) \/ EndQuit(c))
  BY <1>5 DEF Handler, Serve, AwaitTriggerEnd, StartScan, StoreParameters,
     TakeParameters, Register, CompareParameters, SetReady, TriggerSwing,
     GetData, SendResults, EndGetData, Quit, LoseConnection, AwaitTrigger,
     Unlist, flags
<1>6. QED BY <1>2, <1>3, <1>4, <1>5

LEMMA RecordedKept ==
  ASSUME TypeOK, NEW c \in Channels, Recorded(c),
         UNCHANGED <<main, fire, activeSwing, rx>>,
         ToSet(results'[c]) \subseteq Entries(c),
         pc'[c] = "sending" => Sound(sent'[c]),
         c \in channels' =>
           /\ c \in channels /\ SameScan(c)
           /\ swingInvalid'[Rnum[c]] = swingInvalid[Rnum[c]]
  PROVE  Recorded(c)'
<1>1. Entries(c)' \subseteq Entries(c)
  BY DEF Entries
<1>2. \A e \in Entries(c)' : e.label # None => Sound(e)
  BY <1>1 DEF Recorded
<1>3. ASSUME main' # "crashed", c \in channels', NEW e \in Entries(c)'
      PROVE  Open(c, e)'
  <2>1. Open(c, e)
    BY <1>1, <1>3 DEF Recorded
  <2>2. PeriodOf(c, e)' = PeriodOf(c, e)
    BY <1>3 DEF PeriodOf, SameScan, NextPeriod, Camping
  <2>3. New(e)' <=> New(e)
    BY DEF New
  <2>4. main' \in AfterCollect <=> main \in AfterCollect
    BY DEF AfterCollect
  <2>5. QED BY <1>3, <2>1, <2>2, <2>3, <2>4 DEF Open
<1>4. QED BY <1>2, <1>3 DEF Recorded, Sound

LEMMA RecordedHandler ==
  ASSUME OwnFlags, NoLateCamping, StageInv, StageInv', OnTime, OnTime',
         NEW c \in Channels, Handler(c), NEW d \in Channels, Recorded(d)
  PROVE  Recorded(d)'
<1>1. /\ TypeOK /\ TypeOK' /\ SetParExclusion /\ Counted
      /\ Stage(d) /\ Stage(c)
  BY DEF StageInv, Stages
<1>2. UNCHANGED <<main, fire, activeSwing, rx>>
  BY HandlerHardware
<1>3. LatePeriods = {} => swingInvalid'[Rnum[d]] = swingInvalid[Rnum[d]]
  BY <1>1 DEF OnTime, TypeOK, TypeFlags
<1>4. CASE d = c
  <2>1. /\ ToSet(results'[c]) \subseteq Entries(c)
        /\ pc'[c] = "sending" => Sound(sent'[c])
    BY <1>1, <1>4, HandlerSends DEF Recorded
  <2>2. c \in channels' => c \in channels /\ SameScan(c)
    BY <1>1, HandlerLists, HandlerOwnScan
  <2>3. c \in channels' => swingInvalid'[Rnum[c]] = swingInvalid[Rnum[c]]
    BY <1>1, <1>3, <1>4, HandlerOwnFlag
  <2>4. QED BY <1>1, <1>2, <1>4, <2>1, <2>2, <2>3, RecordedKept
<1>5. CASE d # c
  <2>1. UNCHANGED Own(d) /\ (d \in channels' <=> d \in channels)
    BY <1>1, <1>5, HandlerElsewhere
  <2>2. /\ SameScan(d) /\ ToSet(results'[d]) \subseteq Entries(d)
        /\ pc'[d] = "sending" => Sound(sent'[d])
    BY <2>1 DEF Own, SameScan, Entries, Recorded
  <2>3. d \in channels => swingInvalid'[Rnum[d]] = swingInvalid[Rnum[d]]
    BY <1>1, <1>3, <1>5, HandlerFlags DEF OwnFlags
  <2>4. QED BY <1>1, <1>2, <2>1, <2>2, <2>3, RecordedKept
<1>6. QED BY <1>4, <1>5
----------------------------------------------------------------------------
(* Where the entries without samples are, as the stages of the channels    *)
(* have it.                                                                *)

LEMMA NoEntry ==
  ASSUME NEW c \in Channels, NoResults(c), NEW e \in Entries(c)
  PROVE  FALSE
BY DEF NoResults, Entries, ToSet

LEMMA UnfilledAtFire ==
  ASSUME TypeOK, NEW c \in Channels, Stage(c), c \in channels, main = "fire",
         NEW e \in Entries(c), e.label = None
  PROVE  e.swing = processingSwing
<1>1. results[c] \in Seq(Result) /\ e \in ToSet(results[c])
  BY DEF TypeOK, TypeChan, Entries
<1>2. ~NoResults(c)
  BY NoEntry
<1>3. Shot(c)
  BY <1>2, AtFire DEF Primed, Lost
<1>4. One(c, processingSwing, None)
  BY <1>2, <1>3 DEF Shot, Pending
<1>5. e = results[c][1]
  BY <1>1, <1>4, FewEntries DEF One
<1>6. QED BY <1>4, <1>5 DEF One, Filled

LEMMA UnfilledAtCollect ==
  ASSUME TypeOK, Aligned, NEW c \in Channels, Stage(c), c \in channels,
         main = "collect"
  PROVE  IF radarActive[Rnum[c]] /\ state[c][processingSwing] = PROCESSING
         THEN results[c] # <<>> =>
                /\ Filled(Last(results[c]), processingSwing, None)
                /\ \A e \in ToSet(Front(results[c])) : e.swing = activeSwing
         ELSE \A e \in Entries(c) : e.label = None =>
                e.swing = activeSwing /\ radarActive[Rnum[c]]
<1>1. results[c] \in Seq(Result)
  BY DEF TypeOK, TypeChan
<1>2. /\ Fired(c) \/ (\E x \in Swing : Missed(c, x)) \/ Lost(c) \/ Shot(c)
      /\ Fired(c) \/ (\E x \in Swing : Missed(c, x)) \/ Lost(c) =>
           state[c][processingSwing] # PROCESSING
      /\ Shot(c) => radarActive[Rnum[c]]
                    /\ state[c][processingSwing] = PROCESSING
  BY AtCollect, OnlyShot
<1>3. ASSUME Shot(c), results[c] # <<>>
      PROVE  /\ Filled(Last(results[c]), processingSwing, None)
             /\ \A e \in ToSet(Front(results[c])) : e.swing = activeSwing
  <2>1. \/ One(c, processingSwing, None)
        \/ Two(c, activeSwing, None, processingSwing, None)
    BY <1>3 DEF Shot, Pending, NoResults
  <2>2. CASE One(c, processingSwing, None)
    <3>1. Last(results[c]) = results[c][1] /\ Front(results[c]) = <<>>
      BY <1>1, <1>3, <2>2, SentResult DEF One
    <3>2. QED BY <2>2, <3>1 DEF One, ToSet
  <2>3. CASE Two(c, activeSwing, None, processingSwing, None)
    <3>1. /\ Last(results[c]) = results[c][2]
          /\ Len(Front(results[c])) = 1
          /\ Front(results[c])[1] = results[c][1]
      BY <1>1, <1>3, <2>3, SentResult DEF Two
    <3>2. Front(results[c]) \in Seq(Result)
      BY <1>1, <1>3, FrontAt
    <3>3. \A e \in ToSet(Front(results[c])) : e = results[c][1]
      BY <3>1, <3>2, FewEntries
    <3>4. QED BY <2>3, <3>1, <3>3 DEF Two, Filled
  <2>4. QED BY <2>1, <2>2, <2>3
<1>4. ASSUME ~Shot(c), NEW e \in Entries(c)
      PROVE  e.swing = activeSwing /\ radarActive[Rnum[c]]
  <2>1. Fired(c)
    BY <1>2, <1>4, NoEntry DEF Missed, Lost
  <2>2. lastSwing = activeSwing
    <3>1. Rnum[c] \in Radars /\ transmitting[Rnum[c]]
      BY <2>1 DEF Fired
    <3>2. nextSwing = processingSwing
      BY <3>1 DEF Aligned, Fires
    <3>3. QED BY <3>2 DEF lastSwing, TypeOK, TypeSwings
  <2>3. One(c, activeSwing, None)
    BY <1>4, <2>1, <2>2, NoEntry DEF Fired, Pending
  <2>4. e = results[c][1]
    BY <1>1, <1>4, <2>3, FewEntries DEF One, Entries
  <2>5. QED BY <2>1, <2>3, <2>4 DEF One, Filled, Fired
<1>5. QED BY <1>2, <1>3, <1>4

LEMMA UnfilledAtFinish ==
  ASSUME TypeOK, Aligned, NEW c \in Channels, Stage(c), c \in channels,
         main = "finish", NEW e \in Entries(c), e.label = None
  PROVE  e.swing = activeSwing /\ (scan[c].pre \/ ~IsLastPeriod(scan[c]))
<1>1. /\ results[c] \in Seq(Result) /\ e \in ToSet(results[c])
      /\ scan[c].period \in Nat
  BY DEF TypeOK, TypeChan, Scan, Entries
<1>2. Fired(c) \/ (\E x \in Swing : Missed(c, x)) \/ Lost(c) \/ Shot(c)
  BY AtCollect
<1>3. CASE Shot(c)
  <2>1. CASE IsLastPeriod(scan[c])
    <3>1. One(c, processingSwing, scan[c].period)
      BY <1>3, <2>1 DEF Shot
    <3>2. e = results[c][1]
      BY <1>1, <3>1, FewEntries DEF One
    <3>3. QED BY <1>1, <3>1, <3>2 DEF One, Filled
  <2>2. CASE ~IsLastPeriod(scan[c])
    <3>1. Two(c, activeSwing, None, processingSwing, scan[c].period)
      BY <1>3, <2>2 DEF Shot
    <3>2. e = results[c][1] \/ e = results[c][2]
      BY <1>1, <3>1, FewEntries DEF Two
    <3>3. QED BY <1>1, <2>2, <3>1, <3>2 DEF Two, Filled
  <2>3. QED BY <2>1, <2>2
<1>4. CASE ~Shot(c)
  <2>1. Fired(c)
    BY <1>2, <1>4, NoEntry DEF Missed, Lost
  <2>2. lastSwing = activeSwing
    <3>1. Rnum[c] \in Radars /\ transmitting[Rnum[c]]
      BY <2>1 DEF Fired
    <3>2. nextSwing = processingSwing
      BY <3>1 DEF Aligned, Fires
    <3>3. QED BY <3>2 DEF lastSwing, TypeOK, TypeSwings
  <2>3. One(c, activeSwing, None) /\ scan[c].pre
    BY <2>1, <2>2, NoEntry DEF Fired, Pending, Start1
  <2>4. e = results[c][1]
    BY <1>1, <2>3, FewEntries DEF One
  <2>5. QED BY <2>3, <2>4 DEF One, Filled
<1>5. QED BY <1>3, <1>4
----------------------------------------------------------------------------
(* What the main thread records.                                           *)

LEMMA RecordedMoves ==
  ASSUME TypeOK, NEW c \in Channels, Recorded(c),
         UNCHANGED <<results, rx, pc, sent, activeSwing>>,
         c \in channels' => c \in channels /\ SameScan(c),
         c \in channels' => swingInvalid'[Rnum[c]] = swingInvalid[Rnum[c]],
         \/ main' = "crashed"
         \/ {main, main'} \subseteq Rest \cup {"armed", "setup", "fire"}
         \/ {main, main'} \subseteq Prep /\ fire' = fire
         \/ {main, main'} \subseteq {"autotrigger", "end"} /\ fire' = fire
  PROVE  Recorded(c)'
<1>1. Entries(c)' = Entries(c)
  BY DEF Entries
<1>2. /\ \A e \in Entries(c)' : e.label # None => Sound(e)
      /\ pc'[c] = "sending" => Sound(sent'[c])
  BY <1>1 DEF Recorded
<1>3. ASSUME main' # "crashed", c \in channels', NEW e \in Entries(c)'
      PROVE  Open(c, e)'
  <2>1. {main, main'} \cap {"collect", "finish", "crashed"} = {}
    BY <1>3 DEF Rest, Prep
  <2>2. Open(c, e)
    BY <1>1, <1>3, <2>1 DEF Recorded
  <2>3. PeriodOf(c, e)' = PeriodOf(c, e)
    BY <1>3, <2>1 DEF PeriodOf, SameScan
  <2>4. New(e)' <=> New(e)
    BY <1>3 DEF New, Rest, Prep
  <2>5. main' \in AfterCollect => main \in AfterCollect
    BY <1>3 DEF AfterCollect, Rest, Prep
  <2>6. New(e) => fire' = fire
    BY <1>3 DEF New, Rest, Prep
  <2>7. QED BY <1>3, <2>2, <2>3, <2>4, <2>5, <2>6 DEF Open
<1>4. QED BY <1>2, <1>3 DEF Recorded, Sound

LEMMA RecordedQuiet ==
  ASSUME TypeOK, NEW c \in Channels, Recorded(c),
         \/ NoticeNew \/ NothingNew \/ AwaitSetPar \/ InitStart \/ Arm
         \/ LoopAgain \/ Start \/ Setup \/ \E d \in Channels : AwaitActive(d)
  PROVE  Recorded(c)'
<1>1. /\ UNCHANGED <<results, rx, pc, sent, activeSwing>>
      /\ UNCHANGED <<scan, channels, swingInvalid>>
      /\ \/ main' = "crashed"
         \/ {main, main'} \subseteq Rest \cup {"armed", "setup", "fire"}
  BY DEF NoticeNew, NothingNew, AwaitSetPar, InitStart, Arm, LoopAgain, Start,
     Setup, AwaitActive, swings, lists, flags, handler, chan, drivers, Rest
<1>2. SameScan(c)
  BY <1>1 DEF SameScan
<1>3. QED BY <1>1, <1>2, RecordedMoves

LEMMA RecordedAdd ==
  ASSUME TypeOK, Counted, NEW c \in Channels, Recorded(c),
         \/ Generate \/ ReadyClear \/ ReadyStore
         \/ \E d \in Channels : \/ AddLast(d) \/ AddNotActive(d)
                                \/ AddUpdate(d) \/ AddSend(d)
  PROVE  Recorded(c)'
<1>1. /\ UNCHANGED <<results, rx, pc, sent, activeSwing, fire, scan>>
      /\ channels' \subseteq channels
      /\ main' = "crashed" \/ {main, main'} \subseteq Prep
  BY DEF Generate, ReadyClear, ReadyStore, AddLast, AddNotActive, AddUpdate,
     AddSend, swings, lists, handler, chan, drivers, Prep
<1>2. SameScan(c)
  BY <1>1 DEF SameScan
<1>3. c \in channels' => swingInvalid'[Rnum[c]] = swingInvalid[Rnum[c]]
  <2>1. ASSUME NEW d \in Channels, AddLast(d), c \in channels'
        PROVE  swingInvalid'[Rnum[c]] = swingInvalid[Rnum[c]]
    <3>1. CASE ~scan[d].post
      BY <2>1, <3>1 DEF AddLast
    <3>2. CASE scan[d].post
      <4>1. PICK gone \in BOOLEAN : gone <=> d \in channels
        OBVIOUS
      <4>2. /\ swingInvalid' = SwingInvalidWithout(gone)
            /\ channels' = channels \ {d}
        BY <2>1, <3>2, <4>1 DEF AddLast, SwingInvalidWithout
      <4>3. gone => d \in Registered
        BY <4>1 DEF Registered
      <4>4. c \in channels /\ c # d
        BY <2>1, <4>2
      <4>5. QED BY <4>2, <4>3, <4>4, InvalidKept
    <3>3. QED BY <3>1, <3>2
  <2>2. \/ swingInvalid' = swingInvalid
        \/ \E d \in Channels : AddLast(d)
    BY DEF Generate, ReadyClear, ReadyStore, AddNotActive, AddUpdate, AddSend,
       flags
  <2>3. QED BY <2>1, <2>2
<1>4. QED BY <1>1, <1>2, <1>3, RecordedMoves

LEMMA RecordedAutoTrigger ==
  ASSUME TypeOK, NEW c \in Channels, Recorded(c), AutoTrigger
  PROVE  Recorded(c)'
<1>1. /\ UNCHANGED <<results, rx, pc, sent, activeSwing, fire, channels>>
      /\ swingInvalid' = swingInvalid
      /\ main = "autotrigger" /\ main' = "end"
  BY DEF AutoTrigger, swings, lists, flags, handler, drivers
<1>2. SameScan(c)
  <2>1. \/ scan'[c] = scan[c]
        \/ scan'[c] = [scan[c] EXCEPT !.first = FALSE]
    BY DEF AutoTrigger
  <2>2. scan[c] \in Scan
    BY DEF TypeOK, TypeChan
  <2>3. QED BY <2>1, <2>2 DEF SameScan, Scan
<1>3. QED BY <1>1, <1>2, RecordedMoves

(* A channel that is registered has no results yet.                        *)
LEMMA RecordedInitEnd ==
  ASSUME TypeOK, NEW c \in Channels, Stage(c), Recorded(c), InitEnd
  PROVE  Recorded(c)'
<1>1. /\ UNCHANGED <<results, rx, pc, sent, activeSwing, scan, swingInvalid>>
      /\ main = "initSend" /\ main' \in {"check", "crashed"}
      /\ main' # "crashed" =>
           todo \subseteq newChannels /\ channels' = channels \cup todo
      /\ main' = "crashed" => channels' = channels
  BY DEF InitEnd, swings, flags, handler
<1>2. SameScan(c)
  BY <1>1 DEF SameScan
<1>3. CASE c \in channels \/ c \notin channels'
  BY <1>1, <1>2, <1>3, RecordedMoves DEF Rest
<1>4. CASE c \notin channels /\ c \in channels'
  <2>1. c \in newChannels /\ NoResults(c)
    BY <1>1, <1>4 DEF Stage, Waiting
  <2>2. Entries(c) = {} /\ Entries(c)' = {}
    BY <1>1, <2>1, NoEntry DEF Entries
  <2>3. pc'[c] = "sending" => Sound(sent'[c])
    BY <1>1 DEF Recorded
  <2>4. QED BY <2>2, <2>3 DEF Recorded, Sound
<1>5. QED BY <1>3, <1>4
LEMMA RecordedSwitch ==
  ASSUME TypeOK, NEW c \in Channels, Recorded(c), Switch
  PROVE  Recorded(c)'
<1>1. /\ UNCHANGED <<results, rx, pc, sent, fire, channels, scan>>
      /\ swingInvalid' = swingInvalid /\ activeSwing' = processingSwing
      /\ main = "switch" /\ main' = "autotrigger"
  BY DEF Switch, lists, flags, handler, chan, drivers
<1>2. activeSwing \in Swing /\ processingSwing' = activeSwing
  BY <1>1 DEF TypeOK, TypeSwings
<1>3. Entries(c)' = Entries(c)
  BY <1>1 DEF Entries
<1>4. ASSUME c \in channels', NEW e \in Entries(c)' PROVE Open(c, e)'
  <2>1. Open(c, e)
    BY <1>1, <1>3, <1>4 DEF Recorded
  <2>2. PeriodOf(c, e)' = PeriodOf(c, e)
    BY <1>1 DEF PeriodOf
  <2>3. New(e)' <=> New(e)
    BY <1>1, <1>2 DEF New, Prep
  <2>4. QED BY <1>1, <2>1, <2>2, <2>3 DEF Open, AfterCollect, Prep
<1>5. QED BY <1>1, <1>3, <1>4 DEF Recorded, Sound

(* The flag is raised for the swing the trigger did not transmit.          *)
LEMMA RecordedEnd ==
  ASSUME TypeOK, NEW c \in Channels, Recorded(c), End
  PROVE  Recorded(c)'
<1>1. /\ UNCHANGED <<results, rx, pc, sent, fire, channels, scan, activeSwing>>
      /\ swingInvalid' = InvalidAfterTrigger
      /\ main = "end" /\ main' = "loop"
  BY DEF End, swings, lists, handler, chan, drivers
<1>2. swingInvalid'[Rnum[c]] <=> swingInvalid[Rnum[c]] \/ ~fire
  BY <1>1 DEF InvalidAfterTrigger
<1>3. Entries(c)' = Entries(c)
  BY <1>1 DEF Entries
<1>4. ASSUME c \in channels', NEW e \in Entries(c)' PROVE Open(c, e)'
  <2>1. Open(c, e)
    BY <1>1, <1>3, <1>4 DEF Recorded
  <2>2. PeriodOf(c, e)' = PeriodOf(c, e)
    BY <1>1 DEF PeriodOf
  <2>3. ~New(e)' /\ main' \notin AfterCollect /\ main \in AfterCollect
    BY <1>1 DEF New, AfterCollect, Prep
  <2>4. QED BY <1>1, <1>2, <2>1, <2>2, <2>3 DEF Open
<1>5. QED BY <1>1, <1>3, <1>4 DEF Recorded, Sound

LEMMA FireData ==
  ASSUME TypeOK, NEW c \in Channels, Fire, main' # "crashed"
  PROVE  LET new == /\ c \in channels /\ radarActive[Rnum[c]]
                    /\ transmitting[Rnum[c]] /\ ~IsLastPeriod(scan[c])
         IN  /\ rx'[processingSwing][c] = rx[processingSwing][c]
             /\ new /\ fire =>
                  rx'[activeSwing][c] = txBuf[activeSwing][c]
             /\ ~new => results'[c] = results[c]
             /\ new => \E e \in Result :
                  /\ e.swing = activeSwing /\ e.of = Upcoming(c)
                  /\ e.fired = fire /\ e.valid /\ e.label = None
                  /\ results'[c] = <<e>> \o results[c]
<1> DEFINE onAir == {d \in OnAir : transmitting[Rnum[d]]}
           entry(d) == [swing |-> activeSwing, of |-> Upcoming(d),
                        fired |-> fire, valid |-> TRUE, data |-> None,
                        label |-> None]
<1>1. /\ results' = [d \in Channels |->
           IF d \in onAir /\ ~IsLastPeriod(scan[d])
           THEN <<entry(d)>> \o results[d] ELSE results[d]]
      /\ rx' = IF fire
               THEN [rx EXCEPT ![activeSwing] = [d \in Channels |->
                       IF d \in onAir THEN txBuf[activeSwing][d] ELSE @[d]]]
               ELSE rx
  BY DEF Fire
<1>2. c \in onAir <=> c \in channels /\ radarActive[Rnum[c]]
                      /\ transmitting[Rnum[c]]
  BY DEF OnAir
<1>3. /\ rx \in [Swing -> [Channels -> Label]]
      /\ activeSwing \in Swing /\ processingSwing \in Swing
      /\ processingSwing # activeSwing
  BY DEF TypeOK, TypeDrivers, TypeSwings
<1>4. entry(c) \in Result
  <2>1. Upcoming(c) \in Label
    BY DEF TypeOK, TypeChan, Scan, Upcoming, NextPeriod
  <2>2. QED BY <2>1, <1>3 DEF TypeOK, TypeRhm, Result
<1>5. /\ entry(c).swing = activeSwing /\ entry(c).of = Upcoming(c)
      /\ entry(c).fired = fire /\ entry(c).valid /\ entry(c).label = None
  OBVIOUS
<1>6. results'[c] = IF c \in onAir /\ ~IsLastPeriod(scan[c])
                    THEN <<entry(c)>> \o results[c] ELSE results[c]
  BY <1>1
<1> HIDE DEF onAir, entry
<1>7. rx'[processingSwing][c] = rx[processingSwing][c]
  BY <1>1, <1>3
<1>8. c \in onAir /\ fire => rx'[activeSwing][c] = txBuf[activeSwing][c]
  BY <1>1, <1>3
<1>9. QED BY <1>2, <1>4, <1>5, <1>6, <1>7, <1>8

(* What USRP_TRIGGER puts on the air is what the new entry is for.         *)
LEMMA RecordedFire ==
  ASSUME TypeOK, NEW c \in Channels, Stage(c), Apart => Prepares(c),
         Recorded(c), Fire
  PROVE  Recorded(c)'
<1>1. /\ UNCHANGED <<pc, sent, fire, channels, scan, activeSwing,
                     swingInvalid>>
      /\ main = "fire" /\ main' \in {"collect", "crashed"}
      /\ main' = "crashed" => UNCHANGED <<results, rx>>
  BY DEF Fire, swings, lists, flags, handler
<1>2. CASE main' = "crashed"
  BY <1>1, <1>2, RecordedMoves DEF SameScan
<1>3. CASE main' # "crashed"
  <2> DEFINE new == /\ c \in channels /\ radarActive[Rnum[c]]
                    /\ transmitting[Rnum[c]] /\ ~IsLastPeriod(scan[c])
  <2>1. /\ rx'[processingSwing][c] = rx[processingSwing][c]
        /\ new /\ fire => rx'[activeSwing][c] = txBuf[activeSwing][c]
        /\ ~new => results'[c] = results[c]
        /\ new => \E e \in Result :
             /\ e.swing = activeSwing /\ e.of = Upcoming(c)
             /\ e.fired = fire /\ e.valid /\ e.label = None
             /\ results'[c] = <<e>> \o results[c]
    BY <1>3, FireData
  <2>2. results[c] \in Seq(Result) /\ activeSwing \in Swing
    BY DEF TypeOK, TypeChan, TypeSwings
  <2>3. ASSUME NEW e \in Entries(c), c \in channels PROVE Open(c, e)'
    <3> SUFFICES ASSUME e.label = None PROVE Open(c, e)'
      BY DEF Open
    <3>1. Open(c, e) /\ e.swing = processingSwing
      BY <1>1, <2>3, UnfilledAtFire DEF Recorded
    <3>2. e.swing # activeSwing
      BY <2>2, <3>1
    <3>3. ~New(e) /\ ~New(e)' /\ main' \notin AfterCollect
      BY <1>1, <1>3, <3>2 DEF New, AfterCollect, Prep
    <3>4. PeriodOf(c, e)' = PeriodOf(c, e)
      BY <1>1, <3>2 DEF PeriodOf
    <3>5. QED BY <1>1, <2>1, <3>1, <3>3, <3>4 DEF Open
  <2>4. CASE ~new
    <3>1. Entries(c)' = Entries(c)
      BY <2>1, <2>4 DEF Entries
    <3>2. QED BY <1>1, <2>3, <3>1 DEF Recorded, Sound
  <2>5. CASE new
    <3>1. PICK n \in Result : /\ n.swing = activeSwing /\ n.of = Upcoming(c)
                              /\ n.fired = fire /\ n.valid /\ n.label = None
                              /\ results'[c] = <<n>> \o results[c]
      BY <2>1, <2>5
    <3>2. Entries(c)' \subseteq {n} \cup Entries(c)
      <4>1. ToSet(<<n>> \o results[c]) \subseteq {n} \cup ToSet(results[c])
        BY <2>2, PushedSet
      <4>2. QED BY <3>1, <4>1 DEF Entries
    <3>3. Open(c, n)'
      <4>1. main' = "collect" /\ main' \notin AfterCollect
        BY <1>1, <1>3 DEF AfterCollect, Prep
      <4>2. New(n)' /\ PeriodOf(c, n)' = Upcoming(c)
        BY <1>1, <3>1, <4>1 DEF New, PeriodOf, Upcoming, NextPeriod, Camping
      <4>3. Apart => NextReady(c) /\ radarActive[Rnum[c]]
        BY <2>5 DEF Prepares
      <4>4. Apart /\ fire => rx'[activeSwing][c] = Upcoming(c)
        BY <1>1, <2>1, <2>5, <4>3 DEF NextReady, Between
      <4>5. /\ n.of = PeriodOf(c, n)' /\ n.valid
            /\ Apart /\ n.fired => rx'[n.swing][c] = n.of
            /\ n.fired <=> fire'
        BY <1>1, <3>1, <4>2, <4>4
      <4>6. QED BY <4>1, <4>2, <4>5 DEF Open
    <3>4. \A e \in Entries(c)' : e.label # None => Sound(e)
      BY <3>1, <3>2 DEF Recorded
    <3>5. c \in channels
      BY <2>5
    <3>6. \A e \in Entries(c)' : Open(c, e)'
      BY <2>3, <3>2, <3>3, <3>5
    <3>7. QED BY <1>1, <3>4, <3>6 DEF Recorded, Sound
  <2>6. QED BY <2>4, <2>5
<1>4. QED BY <1>2, <1>3

LEMMA CollectData ==
  ASSUME TypeOK, NEW c \in Channels, Collect, main' # "crashed"
  PROVE  LET due == c \in channels /\ radarActive[Rnum[c]]
                      /\ state[c][processingSwing] = PROCESSING
         IN  /\ ~due => results'[c] = results[c]
             /\ due => /\ results[c] # <<>>
                       /\ \E e \in Result :
                            /\ e.label = scan[c].period
                            /\ e.of = Last(results[c]).of
                            /\ e.fired = Last(results[c]).fired
                            /\ e.valid <=> /\ ~swingInvalid[Rnum[c]]
                                           /\ Last(results[c]).valid
                            /\ e.valid => e.data = rx[processingSwing][c]
                            /\ results'[c] = Append(Front(results[c]), e)
<1> DEFINE D == {d \in Processing : radarActive[Rnum[d]]}
           filled(d) == IF swingInvalid[Rnum[d]]
                        THEN [Last(results[d]) EXCEPT !.valid = FALSE,
                                !.label = scan[d].period]
                        ELSE [Last(results[d]) EXCEPT
                                !.data = rx[processingSwing][d],
                                !.label = scan[d].period]
<1>1. /\ \A d \in D : results[d] # <<>>
      /\ results' = [d \in Channels |->
           IF d \in D THEN Append(Front(results[d]), filled(d))
                      ELSE results[d]]
  BY DEF Collect
<1>2. c \in D <=> c \in channels /\ radarActive[Rnum[c]]
                    /\ state[c][processingSwing] = PROCESSING
  BY DEF Processing
<1>3. /\ results[c] \in Seq(Result) /\ scan[c].period \in Label
      /\ rx[processingSwing][c] \in Label
  BY DEF TypeOK, TypeChan, TypeSwings, TypeDrivers, Scan
<1>4. ASSUME c \in D
      PROVE  /\ filled(c) \in Result /\ filled(c).label = scan[c].period
             /\ filled(c).of = Last(results[c]).of
             /\ filled(c).fired = Last(results[c]).fired
             /\ filled(c).valid <=> /\ ~swingInvalid[Rnum[c]]
                                    /\ Last(results[c]).valid
             /\ filled(c).valid => filled(c).data = rx[processingSwing][c]
  <2>1. results[c] # <<>> BY <1>1, <1>4
  <2>2. Last(results[c]) \in Result
    BY <1>3, <2>1, SequenceEnds
  <2>3. QED BY <1>3, <2>2 DEF Result
<1>5. results'[c] = IF c \in D THEN Append(Front(results[c]), filled(c))
                               ELSE results[c]
  BY <1>1
<1> HIDE DEF D, filled
<1>6. QED BY <1>1, <1>2, <1>4, <1>5

(* The samples that go into an entry are those of its own swing, or the    *)
(* flag keeps them out.                                                    *)
LEMMA RecordedCollect ==
  ASSUME TypeOK, Aligned, NEW c \in Channels, Stage(c), Recorded(c), Collect
  PROVE  Recorded(c)'
<1>1. /\ UNCHANGED <<pc, sent, fire, channels, scan, activeSwing, rx>>
      /\ main = "collect" /\ main' \in {"finish", "crashed"}
      /\ main' = "crashed" => UNCHANGED <<results, swingInvalid>>
      /\ main' = "finish" => swingInvalid' =
           [r \in Radars |-> swingInvalid[r] /\ ~radarActive[r]]
  BY DEF Collect, swings, lists, handler, drivers
<1>2. CASE main' = "crashed"
  BY <1>1, <1>2, RecordedMoves DEF SameScan
<1>3. CASE main' # "crashed"
  <2> DEFINE due == c \in channels /\ radarActive[Rnum[c]]
                      /\ state[c][processingSwing] = PROCESSING
  <2>1. /\ ~due => results'[c] = results[c]
        /\ due => /\ results[c] # <<>>
                  /\ \E e \in Result :
                       /\ e.label = scan[c].period
                       /\ e.of = Last(results[c]).of
                       /\ e.fired = Last(results[c]).fired
                       /\ e.valid <=> /\ ~swingInvalid[Rnum[c]]
                                      /\ Last(results[c]).valid
                       /\ e.valid => e.data = rx[processingSwing][c]
                       /\ results'[c] = Append(Front(results[c]), e)
    BY <1>3, CollectData
  <2>2. /\ results[c] \in Seq(Result) /\ activeSwing \in Swing
        /\ scan[c].period \in Nat
    BY DEF TypeOK, TypeChan, TypeSwings, Scan
  <2>3. ASSUME NEW e, c \in channels, Open(c, e),
               e.label = None => e.swing = activeSwing /\ radarActive[Rnum[c]]
        PROVE  Open(c, e)'
    <3> SUFFICES ASSUME e.label = None PROVE Open(c, e)'
      BY DEF Open
    <3>1. New(e) /\ New(e)'
      BY <1>1, <1>3, <2>3 DEF New
    <3>2. PeriodOf(c, e)' = PeriodOf(c, e)
      BY <1>1, <1>3 DEF PeriodOf, NextPeriod, Camping
    <3>3. ~swingInvalid'[Rnum[c]]
      BY <1>1, <1>3, <2>3
    <3>4. QED BY <1>1, <1>3, <2>3, <3>1, <3>2, <3>3 DEF Open
  <2>4. CASE ~due
    <3>1. Entries(c)' = Entries(c)
      BY <2>1, <2>4 DEF Entries
    <3>2. ASSUME c \in channels, NEW e \in Entries(c) PROVE Open(c, e)'
      <4>1. e.label = None => e.swing = activeSwing /\ radarActive[Rnum[c]]
        BY <1>1, <2>4, <3>2, UnfilledAtCollect
      <4>2. Open(c, e)
        BY <1>1, <3>2 DEF Recorded
      <4>3. QED BY <2>3, <3>2, <4>1, <4>2
    <3>3. QED BY <1>1, <3>1, <3>2 DEF Recorded, Sound
  <2>5. CASE due
    <3> DEFINE l == Last(results[c])
               front == Front(results[c])
    <3>1. PICK n \in Result : /\ n.label = scan[c].period
                              /\ n.of = l.of /\ n.fired = l.fired
                              /\ n.valid <=> ~swingInvalid[Rnum[c]] /\ l.valid
                              /\ n.valid => n.data = rx[processingSwing][c]
                              /\ results'[c] = Append(front, n)
      BY <2>1, <2>5
    <3>2. /\ Filled(l, processingSwing, None)
          /\ \A e \in ToSet(front) : e.swing = activeSwing
      BY <1>1, <2>1, <2>5, UnfilledAtCollect
    <3>3. l \in Entries(c) /\ ToSet(front) \subseteq Entries(c)
      BY <2>1, <2>2, <2>5, FrontSet DEF Entries
    <3>4. Entries(c)' \subseteq {n} \cup ToSet(front)
      <4>1. ToSet(Append(front, n)) \subseteq {n} \cup ToSet(front)
        BY <2>1, <2>2, <2>5, FilledSet
      <4>2. QED BY <3>1, <4>1 DEF Entries
    <3> HIDE DEF l, front
    <3>5. Sound(n)
      <4>1. /\ Open(c, l) /\ l.label = None
            /\ l.swing = processingSwing /\ l.swing # activeSwing
        BY <1>1, <2>2, <2>5, <3>2, <3>3 DEF Recorded, Filled
      <4>2. ~New(l) /\ PeriodOf(c, l) = scan[c].period
        BY <1>1, <4>1 DEF New, PeriodOf, Prep
      <4>3. /\ l.of = scan[c].period /\ l.valid
            /\ l.fired <=> ~swingInvalid[Rnum[c]]
            /\ Apart /\ l.fired => rx[processingSwing][c] = scan[c].period
        BY <4>1, <4>2 DEF Open
      <4>4. QED BY <3>1, <4>3 DEF Sound
    <3>6. n.label # None
      BY <2>2, <3>1
    <3>7. \A e \in ToSet(front) : Open(c, e)'
      <4>1. \A e \in ToSet(front) : Open(c, e)
        BY <1>1, <2>5, <3>3 DEF Recorded
      <4>2. QED BY <2>3, <2>5, <3>2, <4>1
    <3>8. Open(c, n)'
      BY <3>6 DEF Open
    <3>9. \A e \in Entries(c)' : e.label # None => Sound(e)
      BY <3>3, <3>4, <3>5 DEF Recorded
    <3>10. QED BY <1>1, <3>4, <3>7, <3>8, <3>9 DEF Recorded, Sound
  <2>6. QED BY <2>4, <2>5
<1>4. QED BY <1>2, <1>3

(* The scan moves on, and the entries with it.                             *)
LEMMA RecordedFinish ==
  ASSUME TypeOK, Aligned, NEW c \in Channels, Stage(c), Recorded(c), Finish
  PROVE  Recorded(c)'
<1>1. /\ UNCHANGED <<results, rx, pc, sent, fire, channels, activeSwing,
                     swingInvalid>>
      /\ main = "finish" /\ main' = "add"
      /\ scan' = [d \in Channels |-> IF d \in channels
                                     THEN PeriodFinished(scan[d]) ELSE scan[d]]
  BY DEF Finish, swings, lists, flags, handler, drivers
<1>2. Entries(c)' = Entries(c)
  BY <1>1 DEF Entries
<1>3. ASSUME c \in channels, NEW e \in Entries(c), e.label = None
      PROVE  Open(c, e)'
  <2>1. Open(c, e)
    BY <1>1, <1>3 DEF Recorded
  <2>2. e.swing = activeSwing /\ (scan[c].pre \/ ~IsLastPeriod(scan[c]))
    BY <1>1, <1>3, UnfilledAtFinish
  <2>3. New(e) /\ New(e)'
    BY <1>1, <2>2 DEF New, Prep
  <2>4. PeriodOf(c, e)' = PeriodOf(c, e)
    <3>1. scan'[c] = PeriodFinished(scan[c]) /\ scan[c] \in Scan
      BY <1>1, <1>3 DEF TypeOK, TypeChan
    <3>2. PeriodOf(c, e)' = PeriodFinished(scan[c]).period
      BY <1>1, <3>1 DEF PeriodOf
    <3>3. PeriodOf(c, e) = IF ~scan[c].pre THEN NextPeriod(scan[c])
                                           ELSE scan[c].period
      BY <1>1, <2>2 DEF PeriodOf
    <3>4. CASE scan[c].pre
      BY <3>1, <3>2, <3>3, <3>4 DEF PeriodFinished, Scan
    <3>5. CASE ~scan[c].pre
      BY <2>2, <3>1, <3>2, <3>3, <3>5 DEF PeriodFinished, NextPeriod, Scan
    <3>6. QED BY <3>4, <3>5
  <2>5. QED BY <1>1, <2>1, <2>3, <2>4 DEF Open, AfterCollect, Prep
<1>4. \A e \in Entries(c) : c \in channels => Open(c, e)'
  BY <1>3 DEF Open
<1>5. QED BY <1>1, <1>2, <1>4 DEF Recorded, Sound

LEMMA RecordedMain ==
  ASSUME StageInv, Main, NEW c \in Channels, Apart => Prepares(c), Recorded(c)
  PROVE  Recorded(c)'
<1>1. TypeOK /\ Aligned /\ Counted /\ Stage(c)
  BY DEF StageInv, Stages
<1>2. CASE \/ NoticeNew \/ NothingNew \/ AwaitSetPar \/ InitStart \/ Arm
           \/ LoopAgain \/ Start \/ Setup \/ \E d \in Channels : AwaitActive(d)
  BY <1>1, <1>2, RecordedQuiet
<1>3. CASE \/ Generate \/ ReadyClear \/ ReadyStore
           \/ \E d \in Channels : \/ AddLast(d) \/ AddNotActive(d)
                                  \/ AddUpdate(d) \/ AddSend(d)
  BY <1>1, <1>3, RecordedAdd
<1>4. CASE InitEnd \/ Fire \/ Collect \/ Finish
  BY <1>1, <1>4, RecordedInitEnd, RecordedFire, RecordedCollect, RecordedFinish
<1>5. CASE Switch \/ AutoTrigger \/ End
  BY <1>1, <1>5, RecordedSwitch, RecordedAutoTrigger, RecordedEnd
<1>6. QED BY <1>2, <1>3, <1>4, <1>5 DEF Main
----------------------------------------------------------------------------
(* The invariant, and what follows from it.                                *)

(* Only the end of a trigger raises the flag.                              *)
LEMMA FlagsCleared ==
  ASSUME TypeOK, [Next]_vars, ~End, NEW r \in Radars, swingInvalid'[r]
  PROVE  swingInvalid[r]
<1> USE DEF flags, SwingInvalidWithout
<1>1. swingInvalid \in [Radars -> BOOLEAN]
  BY DEF TypeOK, TypeFlags
<1>2. CASE UNCHANGED vars
  BY <1>2 DEF vars
<1>3. CASE Main
  <2>1. CASE \/ NoticeNew \/ NothingNew \/ AwaitSetPar \/ InitStart \/ InitEnd
             \/ Arm \/ LoopAgain \/ Start \/ Setup \/ Fire \/ Finish
    BY <2>1 DEF NoticeNew, NothingNew, AwaitSetPar, InitStart, InitEnd, Arm,
       LoopAgain, Start, Setup, Fire, Finish
  <2>2. CASE \/ Generate \/ ReadyClear \/ ReadyStore \/ Switch \/ AutoTrigger
             \/ \E c \in Channels : \/ AwaitActive(c) \/ AddNotActive(c)
                                    \/ AddUpdate(c) \/ AddSend(c)
    BY <2>2 DEF Generate, ReadyClear, ReadyStore, Switch, AutoTrigger,
       AwaitActive, AddNotActive, AddUpdate, AddSend
  <2>3. CASE Collect
    BY <1>1, <2>3 DEF Collect
  <2>4. CASE \E c \in Channels : AddLast(c)
    BY <1>1, <2>4 DEF AddLast
  <2>5. QED BY <1>3, <2>1, <2>2, <2>3, <2>4 DEF Main
<1>4. ASSUME NEW c \in Channels, Handler(c) PROVE swingInvalid[r]
  <2>1. CASE SetActive(c)
    BY <1>1, <2>1 DEF SetActive
  <2>2. CASE SetInactive(c)
    <3> DEFINE w == SwingInvalidWithout(c \in channels)
    <3>1. w \in [Radars -> BOOLEAN] /\ (w[r] => swingInvalid[r])
      BY <1>1
    <3>2. swingInvalid' = [w EXCEPT ![Rnum[c]] = @ /\ On(Rnum[c]) \ {c} # {}]
      BY <2>2 DEF SetInactive
    <3> HIDE DEF w
    <3>3. swingInvalid'[r] => w[r]
      BY <3>1, <3>2
    <3>4. QED BY <3>1, <3>3
  <2>3. CASE EndQuit(c)
    BY <1>1, <2>3 DEF EndQuit
  <2>4. CASE ~(SetActive(c) \/ SetInactive(c) \/ EndQuit(c))
    BY <1>4, <2>4 DEF Handler, Serve, AwaitTriggerEnd, StartScan,
       StoreParameters, TakeParameters, Register, CompareParameters, SetReady,
       TriggerSwing, GetData, SendResults, EndGetData, Quit, LoseConnection,
       AwaitTrigger, Unlist
  <2>5. QED BY <2>1, <2>2, <2>3, <2>4
<1>5. QED BY <1>2, <1>3, <1>4 DEF Next

(* When every period finds its time, none is left out.                     *)
LEMMA OnTimeStep == ASSUME TypeOK, OnTime, [Next]_vars PROVE OnTime'
<1> DEFINE Points == {"setup", "autotrigger", "end"} \cup Fires \cup Prep
<1> SUFFICES ASSUME LatePeriods = {}
             PROVE  /\ main' \in Points => fire'
                    /\ \A r \in Radars : ~swingInvalid'[r]
  BY DEF OnTime
<1>1. (main \in Points => fire) /\ \A r \in Radars : ~swingInvalid[r]
  BY DEF OnTime
<1>2. main' \in Points => fire'
  <2>1. CASE Start
    BY <2>1 DEF Start, MayBeLate, Fires, Prep
  <2>2. CASE \/ NoticeNew \/ NothingNew \/ AwaitSetPar \/ InitStart \/ InitEnd
             \/ Arm \/ LoopAgain \/ End \/ \E c \in Channels : AwaitActive(c)
    BY <2>2 DEF NoticeNew, NothingNew, AwaitSetPar, InitStart, InitEnd, Arm,
       LoopAgain, End, AwaitActive, Fires, Prep
  <2>3. CASE \/ Setup \/ Fire \/ Collect \/ Finish \/ Generate \/ ReadyClear
             \/ ReadyStore \/ Switch \/ AutoTrigger
             \/ \E c \in Channels : \/ AddLast(c) \/ AddNotActive(c)
                                    \/ AddUpdate(c) \/ AddSend(c)
    <3>1. main \in Points /\ fire' = fire
      BY <2>3 DEF Setup, Fire, Collect, Finish, Generate, ReadyClear,
         ReadyStore, Switch, AutoTrigger, AddLast, AddNotActive, AddUpdate,
         AddSend, Fires, Prep
    <3>2. QED BY <1>1, <3>1
  <2>4. CASE UNCHANGED <<main, fire>>
    BY <1>1, <2>4
  <2>5. Main \/ UNCHANGED <<main, fire>>
    BY HandlerHardware DEF Next, vars, rhm
  <2>6. QED BY <2>1, <2>2, <2>3, <2>4, <2>5 DEF Main
<1>3. ASSUME NEW r \in Radars PROVE ~swingInvalid'[r]
  <2>1. CASE End
    BY <1>1, <2>1 DEF End, InvalidAfterTrigger
  <2>2. CASE ~End
    BY <1>1, <2>2, FlagsCleared
  <2>3. QED BY <2>1, <2>2
<1>4. QED BY <1>2, <1>3

LEMMA DataInit == ASSUME Init PROVE DataInv
<1>1. OnTime
  BY DEF Init, OnTime, Fires, Prep
<1>2. ASSUME NEW c \in Channels PROVE Recorded(c)
  <2>1. Entries(c) = {} /\ pc[c] # "sending"
    BY DEF Init, Entries, ToSet
  <2>2. QED BY <2>1 DEF Recorded
<1>3. QED BY <1>1, <1>2, StageInit, PrepareInit DEF DataInv

LEMMA DataStep ==
  ASSUME MayStop = {}, OwnFlags, NoLateCamping, DataInv, [Next]_vars
  PROVE  DataInv'
<1>1. StageInv /\ OnTime /\ TypeOK
  BY DEF DataInv, StageInv
<1>2. StageInv' /\ OnTime'
  BY <1>1, StageStep, OnTimeStep
<1>3. Apart => PrepareInv'
  BY PrepareStep DEF Apart, DataInv
<1>4. ASSUME NEW c \in Channels PROVE Recorded(c)'
  <2>1. Recorded(c) /\ (Apart => Prepares(c))
    BY DEF DataInv, PrepareInv
  <2>2. CASE UNCHANGED vars
    BY <2>1, <2>2 DEF vars, rhm, swings, lists, flags, handler, chan, drivers,
       Recorded, Entries, Open, New, PeriodOf, NextPeriod, Camping, Sound
  <2>3. CASE Main
    BY <1>1, <2>1, <2>3, RecordedMain
  <2>4. CASE \E d \in Channels : Handler(d)
    BY <1>1, <1>2, <2>1, <2>4, RecordedHandler
  <2>5. QED BY <2>2, <2>3, <2>4 DEF Next
<1>5. QED BY <1>2, <1>3, <1>4 DEF DataInv

LEMMA DataAlways ==
  ASSUME MayStop = {}, OwnFlags, NoLateCamping PROVE Spec => []DataInv
<1>1. Init => DataInv BY DataInit
<1>2. DataInv /\ [Next]_vars => DataInv' BY DataStep
<1>3. QED BY <1>1, <1>2, PTL DEF Spec

(* A control program gets the period it asks for (DeliveredPeriod): the    *)
(* result of the swing it waited for, labelled with that period and, when  *)
(* it is valid, with samples of that period.  What comes by                *)
(* resultDict_list, by the two drivers, by the scan and by                 *)
(* triggered_swing_list fits when it is sent (4206-4299).                  *)
THEOREM RightPeriodDelivered ==
  ASSUME MayStop = {}, ~Preemptible, OneEach, NoLateCamping
  PROVE  Spec => []DeliveredPeriod
<1>1. OwnFlags /\ Apart
  BY DEF OwnFlags, Apart
<1>2. PeriodAskedFor /\ DataInv => DeliveredPeriod
  BY <1>1 DEF PeriodAskedFor, DataInv, Recorded, Sound, DeliveredPeriod
<1>3. Spec => []DataInv
  BY <1>1, DataAlways
<1>4. QED BY <1>2, <1>3, AnsweredInTurn, PTL

(* Samples of a swing that was not transmitted, for lack of time, are      *)
(* never sent as valid ones (UntriggeredIsInvalid): the flag raised at the *)
(* end of its trigger (3154) is still up when the next trigger collects it *)
(* (2769).                                                                 *)
THEOREM UntransmittedIsFlagged ==
  ASSUME MayStop = {}, OwnFlags, NoLateCamping
  PROVE  Spec => []UntriggeredIsInvalid
<1>1. DataInv => UntriggeredIsInvalid
  BY DEF DataInv, Recorded, Sound, UntriggeredIsInvalid
<1>2. QED BY <1>1, DataAlways, PTL
----------------------------------------------------------------------------
(* The life of a swing.                                                    *)

(* When the second period of a scan is triggered, its swing was prepared:  *)
(* a scan on the air has a second period.                                  *)
SecondPrepared(c) ==
  /\ main \in Prep \cup {"autotrigger"}
  /\ transmitting[Rnum[c]] /\ scan[c].first
  => ~IsLastPeriod(scan[c]) /\ (state[c][nextSwing] = READY \/ ToBeAdded(c))

(* The swing that is taken back at the end of a scan was not transmitted.  *)
LastUntransmitted(c) ==
  /\ main \in Fires /\ transmitting[Rnum[c]] => ~IsLastPeriod(scan[c])
  /\ main \in {"collect", "finish"} /\ IsLastPeriod(scan[c]) =>
       state[c][activeSwing] # PROCESSING

Lives(c) == c \in channels => SecondPrepared(c) /\ LastUntransmitted(c)
LifeInv == StageInv /\ \A c \in Channels : Lives(c)

(* What a handler does to the swings of its channel.                       *)
LEMMA HandlerSwings ==
  ASSUME TypeOK, NEW c \in Channels, Stage(c), Handler(c), NEW s \in Swing
  PROVE  \/ state'[c][s] = state[c][s]
         \/ /\ pc[c] = "readywait" /\ state'[c][s] = TRIGGER
            /\ state[c][s] \in {READY, LAST_SWING}
         \/ /\ pc[c] = "sending" /\ state[c][s] = SAMPLES_READY
            /\ state'[c][s] \in {READY, LAST_SWING, INACTIVE}
<1>1. /\ state \in [Channels -> [Swing -> ChannelState]]
      /\ wait[c] \in Swing /\ nextSwing \in Swing
  BY DEF TypeOK, TypeChan, TypeHandler, TypeSwings
<1>2. CASE TriggerSwing(c)
  <2>1. state[c][nextSwing] \in {READY, LAST_SWING}
    BY <1>2, TriggerSwingStage
  <2>2. pc[c] = "readywait" /\ state' = [state EXCEPT ![c][nextSwing] = TRIGGER]
    BY <1>2 DEF TriggerSwing
  <2>3. QED BY <1>1, <2>1, <2>2
<1>3. CASE EndGetData(c)
  <2>1. /\ pc[c] = "sending"
        /\ state' = [state EXCEPT ![c][wait[c]] = nextState[c][wait[c]]]
    BY <1>3 DEF EndGetData
  <2>2. \/ Collected(c)
        \/ \E x \in Swing : Ended(c, x) \/ Stuck(c, x)
    BY <2>1, AtSending DEF Leaves
  <2>3. ~Gone(c) /\ \A q : ~Fetch(c, q)
    BY <2>1 DEF Gone, Leaving, Fetch
  <2>4. /\ state[c][wait[c]] = SAMPLES_READY
        /\ nextState[c][wait[c]] \in {READY, LAST_SWING, INACTIVE}
    <3>1. CASE Collected(c)
      BY <2>3, <3>1 DEF Collected
    <3>2. ASSUME NEW x \in Swing, Ended(c, x) \/ Stuck(c, x)
          PROVE  /\ state[c][wait[c]] = SAMPLES_READY
                 /\ nextState[c][wait[c]] \in {READY, LAST_SWING, INACTIVE}
      BY <2>1, <2>3, <3>2 DEF Ended, Stuck
    <3>3. QED BY <2>2, <3>1, <3>2
  <2>5. QED BY <1>1, <2>1, <2>4
<1>4. CASE ~TriggerSwing(c) /\ ~EndGetData(c)
  BY <1>4 DEF Handler, Serve, SetActive, AwaitTriggerEnd, StartScan,
     StoreParameters, TakeParameters, Register, CompareParameters, SetReady,
     GetData, SendResults, SetInactive, Quit, LoseConnection, AwaitTrigger,
     Unlist, EndQuit, chan
<1>5. QED BY <1>2, <1>3, <1>4

LEMMA HandlerSecond ==
  ASSUME TypeOK, NEW c \in Channels, Stage(c), Handler(c), c \in channels
  PROVE  scan'[c].first = scan[c].first
<1>1. CASE StartScan(c)
  <2>1. Prepared(c) /\ pc[c] = "newscan" /\ ~Gone(c)
    BY <1>1, AtStart DEF StartScan, Gone, Leaving
  <2>2. QED BY <2>1 DEF Prepared
<1>2. CASE StoreParameters(c)
  <2>1. /\ scan' = [scan EXCEPT ![c].initPar = FALSE]
        /\ scan \in [Channels -> Scan]
    BY <1>2 DEF StoreParameters, TypeOK, TypeChan
  <2>2. scan'[c] = [scan[c] EXCEPT !.initPar = FALSE] /\ scan[c] \in Scan
    BY <2>1
  <2>3. QED BY <2>2 DEF Scan
<1>3. CASE ~StartScan(c) /\ ~StoreParameters(c)
  BY <1>3 DEF Handler, Serve, SetActive, AwaitTriggerEnd, TakeParameters,
     Register, CompareParameters, SetReady, TriggerSwing, GetData, SendResults,
     EndGetData, SetInactive, Quit, LoseConnection, AwaitTrigger, Unlist,
     EndQuit, chan
<1>4. QED BY <1>1, <1>2, <1>3

LEMMA LivesHandler ==
  ASSUME StageInv, NEW c \in Channels, Handler(c), NEW d \in Channels, Lives(d)
  PROVE  Lives(d)'
<1>1. /\ TypeOK /\ SetParExclusion /\ Stage(d) /\ Stage(c)
      /\ activeSwing \in Swing /\ nextSwing \in Swing
  BY DEF StageInv, Stages, TypeOK, TypeSwings
<1>2. UNCHANGED <<main, todo, adding, activeSwing, nextSwing, transmitting>>
  BY DEF Handler, Serve, SetActive, AwaitTriggerEnd, StartScan,
     StoreParameters, TakeParameters, Register, CompareParameters, SetReady,
     TriggerSwing, GetData, SendResults, EndGetData, SetInactive, Quit,
     LoseConnection, AwaitTrigger, Unlist, EndQuit, rhm, swings
<1>3. CASE d # c
  <2>1. UNCHANGED Own(d) /\ (d \in channels' <=> d \in channels)
    BY <1>1, <1>3, HandlerElsewhere
  <2>2. QED BY <1>2, <2>1 DEF Own, Lives, SecondPrepared, LastUntransmitted,
       ToBeAdded, IsLastPeriod, Camping
<1>4. CASE d = c
  <2> SUFFICES ASSUME c \in channels'
               PROVE  (SecondPrepared(c) /\ LastUntransmitted(c))'
    BY <1>4 DEF Lives
  <2>1. c \in channels /\ SecondPrepared(c) /\ LastUntransmitted(c)
    BY <1>1, <1>4, HandlerLists DEF Lives
  <2>2. SameScan(c) /\ scan'[c].first = scan[c].first
    BY <1>1, <1>4, <2>1, HandlerOwnScan, HandlerSecond
  <2>3. IsLastPeriod(scan[c])' = IsLastPeriod(scan[c])
    BY <2>2 DEF SameScan, IsLastPeriod, Camping
  <2>4. LastUntransmitted(c)'
    BY <1>1, <1>2, <1>4, <2>1, <2>3, HandlerSwings DEF LastUntransmitted
  <2>5. ASSUME (/\ main \in Prep \cup {"autotrigger"}
                /\ transmitting[Rnum[c]] /\ scan[c].first)'
        PROVE  (~IsLastPeriod(scan[c])
                /\ (state[c][nextSwing] = READY \/ ToBeAdded(c)))'
    <3>1. /\ main \in Prep \cup {"autotrigger"} /\ scan[c].first
          /\ ~IsLastPeriod(scan[c])
          /\ state[c][nextSwing] = READY \/ ToBeAdded(c)
      BY <1>2, <2>1, <2>2, <2>5 DEF SecondPrepared
    <3>2. ~Fresh(c) /\ ~Running(c) /\ ~Leaves(c)
      BY <3>1 DEF Fresh, Running, Going, Leaves, Ended, Stuck, Over, At, Prep,
         Rest
    <3>3. c \notin newChannels /\ pc[c] \notin {"readywait", "sending"}
      BY <1>1, <1>4, <2>1, <3>2, AtReady, AtSending DEF Stage
    <3>4. state'[c][nextSwing] = state[c][nextSwing]
      BY <1>1, <1>4, <3>3, HandlerSwings
    <3>5. QED BY <1>2, <2>3, <3>1, <3>4 DEF ToBeAdded
  <2>6. QED BY <2>4, <2>5 DEF SecondPrepared
<1>5. QED BY <1>3, <1>4

(* Setup transmits for a channel that has a period to transmit.            *)
LEMMA LivesFires ==
  ASSUME OneEach, StageInv, NEW c \in Channels, Lives(c),
         Setup \/ Fire \/ Collect
  PROVE  Lives(c)'
<1>1. /\ TypeOK /\ Aligned /\ Stage(c) /\ channels' = channels
      /\ scan' = scan /\ activeSwing' = activeSwing /\ Rnum[c] \in Radars
  BY DEF StageInv, Stages, Setup, Fire, Collect, lists, chan, swings, TypeOK
<1>2. IsLastPeriod(scan[c])' = IsLastPeriod(scan[c])
  BY <1>1 DEF IsLastPeriod, Camping
<1>3. CASE Setup
  <2>1. main' = "fire" /\ transmitting' = [r \in Radars |->
           radarActive[r] /\ \E d \in On(r) : ~IsLastPeriod(scan[d])]
    BY <1>3 DEF Setup
  <2>2. On(Rnum[c]) \subseteq {c}
    BY <1>1 DEF On, OneEach, TypeOK, TypeLists
  <2>3. transmitting'[Rnum[c]] => ~IsLastPeriod(scan[c])
    BY <1>1, <2>1, <2>2
  <2>4. QED BY <1>2, <2>1, <2>3 DEF Lives, SecondPrepared, LastUntransmitted,
       Prep
<1>4. CASE Fire /\ main' # "crashed"
  <2> SUFFICES ASSUME c \in channels
               PROVE  (SecondPrepared(c) /\ LastUntransmitted(c))'
    BY <1>1 DEF Lives
  <2>1. main = "fire" /\ main' = "collect" /\ transmitting' = transmitting
    BY <1>4 DEF Fire
  <2>2. transmitting[Rnum[c]] => ~IsLastPeriod(scan[c])
    BY <2>1 DEF Lives, LastUntransmitted, Fires
  <2>3. ~transmitting[Rnum[c]] => state'[c][activeSwing] = state[c][activeSwing]
    BY <1>1, <1>4, FireEffect
  <2>4. IsLastPeriod(scan[c]) => state[c][activeSwing] \in {TRIGGER, INACTIVE}
    <3>1. Primed(c) \/ Lost(c) \/ Shot(c)
      BY <1>1, <2>1, AtFire
    <3>2. QED BY <2>1, <3>1 DEF Primed, Lost, Shot, At, Rest
  <2>5. QED BY <1>1, <1>2, <2>1, <2>2, <2>3, <2>4 DEF SecondPrepared,
       LastUntransmitted, Prep
<1>5. CASE Collect /\ main' # "crashed"
  <2>1. /\ main = "collect" /\ main' = "finish" /\ transmitting' = transmitting
        /\ state' = state
    BY <1>5 DEF Collect
  <2>2. QED BY <1>1, <1>2, <2>1 DEF Lives, SecondPrepared, LastUntransmitted,
       Prep, Fires
<1>6. CASE main' = "crashed"
  BY <1>6 DEF Lives, SecondPrepared, LastUntransmitted, Prep, Fires
<1>7. QED BY <1>3, <1>4, <1>5, <1>6

(* The end of the first period leaves the second one to be prepared.       *)
LEMMA LivesFinish ==
  ASSUME StageInv, NEW c \in Channels, Lives(c), Finish
  PROVE  Lives(c)'
<1>1. /\ TypeOK /\ Aligned /\ Stage(c) /\ channels' = channels
      /\ main = "finish" /\ main' = "add" /\ todo' = channels
      /\ transmitting' = transmitting /\ scan[c] \in Scan
  BY DEF StageInv, Stages, Finish, lists, TypeOK, TypeChan
<1>2. c \in channels => scan'[c] = PeriodFinished(scan[c])
  BY <1>1, FinishEffect
<1>3. LastUntransmitted(c)' /\ (c \in channels => ToBeAdded(c)')
  BY <1>1 DEF LastUntransmitted, ToBeAdded, Fires
<1>4. ASSUME c \in channels, transmitting[Rnum[c]], scan'[c].first
      PROVE  ~IsLastPeriod(scan'[c])
  <2>1. ~IsLastPeriod(scan[c])
    BY <1>1, <1>4 DEF Lives, LastUntransmitted, Fires
  <2>2. scan[c].first
    BY <1>1, <1>2, <1>4 DEF PeriodFinished, Scan
  <2>3. ~Shot(c) /\ ~Lost(c) /\ \A x \in Swing : ~Missed(c, x)
    BY <1>1, <1>4, <2>1, <2>2 DEF Shot, Going, Lost, Missed, At, Rest
  <2>4. Fired(c)
    BY <1>1, <1>4, <2>3, AtCollect
  <2>5. scan'[c] = [scan[c] EXCEPT !.pre = FALSE]
    BY <1>1, <1>2, <1>4, <2>4 DEF Fired, Start1, PeriodFinished
  <2>6. QED BY <1>1, <2>1, <2>5 DEF IsLastPeriod, Camping, Scan
<1>5. QED BY <1>1, <1>3, <1>4 DEF Lives, SecondPrepared, IsLastPeriod, Camping

(* A channel on the air whose scan goes on is prepared in turn.            *)
LEMMA LivesAdd ==
  ASSUME StageInv, NEW c \in Channels, Lives(c), NEW d \in Channels,
         AddLast(d) \/ AddNotActive(d) \/ AddUpdate(d) \/ AddSend(d)
  PROVE  Lives(c)'
<1>1. /\ TypeOK /\ Aligned /\ Stage(c) /\ channels' \subseteq channels
      /\ main = "add" /\ main' \in {"add", "crashed"} /\ scan' = scan
      /\ UNCHANGED <<transmitting, activeSwing, nextSwing>>
      /\ c # "none"
  BY DEF StageInv, Stages, AddLast, AddNotActive, AddUpdate, AddSend, lists,
     chan, swings
<1>2. IsLastPeriod(scan[c])' = IsLastPeriod(scan[c])
  BY <1>1 DEF IsLastPeriod, Camping
<1>3. CASE main' = "crashed"
  BY <1>3 DEF Lives, SecondPrepared, LastUntransmitted, Prep, Fires
<1>4. ASSUME main' = "add", c \in channels', transmitting[Rnum[c]],
             scan[c].first
      PROVE  ~IsLastPeriod(scan[c]) /\ (state[c][nextSwing] = READY
                                        \/ ToBeAdded(c))'
  <2>1. /\ c \in channels /\ ~IsLastPeriod(scan[c])
        /\ state[c][nextSwing] = READY \/ ToBeAdded(c)
    BY <1>1, <1>4 DEF Lives, SecondPrepared, Prep
  <2>2. CASE AddLast(d) \/ AddNotActive(d)
    <3>1. /\ d # c /\ todo' = todo \ {d} /\ adding' = adding
          /\ state' = state
      BY <1>1, <2>1, <2>2 DEF AddLast, AddNotActive, Stage, chan
    <3>2. QED BY <1>1, <1>4, <2>1, <3>1 DEF ToBeAdded
  <2>3. CASE AddUpdate(d)
    <3>1. adding = "none" /\ todo' = todo \ {d} /\ adding' = d /\ state' = state
      BY <2>3 DEF AddUpdate
    <3>2. QED BY <1>1, <1>4, <2>1, <3>1 DEF ToBeAdded
  <2>4. CASE AddSend(d)
    <3>1. /\ adding = d /\ adding' = "none" /\ todo' = todo
          /\ state' = IF state[d][processingSwing] = INACTIVE
                      THEN [state EXCEPT ![d][processingSwing] = READY]
                      ELSE state
      BY <2>4 DEF AddSend
    <3>2. nextSwing = processingSwing
      BY <1>1, <1>4 DEF Aligned, Prep, TypeOK
    <3>3. Fired(c)
      <4>1. ~Running(c) /\ ~Leaves(c) /\ \A x \in Swing : ~Missed(c, x)
        BY <1>4, <2>1 DEF Running, Going, Leaves, Missed, Ended, Stuck, Over
      <4>2. QED BY <1>1, <2>1, <4>1, AtAdd DEF Prep
    <3>4. state[c][nextSwing] \in {INACTIVE, READY}
      BY <3>3 DEF Fired
    <3>5. /\ state \in [Channels -> [Swing -> ChannelState]]
          /\ nextSwing \in Swing
      BY <1>1 DEF TypeOK, TypeChan, TypeSwings
    <3>6. CASE c = d
      <4>1. state' = IF state[c][nextSwing] = INACTIVE
                     THEN [state EXCEPT ![c][nextSwing] = READY] ELSE state
        BY <3>1, <3>2, <3>6
      <4>2. state'[c][nextSwing] = READY
        BY <3>4, <3>5, <4>1
      <4>3. QED BY <1>1, <2>1, <4>2
    <3>7. CASE c # d
      BY <1>1, <1>4, <2>1, <3>1, <3>5, <3>7 DEF ToBeAdded
    <3>8. QED BY <3>6, <3>7
  <2>5. QED BY <2>1, <2>2, <2>3, <2>4
<1>5. QED BY <1>1, <1>2, <1>3, <1>4 DEF Lives, SecondPrepared,
     LastUntransmitted, Fires

LEMMA LivesMain ==
  ASSUME OneEach, StageInv, Main, NEW c \in Channels, Lives(c)
  PROVE  Lives(c)'
<1>1. CASE \/ NoticeNew \/ NothingNew \/ AwaitSetPar \/ InitStart \/ InitEnd
           \/ Arm \/ LoopAgain \/ Start \/ AutoTrigger \/ End
           \/ \E d \in Channels : AwaitActive(d)
  <2>1. main' \notin Fires \cup Prep \cup {"autotrigger"}
    BY <1>1 DEF NoticeNew, NothingNew, AwaitSetPar, InitStart, InitEnd, Arm,
       LoopAgain, Start, AutoTrigger, End, AwaitActive, Fires, Prep
  <2>2. QED BY <2>1 DEF Lives, SecondPrepared, LastUntransmitted, Fires
<1>2. CASE Generate \/ ReadyClear \/ ReadyStore \/ Switch
  <2>1. /\ main \in Prep /\ main' \in (Prep \ {"add"}) \cup {"autotrigger"}
        /\ UNCHANGED <<transmitting, nextSwing, channels, state, scan>>
        /\ main = "add" => todo = {} /\ adding = "none"
    BY <1>2 DEF Generate, ReadyClear, ReadyStore, Switch, swings, lists, chan,
       Prep
  <2>2. c # "none" /\ main' \notin Fires /\ main' # "add"
    BY <2>1 DEF Fires, Prep
  <2>3. QED BY <2>1, <2>2 DEF Lives, SecondPrepared, LastUntransmitted,
       ToBeAdded, Fires, IsLastPeriod, Camping
<1>3. CASE Setup \/ Fire \/ Collect \/ Finish
  BY <1>3, LivesFires, LivesFinish
<1>4. CASE \E d \in Channels : \/ AddLast(d) \/ AddNotActive(d)
                               \/ AddUpdate(d) \/ AddSend(d)
  BY <1>4, LivesAdd
<1>5. QED BY <1>1, <1>2, <1>3, <1>4 DEF Main

LEMMA LifeStep ==
  ASSUME MayStop = {}, OneEach, LifeInv, [Next]_vars
  PROVE  LifeInv'
<1>1. StageInv /\ StageInv'
  BY StageStep DEF LifeInv
<1>2. ASSUME NEW c \in Channels PROVE Lives(c)'
  <2>1. Lives(c) BY DEF LifeInv
  <2>2. CASE UNCHANGED vars
    BY <2>1, <2>2 DEF Lives, SecondPrepared, LastUntransmitted, ToBeAdded,
       IsLastPeriod, Camping, vars, rhm, swings, lists, chan
  <2>3. QED BY <1>1, <2>1, <2>2, LivesMain, LivesHandler DEF Next
<1>3. QED BY <1>1, <1>2 DEF LifeInv

(* What the main thread does to the swings.                                *)
LEMMA MainSwings ==
  ASSUME LifeInv, Main, NEW c \in Channels, NEW s \in Swing,
         state'[c][s] # state[c][s]
  PROVE  <<state[c][s], state'[c][s]>> \in StateChanges
<1>1. /\ TypeOK /\ Aligned /\ Stage(c) /\ Lives(c)
      /\ state \in [Channels -> [Swing -> ChannelState]]
      /\ activeSwing \in Swing /\ nextSwing \in Swing /\ Rnum[c] \in Radars
  BY DEF LifeInv, StageInv, Stages, TypeOK, TypeChan, TypeSwings
<1>2. CASE InitEnd
  <2> DEFINE S == {d \in todo : state[d][activeSwing] = INACTIVE}
  <2>1. state' = PutSwing(state, S, activeSwing, READY) \/ state' = state
    BY <1>2 DEF InitEnd
  <2>2. c \in S => state[c][activeSwing] = INACTIVE
    OBVIOUS
  <2> HIDE DEF S
  <2>3. \/ state'[c][s] = state[c][s]
        \/ state'[c][s] = READY /\ c \in S /\ s = activeSwing
    BY <1>1, <2>1 DEF PutSwing
  <2>4. QED BY <2>2, <2>3 DEF StateChanges
<1>3. CASE Fire
  <2>1. main' # "crashed"
    BY <1>3 DEF Fire
  <2>2. /\ state'[c][processingSwing] = state[c][processingSwing]
        /\ state'[c][activeSwing] # state[c][activeSwing] =>
             /\ state[c][activeSwing] = TRIGGER
             /\ state'[c][activeSwing] = PROCESSING
    BY <1>1, <1>3, <2>1, FireEffect
  <2>3. QED BY <1>1, <2>2 DEF StateChanges
<1>4. CASE Finish
  <2>1. /\ c \in channels /\ state[c][processingSwing] = PROCESSING
        /\ state'[c][processingSwing] = SAMPLES_READY
        /\ \/ state'[c][activeSwing] = state[c][activeSwing]
           \/ PeriodFinished(scan[c]).post /\ state'[c][activeSwing] = INACTIVE
    BY <1>1, <1>4, FinishEffect
  <2>2. main = "finish" /\ scan[c] \in Scan
    BY <1>1, <1>4 DEF Finish, TypeOK, TypeChan
  <2>3. Shot(c)
    BY <1>1, <2>1, <2>2, AtCollect, OnlyShot
  <2>4. PeriodFinished(scan[c]).post => IsLastPeriod(scan[c])
    BY <2>2, <2>3 DEF Shot, Going, PeriodFinished, Scan
  <2>5. IsLastPeriod(scan[c]) => state[c][activeSwing] = TRIGGER
    BY <1>1, <2>1, <2>2, <2>3 DEF Shot, Lives, LastUntransmitted
  <2>6. QED BY <1>1, <2>1, <2>4, <2>5 DEF StateChanges
<1>5. ASSUME NEW d \in Channels, AddSend(d)
      PROVE  <<state[c][s], state'[c][s]>> \in StateChanges
  <2>1. state' = IF state[d][processingSwing] = INACTIVE
                 THEN [state EXCEPT ![d][processingSwing] = READY] ELSE state
    BY <1>5 DEF AddSend
  <2>2. state[c][s] = INACTIVE /\ state'[c][s] = READY
    BY <1>1, <2>1
  <2>3. QED BY <2>2 DEF StateChanges
<1>6. CASE AutoTrigger
  <2>1. /\ c \in channels /\ transmitting[Rnum[c]] /\ scan[c].first
        /\ state'[c] = [state[c] EXCEPT ![activeSwing] = TRIGGER]
    BY <1>1, <1>6, AutoTriggerEffect DEF Own
  <2>2. main = "autotrigger"
    BY <1>6 DEF AutoTrigger
  <2>3. state[c][nextSwing] = READY
    BY <1>1, <2>1, <2>2 DEF Lives, SecondPrepared, ToBeAdded
  <2>4. nextSwing = activeSwing
    BY <1>1, <2>1, <2>2 DEF Aligned
  <2>5. QED BY <1>1, <2>1, <2>3, <2>4 DEF StateChanges
<1>7. CASE \/ NoticeNew \/ NothingNew \/ AwaitSetPar \/ InitStart \/ Arm
           \/ LoopAgain \/ Start \/ Setup \/ Collect \/ Generate \/ ReadyClear
           \/ ReadyStore \/ Switch \/ End
  BY <1>7 DEF NoticeNew, NothingNew, AwaitSetPar, InitStart, Arm, LoopAgain,
     Start, Setup, Collect, Generate, ReadyClear, ReadyStore, Switch, End, chan
<1>8. CASE \E d \in Channels : \/ AwaitActive(d) \/ AddLast(d)
                               \/ AddNotActive(d) \/ AddUpdate(d)
  BY <1>8 DEF AwaitActive, AddLast, AddNotActive, AddUpdate, chan
<1>9. QED BY <1>2, <1>3, <1>4, <1>5, <1>6, <1>7, <1>8 DEF Main

(* The states of a swing follow the life of a period (SwingLife): it is    *)
(* prepared, triggered, transmitted, collected and fetched, in this order, *)
(* although SET_READY, trigger_next_swing and GET_DATA all assign to it,   *)
(* and only a swing that was not transmitted is taken back (2906-2929).    *)
THEOREM SwingsLive ==
  ASSUME MayStop = {}, OneEach PROVE Spec => SwingLife
<1>1. Init => LifeInv
  BY StageInit DEF LifeInv, Lives, Init
<1>2. LifeInv /\ [Next]_vars => LifeInv'
  BY LifeStep
<1>3. LifeInv /\ [Next]_vars =>
        [\A c \in Channels, s \in Swing :
           state[c][s] # state'[c][s] =>
             <<state[c][s], state'[c][s]>> \in StateChanges]_vars
  <2> SUFFICES ASSUME LifeInv, Next, NEW c \in Channels, NEW s \in Swing,
                      state[c][s] # state'[c][s]
               PROVE  <<state[c][s], state'[c][s]>> \in StateChanges
    OBVIOUS
  <2>1. CASE Main
    BY <2>1, MainSwings
  <2>2. ASSUME NEW d \in Channels, Handler(d)
        PROVE  <<state[c][s], state'[c][s]>> \in StateChanges
    <3>1. TypeOK /\ Stage(c)
      BY DEF LifeInv, StageInv, Stages
    <3>2. CASE d = c
      BY <2>2, <3>1, <3>2, HandlerSwings DEF StateChanges
    <3>3. CASE d # c
      <4>1. UNCHANGED Own(c)
        BY <2>2, <3>1, <3>3, HandlerElsewhere
      <4>2. QED BY <4>1 DEF Own
    <3>4. QED BY <3>2, <3>3
  <2>3. QED BY <2>1, <2>2 DEF Next
<1>4. QED BY <1>1, <1>2, <1>3, PTL DEF Spec, SwingLife
=============================================================================
