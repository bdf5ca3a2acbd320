------------------------- MODULE SampleChainProofs -------------------------
(***************************************************************************)
(* What holds of the sample chain for any number of USRPs, channels,       *)
(* periods and failures: the types; that the CUDA driver and a USRP driver *)
(* in service are never at the same segment of the shared memory; and what *)
(* the chain transmits and delivers.  Each invariant has the one before it *)
(* in its own:                                                             *)
(*   TypeInv      types, and where the commands are;                       *)
(*   OrderInv     the order of the commands, and what the drivers are at;  *)
(*   SequenceInv  whose sequences the CUDA driver has for each swing, and  *)
(*                what the command in its socket says (no samples are asked*)
(*                for that it has no sequence of; none is left over);      *)
(*   TransmitInv  what the waveforms and the copies in the USRP drivers are*)
(*                made of (a USRP transmits its own period);               *)
(*   DeliverInv   what the recordings, the segments and the filtered       *)
(*                samples are of (the server gets its own period).         *)
(***************************************************************************)
EXTENDS SampleChain, SequenceTheorems, TLAPS

USE FreqsAssumption, PeriodsAssumption, FaultsAssumption, ScanAssumption,
    LeaveAssumption, LocalAssumption
----------------------------------------------------------------------------
(* Types need two more facts: a driver that is at a command has it at the  *)
(* head of its queue, and no period begins behind the end of a scan.       *)
BusyOK == \A u \in Usrps : at[u] # "wait" => queue[u] # <<>>

PositionOK ==
  /\ chans # {} \/ srv \in PeriodStages => position <= ScanLen
  /\ srv = "generate" => More
  /\ srv \in {"ready", "switch"} /\ position = ScanLen => chans = {}

TypeInv == TypeOK /\ BusyOK /\ PositionOK

LEMMA NoRequestTyped == NoRequest \in Request
BY DEF NoRequest, Request, Ops, Swing, None, Number

LEMMA MadeTyped ==
  ASSUME TypeCuda, NEW s \in Swing
  PROVE  Made(s) \in Waveform
BY DEF TypeCuda, Made, Waveform

LEMMA SilenceTyped == Silence \in Waveform /\ NoData \in Filtered
BY DEF Silence, NoSequence, NoData, Filtered, Waveform, None, Number

LEMMA TypeInit == ASSUME Init PROVE TypeInv
<1>1. TypeMemory BY SilenceTyped DEF Init, InitMemory, TypeMemory, None, Number
<1>2. TypeCuda
  BY SilenceTyped, NoRequestTyped
     DEF Init, InitCuda, TypeCuda, NoSequence, None, Number, Swing
<1>3. TypeDriver
  BY SilenceTyped DEF Init, InitDriver, TypeDriver, OnAir, Answer, None, Number
<1>4. TypeServer
  <2>1. Freqs # {} OBVIOUS
  <2>2. (CHOOSE f \in Freqs : TRUE) \in Freqs BY <2>1, Zenon
  <2>3. mix \in Freqs BY <2>2, Zenon DEF Init
  <2>4. /\ number \in [Swing -> Number] /\ heard \in [Swing -> SUBSET Usrps]
        /\ erred \in [Swing -> SUBSET Usrps]
    BY DEF Init, None, Number
  <2>5. position \in 0 .. ScanLen + 1 BY DEF Init
  <2>6. QED
    BY <2>3, <2>4, <2>5 DEF Init, TypeServer, Swing, Stage, PeriodStages
<1>5. BusyOK /\ PositionOK
  BY DEF Init, InitDriver, BusyOK, PositionOK, PeriodStages, More
<1>6. QED BY <1>1, <1>2, <1>3, <1>4, <1>5 DEF TypeInv, TypeOK
----------------------------------------------------------------------------
(* The CUDA driver.                                                        *)

LEMMA CudaTyped ==
  ASSUME TypeInv, CudaStep
  PROVE  TypeInv'
<1> USE DEF CudaStep, server, radar, usrps, driverVars, TypeInv, TypeOK
<1>1. TypeServer' BY DEF TypeServer
<1>2. TypeDriver' BY DEF TypeDriver
<1>3. BusyOK' /\ PositionOK' BY DEF BusyOK, PositionOK, More
<1>4. TypeMemory' /\ TypeCuda'
  <2> USE NoRequestTyped DEF TypeMemory, TypeCuda, Respond
  <2>1. request \in Request /\ Request \subseteq [op : Ops, swing : Swing,
          channels : SUBSET Channels, sequence : Nat,
          mix : Freqs \cup {None}]
    BY DEF Request, Number
  <2>2. /\ request.swing \in Swing /\ request.sequence \in Number
        /\ request.mix \in Freqs \cup {None}
    BY <2>1 DEF Number
  <2>3. CASE SetupCuda BY <2>2, <2>3 DEF SetupCuda
  <2>4. CASE AddChannel
    <3>1. sequences' \in [Swing -> [Channels -> Number]]
      BY <2>2, <2>4 DEF AddChannel
    <3>2. QED BY <2>4, <3>1 DEF AddChannel
  <2>5. CASE RemoveChannel
    <3>1. None \in Number BY DEF None, Number
    <3>2. sequences' \in [Swing -> [Channels -> Number]]
      BY <3>1, <2>5 DEF RemoveChannel
    <3>3. QED BY <2>5, <3>2 DEF RemoveChannel
  <2>6. CASE StartGenerate BY <2>2, <2>6 DEF StartGenerate
  <2>7. CASE EndGenerate
    <3>1. shmTx' \in [Usrps -> [Swing -> Waveform]]
      BY <2>7, MadeTyped DEF EndGenerate
    <3>2. QED BY <2>7, <3>1 DEF EndGenerate
  <2>8. CASE StartProcess BY <2>2, <2>8, MadeTyped DEF StartProcess, Taps
  <2>9. CASE EndProcess
    <3>1. bb' \in Filtered BY <2>9 DEF EndProcess, Filtered, Source
    <3>2. QED BY <2>9, <3>1 DEF EndProcess
  <2>10. CASE GetData BY <2>10 DEF GetData
  <2>11. QED
    BY <2>3, <2>4, <2>5, <2>6, <2>7, <2>8, <2>9, <2>10 DEF Cuda
<1>5. QED BY <1>1, <1>2, <1>3, <1>4
----------------------------------------------------------------------------
(* The USRP drivers.                                                       *)

LEMMA DoingTyped ==
  ASSUME TypeDriver, NEW u \in Usrps, queue[u] # <<>>
  PROVE  /\ Doing(u).swing \in Swing /\ Doing(u).mix \in Freqs \cup {None}
         /\ Doing(u).number \in Number
         /\ Tail(queue[u]) \in Seq(Command)
<1>1. queue[u] \in Seq(Command) BY DEF TypeDriver
<1>2. Head(queue[u]) \in Command /\ Tail(queue[u]) \in Seq(Command)
  BY <1>1, HeadTailProperties
<1>3. Doing(u) \in Command BY <1>2 DEF Doing
<1>4. QED BY <1>2, <1>3 DEF Command

LEMMA UsrpTyped ==
  ASSUME TypeInv, NEW u \in Usrps, UsrpStep(u)
  PROVE  TypeInv'
<1> USE DEF UsrpStep, server, radar, usrps, cudaVars, TypeInv, TypeOK
<1>1. TypeServer' BY DEF TypeServer
<1>2. TypeCuda' BY DEF TypeCuda
<1>3. PositionOK' BY DEF PositionOK, More
<1>4. TypeMemory' /\ TypeDriver' /\ BusyOK'
  <2> USE DoingTyped DEF TypeMemory, TypeDriver, BusyOK, Begin, End, Reply
  <2>1. CASE StartSetup(u) BY <2>1 DEF StartSetup
  <2>2. CASE EndSetup(u)
    <3>1. txSamples' \in [Usrps -> OnAir] BY <2>2 DEF EndSetup, OnAir
    <3>2. state' \in [Usrps -> [Swing -> {"ST_INIT", "ST_READY", "ST_PULSE"}]]
      BY <2>2 DEF EndSetup
    <3>3. QED BY <2>2, <3>1, <3>2 DEF EndSetup, Answer
  <2>3. CASE StartPulse(u)
    <3>1. Doing(u).swing \in Swing BY <2>3 DEF StartPulse
    <3>2. CASE state[u][Doing(u).swing] = "ST_READY"
      <4>1. state' = [state EXCEPT ![u][Doing(u).swing] = "ST_PULSE"]
        BY <2>3, <3>2 DEF StartPulse
      <4>2. state' \in [Usrps -> [Swing -> {"ST_INIT", "ST_READY", "ST_PULSE"}]]
        BY <3>1, <4>1
      <4>3. QED BY <2>3, <3>2, <4>2 DEF StartPulse, Answer
    <3>3. CASE state[u][Doing(u).swing] # "ST_READY"
      BY <2>3, <3>3 DEF StartPulse, Answer
    <3>4. QED BY <3>2, <3>3
  <2>4. CASE EndPulse(u)
    <3>1. /\ Doing(u).number \in Number /\ Tail(queue[u]) \in Seq(Command)
      BY <2>4 DEF EndPulse
    <3>2. rxBuffer' \in [Usrps -> Number] BY <2>4, <3>1 DEF EndPulse
    <3>3. rxError' \in [Usrps -> BOOLEAN] /\ faults' \in 0 .. MaxFaults
      <4>1. CASE UNCHANGED <<rxError, faults>> BY <4>1
      <4>2. CASE /\ faults < MaxFaults /\ faults' = faults + 1
                 /\ rxError' = [rxError EXCEPT ![u] = TRUE]
        BY <4>2
      <4>3. QED BY <2>4, <4>1, <4>2 DEF EndPulse
    <3>4. /\ at' = [at EXCEPT ![u] = "wait"]
          /\ queue' = [queue EXCEPT ![u] = Tail(@)]
          /\ UNCHANGED <<state, txSamples, answer, stopped, shmTx, shmRx>>
      BY <2>4 DEF EndPulse
    <3>5. QED BY <3>1, <3>2, <3>3, <3>4
  <2>5. CASE StartReady(u) BY <2>5 DEF StartReady
  <2>6. CASE EndReady(u)
    <3>1. Recording(u) \in Number BY DEF Recording, None, Number
    <3>2. shmRx' \in [Usrps -> [Swing -> Number]] BY <2>6, <3>1 DEF EndReady
    <3>3. state' \in [Usrps -> [Swing -> {"ST_INIT", "ST_READY", "ST_PULSE"}]]
      BY <2>6 DEF EndReady
    <3>4. QED BY <2>6, <3>2, <3>3 DEF EndReady, Answer
  <2>7. CASE Hang(u) BY <2>7 DEF Hang
  <2>8. CASE Resume(u) BY <2>8 DEF Resume
  <2>9. CASE ExitDriver(u)
    <3>1. /\ shmTx' \in [Usrps -> [Swing -> Waveform]]
          /\ shmRx' \in [Usrps -> [Swing -> Number]]
      BY <2>9, SilenceTyped DEF ExitDriver, None, Number
    <3>2. QED BY <2>9, <3>1 DEF ExitDriver
  <2>10. QED
    BY <2>1, <2>2, <2>3, <2>4, <2>5, <2>6, <2>7, <2>8, <2>9 DEF Work
<1>5. QED BY <1>1, <1>2, <1>3, <1>4
----------------------------------------------------------------------------
(* The server: its calls, then its steps.                                  *)

LEMMA TransmitTyped ==
  ASSUME TypeInv, NEW req \in Request, Transmit(req), todo' \subseteq todo
  PROVE  TypeInv'
<1> USE DEF Transmit, radar, usrps, memory, driverVars, TypeInv, TypeOK
<1>1. TypeServer' BY DEF TypeServer
<1>2. TypeMemory' /\ TypeDriver' BY DEF TypeMemory, TypeDriver
<1>3. TypeCuda' BY DEF TypeCuda
<1>4. BusyOK' /\ PositionOK' BY DEF BusyOK, PositionOK, More
<1>5. QED BY <1>1, <1>2, <1>3, <1>4

LEMMA CallTyped ==
  ASSUME TypeInv, NEW stage, NEW req \in Request, CallCuda(stage, req)
  PROVE  TypeInv'
BY TransmitTyped DEF CallCuda

LEMMA NextTyped ==
  ASSUME TypeInv, NEW stage, NEW req,
         \A c \in Channels : req[c] \in Request, NextOf(stage, req)
  PROVE  TypeInv'
<1>1. PICK c \in todo : todo' = todo \ {c} /\ Transmit(req[c])
  BY DEF NextOf
<1>2. req[c] \in Request BY DEF TypeInv, TypeOK, TypeServer
<1>3. QED BY <1>1, <1>2, TransmitTyped

LEMMA ReturnedTyped ==
  ASSUME TypeInv, NEW stage, NEW next \in Stage \ {"generate"},
         next \in PeriodStages => stage \in PeriodStages,
         next \in {"ready", "switch"} => stage = "generate",
         CudaReturned(stage, next)
  PROVE  TypeInv'
<1> USE DEF CudaReturned, radar, usrps, memory, driverVars, TypeInv, TypeOK
<1>1. TypeServer' BY DEF TypeServer
<1>2. TypeMemory' /\ TypeDriver' BY DEF TypeMemory, TypeDriver
<1>3. TypeCuda' BY DEF TypeCuda
<1>4. BusyOK' /\ PositionOK'
  BY DEF BusyOK, PositionOK, More, TypeServer, PeriodStages
<1>5. QED BY <1>1, <1>2, <1>3, <1>4

LEMMA CallUsrpsTyped ==
  ASSUME TypeInv, NEW stage,
         NEW op \in {"SETUP", "TRIGGER_PULSE", "READY_DATA"},
         CallUsrps(stage, op)
  PROVE  TypeInv'
<1> USE DEF CallUsrps, radar, usrps, memory, cudaVars, TypeInv, TypeOK
<1>1. TypeServer' BY DEF TypeServer
<1>2. TypeMemory' /\ TypeCuda' BY DEF TypeMemory, TypeCuda
<1>3. PositionOK' BY DEF PositionOK, More
<1> DEFINE cmd == [op |-> op, swing |-> activeSwing, mix |-> mix,
                   number |-> number[activeSwing]]
<1>4. cmd \in Command BY DEF TypeServer, Command, Swing
<1> HIDE DEF cmd
<1>5. \A u \in Usrps : /\ Append(queue[u], cmd) \in Seq(Command)
                       /\ Append(queue[u], cmd) # <<>>
  BY <1>4, AppendProperties DEF TypeDriver
<1>6. queue' = [u \in Usrps |-> IF u \in inService
                               THEN Append(queue[u], cmd) ELSE queue[u]]
  BY DEF cmd
<1>7. TypeDriver' BY <1>5, <1>6 DEF TypeDriver, Answer
<1>8. BusyOK' BY <1>5, <1>6 DEF BusyOK
<1>9. QED BY <1>1, <1>2, <1>3, <1>7, <1>8

LEMMA UsrpsReturnedTyped ==
  ASSUME TypeInv, NEW stage, NEW next \in Stage \ {"generate"},
         next \in PeriodStages => stage \in PeriodStages,
         next \in {"ready", "switch"} => stage = "ready",
         UsrpsReturned(stage, next), inService' = inService,
         heard' \in [Swing -> SUBSET Usrps], erred' \in [Swing -> SUBSET Usrps]
  PROVE  TypeInv'
<1> USE DEF UsrpsReturned, radar, memory, cudaVars, driverVars, TypeInv, TypeOK
<1>1. TypeServer' BY DEF TypeServer
<1>2. TypeMemory' /\ TypeDriver' BY DEF TypeMemory, TypeDriver
<1>3. TypeCuda' BY DEF TypeCuda
<1>4. BusyOK' /\ PositionOK'
  BY DEF BusyOK, PositionOK, More, TypeServer, PeriodStages
<1>5. QED BY <1>1, <1>2, <1>3, <1>4

LEMMA RequestsTyped ==
  ASSUME TypeInv, NEW c \in Channels, NEW s \in Swing, NEW n \in Number
  PROVE  /\ Adding(c, s, n) \in Request /\ Removing(c, s) \in Request
         /\ Generating(s) \in Request
BY DEF TypeInv, TypeOK, TypeServer, Adding, Removing, Generating, NoRequest,
   Request, Ops, Swing, None, Number

LEMMA SwingsTyped ==
  ASSUME TypeInv
  PROVE  /\ activeSwing \in Swing /\ processingSwing \in Swing
         /\ FirstSwing \in Swing /\ NextSwing(activeSwing) \in Swing
         /\ number[activeSwing] \in Number
         /\ number[processingSwing] \in Number
BY DEF TypeInv, TypeOK, TypeServer, processingSwing, FirstSwing, NextSwing,
   Swing

LEMMA OtherRequestsTyped ==
  ASSUME TypeInv
  PROVE  /\ [NoRequest EXCEPT !.op = "SETUP", !.mix = mix] \in Request
         /\ [NoRequest EXCEPT !.op = "GET_DATA", !.swing = processingSwing,
                              !.channels = chans] \in Request
         /\ [NoRequest EXCEPT !.op = "PROCESS",
                              !.swing = processingSwing] \in Request
BY SwingsTyped DEF TypeInv, TypeOK, TypeServer, NoRequest, Request, Ops, Swing,
   None, Number

(* A step of the server that calls nobody.                                 *)
LEMMA LocalTyped ==
  ASSUME TypeInv, UNCHANGED <<memory, cudaVars, driverVars>>,
         TypeServer', PositionOK'
  PROVE  TypeInv'
BY DEF TypeInv, TypeOK, TypeMemory, TypeCuda, TypeDriver, BusyOK, memory,
   cudaVars, driverVars

LEMMA ServerTyped ==
  ASSUME TypeInv, Server
  PROVE  TypeInv'
<1> USE DEF Stage, PeriodStages
<1>1. CASE SetupForScan
  BY <1>1, CallTyped, ReturnedTyped, OtherRequestsTyped DEF SetupForScan
<1>2. CASE AddFirst
  <2>1. \A c \in Channels :
          [d \in Channels |-> Adding(d, FirstSwing, number[activeSwing])][c]
             \in Request
    BY RequestsTyped, SwingsTyped
  <2>2. QED BY <1>2, <2>1, NextTyped, ReturnedTyped DEF AddFirst
<1>3. CASE GenerateFirst
  <2>1. Generating(FirstSwing) \in Request
    BY SwingsTyped
       DEF TypeInv, TypeOK, TypeServer, Generating, NoRequest, Request, Ops,
           Swing, None, Number
  <2>2. QED BY <1>3, <2>1, CallTyped, ReturnedTyped DEF GenerateFirst
<1>4. CASE Trigger
  <2>1. TypeServer' /\ PositionOK'
    BY <1>4 DEF Trigger, TypeInv, TypeOK, TypeServer, PositionOK, More,
       Transmitting, usrps
  <2>2. QED BY <1>4, <2>1, LocalTyped DEF Trigger
<1>5. CASE Setup
  BY <1>5, CallUsrpsTyped, UsrpsReturnedTyped
     DEF Setup, usrps, TypeInv, TypeOK, TypeServer
<1>6. CASE TriggerPulse
  BY <1>6, CallUsrpsTyped, UsrpsReturnedTyped
     DEF TriggerPulse, usrps, TypeInv, TypeOK, TypeServer
<1>7. CASE GetSamples
  BY <1>7, CallTyped, ReturnedTyped, OtherRequestsTyped DEF GetSamples
<1>8. CASE Prepare
  <2>1. number[activeSwing] + 1 \in Number BY SwingsTyped DEF Number
  <2>2. number' \in [Swing -> Number]
    BY <1>8, <2>1, SwingsTyped DEF Prepare, TypeInv, TypeOK, TypeServer
  <2>3. TypeServer'
    BY <1>8, <2>2 DEF Prepare, TypeInv, TypeOK, TypeServer, usrps
  <2>4. PositionOK'
    BY <1>8 DEF Prepare, TypeInv, PositionOK, More
  <2>5. QED BY <1>8, <2>3, <2>4, LocalTyped DEF Prepare
<1>9. CASE PrepareChannel
  <2>1. \A c \in Channels :
          [d \in Channels |->
             IF More THEN Adding(d, processingSwing, number[processingSwing])
                     ELSE Removing(d, processingSwing)][c] \in Request
    BY RequestsTyped, SwingsTyped
  <2>2. QED BY <1>9, <2>1, NextTyped, ReturnedTyped DEF PrepareChannel
<1>10. CASE SkipStopped
  <2>1. TypeServer' /\ PositionOK'
    BY <1>10 DEF SkipStopped, TypeInv, TypeOK, TypeServer, PositionOK, More,
       radar, usrps
  <2>2. QED BY <1>10, <2>1, LocalTyped DEF SkipStopped
<1>11. CASE EndPrepare
  <2>1. TypeServer'
    BY <1>11 DEF EndPrepare, TypeInv, TypeOK, TypeServer, usrps
  <2>2. PositionOK'
    BY <1>11 DEF EndPrepare, TypeInv, TypeOK, TypeServer, PositionOK, More
  <2>3. QED BY <1>11, <2>1, <2>2, LocalTyped DEF EndPrepare
<1>12. CASE Generate
  <2>1. Generating(processingSwing) \in Request
    BY SwingsTyped
       DEF TypeInv, TypeOK, TypeServer, Generating, NoRequest, Request, Ops,
           Swing, None, Number
  <2>2. QED BY <1>12, <2>1, CallTyped, ReturnedTyped DEF Generate
<1>13. CASE ReadyData
  <2>1. CASE CallUsrps("ready", "READY_DATA") BY <2>1, CallUsrpsTyped
  <2>2. CASE /\ UsrpsReturned("ready", "switch")
             /\ heard' = [heard EXCEPT ![activeSwing] = inService]
             /\ erred' = [erred EXCEPT ![activeSwing] =
                            {u \in inService : answer[u] = "error"}]
             /\ UNCHANGED inService
    <3>1. /\ heard' \in [Swing -> SUBSET Usrps]
          /\ erred' \in [Swing -> SUBSET Usrps]
      BY <2>2 DEF TypeInv, TypeOK, TypeServer
    <3>2. QED BY <2>2, <3>1, UsrpsReturnedTyped
  <2>3. QED BY <1>13, <2>1, <2>2 DEF ReadyData
<1>14. CASE Switch
  <2>1. TypeServer'
    BY <1>14, SwingsTyped
       DEF Switch, TypeInv, TypeOK, TypeServer, PositionOK, Transmitting, usrps
  <2>2. PositionOK'
    BY <1>14 DEF Switch, TypeInv, TypeOK, TypeServer, PositionOK, More
  <2>3. QED BY <1>14, <2>1, <2>2, LocalTyped DEF Switch
<1>15. CASE Process
  BY <1>15, CallTyped, ReturnedTyped, OtherRequestsTyped DEF Process
<1>16. CASE Unregister
  <2>1. \A c \in Channels : \A s \in Swing : Removing(c, s) \in Request
    BY DEF Removing, NoRequest, Request, Ops, Swing, None, Number
  <2>2. todo \subseteq Channels BY DEF TypeInv, TypeOK, TypeServer
  <2>3. \A c \in Channels : [d \in Channels |-> Removing(d, 1)][c] \in Request
    BY <2>1 DEF Swing
  <2>4. \A c \in todo : Removing(c, 0) \in Request BY <2>1, <2>2 DEF Swing
  <2>5. QED BY <1>16, <2>3, <2>4, CallTyped, NextTyped, ReturnedTyped
            DEF Unregister
<1>17. QED
  BY <1>1, <1>2, <1>3, <1>4, <1>5, <1>6, <1>7, <1>8, <1>9, <1>10, <1>11,
     <1>12, <1>13, <1>14, <1>15, <1>16 DEF Server
----------------------------------------------------------------------------
(* Channels and connections.                                               *)

LEMMA ChannelTyped ==
  ASSUME TypeInv,
         \/ StartScan
         \/ \E c \in Channels : Stop(c) \/ Leave(c)
  PROVE  TypeInv'
<1> USE DEF PeriodStages, Stage
<1>1. CASE StartScan
  <2>1. number' \in [Swing -> Number]
    BY <1>1 DEF StartScan, Latest, TypeInv, TypeOK, TypeServer, Swing, Number
  <2>2. TypeServer'
    BY <1>1, <2>1 DEF StartScan, TypeInv, TypeOK, TypeServer, usrps
  <2>3. PositionOK'
    BY <1>1 DEF StartScan, TypeInv, PositionOK
  <2>4. QED BY <1>1, <2>2, <2>3, LocalTyped DEF StartScan
<1>2. ASSUME NEW c \in Channels, Stop(c) PROVE TypeInv'
  <2>1. TypeServer'
    BY <1>2 DEF Stop, TypeInv, TypeOK, TypeServer, server, usrps
  <2>2. PositionOK'
    BY <1>2 DEF Stop, TypeInv, PositionOK, More, server
  <2>3. QED BY <1>2, <2>1, <2>2, LocalTyped DEF Stop
<1>3. ASSUME NEW c \in Channels, Leave(c) PROVE TypeInv'
  <2>1. TypeServer'
    BY <1>3 DEF Leave, TypeInv, TypeOK, TypeServer, usrps
  <2>2. PositionOK'
    BY <1>3 DEF Leave, TypeInv, PositionOK, More
  <2>3. QED BY <1>3, <2>1, <2>2, LocalTyped DEF Leave
<1>4. QED BY <1>1, <1>2, <1>3

LEMMA ConnectionTyped ==
  ASSUME TypeInv, NEW u \in Usrps, Lose(u) \/ Reconnect(u)
  PROVE  TypeInv'
<1> USE DEF TypeInv, TypeOK, PeriodStages, Stage
<1>1. CASE Lose(u)
  <2>1. TypeServer' BY <1>1 DEF Lose, TypeServer, radar
  <2>2. TypeCuda' /\ TypeDriver' /\ BusyOK'
    BY <1>1 DEF Lose, TypeCuda, TypeDriver, BusyOK, cudaVars, driverVars
  <2>3. PositionOK'
    BY <1>1 DEF Lose, PositionOK, More, radar
  <2>4. TypeMemory'
    <3>1. CASE UNCHANGED memory BY <3>1 DEF TypeMemory, memory
    <3>2. CASE
            /\ shmTx' = [shmTx EXCEPT ![u] = [s \in Swing |-> Silence]]
            /\ shmRx' = [shmRx EXCEPT ![u] = [s \in Swing |-> None]]
      <4>1. /\ [s \in Swing |-> Silence] \in [Swing -> Waveform]
            /\ [s \in Swing |-> None] \in [Swing -> Number]
        BY SilenceTyped DEF None, Number
      <4>2. QED BY <3>2, <4>1 DEF TypeMemory
    <3>3. QED BY <1>1, <3>1, <3>2 DEF Lose
  <2>5. QED BY <2>1, <2>2, <2>3, <2>4
<1>2. CASE Reconnect(u)
  <2>1. TypeServer' /\ PositionOK'
    BY <1>2 DEF Reconnect, TypeServer, PositionOK, More, server, radar
  <2>2. QED BY <1>2, <2>1, LocalTyped DEF Reconnect
<1>3. QED BY <1>1, <1>2

LEMMA StutterTyped ==
  ASSUME TypeInv, UNCHANGED vars
  PROVE  TypeInv'
<1>1. TypeServer' /\ PositionOK'
  BY DEF TypeInv, TypeOK, TypeServer, PositionOK, More, vars, server, radar,
     usrps
<1>2. QED BY <1>1, LocalTyped DEF vars

LEMMA NextTypeInv ==
  ASSUME TypeInv, [Next]_vars
  PROVE  TypeInv'
BY CudaTyped, UsrpTyped, ServerTyped, ChannelTyped, ConnectionTyped,
   StutterTyped DEF Next

LEMMA TypeInvHolds == Spec => []TypeInv
BY TypeInit, NextTypeInv, PTL DEF Spec

(* Every variable of the server, the CUDA driver, the USRP drivers and the *)
(* shared memory keeps its type; behind it are that the swings alternate   *)
(* and that a scan ends with its last period.                              *)
THEOREM TypeCorrect == Spec => []TypeOK
BY TypeInvHolds, PTL DEF TypeInv
----------------------------------------------------------------------------
(* The order of the commands to the CUDA driver: it generates only while   *)
(* the server waits for that, and has done with the samples of a swing     *)
(* before the server asks for anything to be written there, because it is  *)
(* asked for their result first.                                           *)
UsrpStages == {"setup", "trigger", "ready"}

CudaOrder ==
  /\ calling => srv \notin {"idle", "got", "switch"}
  /\ request.op # "NONE" =>
       calling /\ ~replied /\ srv \notin UsrpStages \cup {"dead"}
  /\ replied => calling /\ srv \notin UsrpStages \cup {"dead"}
  /\ request.op = "GENERATE_PULSE" => srv \in {"initGenerate", "generate"}
  /\ request.op = "PROCESS" => srv = "process"
  /\ srv = "process" => Collecting
  /\ cuda = "generate" => request.op = "GENERATE_PULSE"
  /\ cuda = "process" =>
       /\ srv \in {"process", "idle", "setupCuda", "leave0", "setup",
                  "trigger", "get", "dead"}
       /\ srv \in {"setup", "trigger", "get"} => Collecting
       /\ srv = "idle" /\ chans # {} => Collecting
       /\ srv \in {"setupCuda", "leave0", "get"} => ~replied

(* What a USRP driver in service has before it.                            *)
Quiet(u)      == at[u] = "wait" /\ queue[u] = <<>>
Holds(u, op)  == Len(queue[u]) = 1 /\ queue[u][1].op = op
Asked(u, stg) == srv = stg /\ calling /\ answer[u] = "none"

Pulsing(u) ==
  /\ at[u] = "pulse" /\ Holds(u, "TRIGGER_PULSE") /\ fire
  /\ srv \in {"trigger", "get", "got", "prepare", "generate", "ready"}
  /\ srv = "trigger" => calling /\ answer[u] # "none"
  /\ srv = "ready" => ~calling

Shape(u) ==
  \/ Quiet(u)
  \/ /\ at[u] \in {"wait", "setup"} /\ Holds(u, "SETUP")
     /\ srv = "dead" \/ Asked(u, "setup")
  \/ at[u] = "wait" /\ Holds(u, "TRIGGER_PULSE") /\ Asked(u, "trigger")
  \/ Pulsing(u)
  \/ /\ at[u] = "pulse" /\ Len(queue[u]) = 2
     /\ queue[u][1].op = "TRIGGER_PULSE" /\ queue[u][2].op = "READY_DATA"
     /\ Asked(u, "ready")
  \/ /\ at[u] \in {"wait", "ready"} /\ Holds(u, "READY_DATA")
     /\ Asked(u, "ready")

UsrpOrder ==
  /\ srv \in {"setup", "trigger"} => fire
  /\ \A u \in inService : stopped[u] # "gone" => Shape(u)

OrderInv == TypeInv /\ CudaOrder /\ UsrpOrder

LEMMA OrderInit == ASSUME Init PROVE CudaOrder /\ UsrpOrder
BY DEF Init, InitCuda, InitDriver, CudaOrder, UsrpOrder, Shape, Quiet,
   NoRequest, UsrpStages

LEMMA OrderExcludes == ASSUME OrderInv PROVE NoOverlap
BY DEF OrderInv, CudaOrder, UsrpOrder, Shape, Quiet, Pulsing, Asked, NoOverlap
----------------------------------------------------------------------------
(* The steps of the drivers.                                               *)

LEMMA CudaOrdered ==
  ASSUME OrderInv, CudaStep
  PROVE  CudaOrder' /\ UsrpOrder'
<1> USE DEF CudaStep, server, radar, usrps, driverVars, OrderInv
<1>1. UsrpOrder'
  BY DEF UsrpOrder, Shape, Quiet, Holds, Asked, Pulsing
<1>2. CudaOrder'
  <2> USE DEF CudaOrder, Respond, Taken, NoRequest, Collecting, UsrpStages
  <2>1. CASE SetupCuda BY <2>1 DEF SetupCuda
  <2>2. CASE AddChannel BY <2>2 DEF AddChannel
  <2>3. CASE RemoveChannel BY <2>3 DEF RemoveChannel
  <2>4. CASE StartGenerate BY <2>4 DEF StartGenerate
  <2>5. CASE EndGenerate BY <2>5 DEF EndGenerate
  <2>6. CASE StartProcess BY <2>6 DEF StartProcess
  <2>7. CASE EndProcess BY <2>7 DEF EndProcess
  <2>8. CASE GetData BY <2>8 DEF GetData
  <2>9. QED
    BY <2>1, <2>2, <2>3, <2>4, <2>5, <2>6, <2>7, <2>8 DEF Cuda
<1>3. QED BY <1>1, <1>2

(* A queue of one command is empty after it.                               *)
LEMMA TailOfQueue ==
  ASSUME TypeDriver, NEW u \in Usrps, queue[u] # <<>>
  PROVE  /\ Doing(u) = queue[u][1]
         /\ Len(queue[u]) = 1 => Tail(queue[u]) = <<>>
         /\ Len(queue[u]) = 2 => /\ Len(Tail(queue[u])) = 1
                                /\ Tail(queue[u])[1] = queue[u][2]
<1>1. queue[u] \in Seq(Command) BY DEF TypeDriver
<1>2. /\ Tail(queue[u]) \in Seq(Command) /\ Len(Tail(queue[u])) = Len(queue[u]) - 1
      /\ \A i \in 1 .. Len(Tail(queue[u])) : Tail(queue[u])[i] = queue[u][i + 1]
  BY <1>1, HeadTailProperties
<1>3. Head(queue[u]) = queue[u][1] OBVIOUS
<1>4. ASSUME Len(queue[u]) = 1 PROVE Tail(queue[u]) = <<>>
  <2>1. Len(Tail(queue[u])) = 0 BY <1>2, <1>4
  <2>2. Tail(queue[u]) # <<>> => Len(Tail(queue[u])) \in Nat \ {0}
    BY <1>2, EmptySeq
  <2>3. QED BY <2>1, <2>2
<1>5. Len(queue[u]) = 2 => /\ Len(Tail(queue[u])) = 1
                          /\ Tail(queue[u])[1] = queue[u][2]
  BY <1>2
<1>6. QED BY <1>3, <1>4, <1>5 DEF Doing

(* A command behind a queue changes nothing before it.                     *)
LEMMA AppendPropertiesAt ==
  ASSUME NEW q \in Seq(Command), NEW c, c \in Command
  PROVE  /\ Len(Append(q, c)) = Len(q) + 1
         /\ Append(q, c)[Len(q) + 1] = c
         /\ Len(q) = 1 => Append(q, c)[1] = q[1]
BY AppendProperties

LEMMA UsrpOrdered ==
  ASSUME OrderInv, NEW u \in Usrps, UsrpStep(u)
  PROVE  CudaOrder' /\ UsrpOrder'
<1> USE DEF UsrpStep, server, radar, usrps, cudaVars, OrderInv
<1>1. CudaOrder' BY DEF CudaOrder, Collecting
<1>2. \A v \in Usrps \ {u} : Shape(v) /\ v \in inService => Shape(v)'
  <2> USE DEF TypeInv, TypeOK, TypeDriver, Begin, End, Reply
  <2>1. /\ at' = [at EXCEPT ![u] = at'[u]]
        /\ queue' = [queue EXCEPT ![u] = queue'[u]]
        /\ answer' = [answer EXCEPT ![u] = answer'[u]]
    BY DEF Work, StartSetup, EndSetup, StartPulse, EndPulse, StartReady,
       EndReady, Hang, Resume, ExitDriver
  <2>2. QED BY <2>1 DEF Shape, Quiet, Holds, Asked, Pulsing
<1>3. \A v \in Usrps \ {u} : stopped'[v] = stopped[v]
  BY DEF TypeInv, TypeOK, TypeDriver, Work, StartSetup, EndSetup, StartPulse,
     EndPulse, StartReady, EndReady, Hang, Resume, ExitDriver
<1>4. ASSUME u \in inService, stopped'[u] # "gone"
      PROVE  Shape(u)'
  <2>1. TypeDriver BY DEF TypeInv, TypeOK
  <2>2. stopped[u] # "gone"
    BY <1>4, <2>1 DEF TypeDriver, Work, StartSetup, EndSetup, StartPulse,
       EndPulse, StartReady, EndReady, Hang, Resume, ExitDriver, Begin, End
  <2>3. Shape(u) BY <1>4, <2>2 DEF UsrpOrder
  <2> USE <2>1, <2>3, TailOfQueue
      DEF TypeDriver, Shape, Quiet, Holds, Asked, Pulsing, Begin, End, Reply
  <2>4. CASE StartSetup(u) BY <2>4 DEF StartSetup
  <2>5. CASE EndSetup(u) BY <2>5 DEF EndSetup
  <2>6. CASE StartPulse(u)
    <3>1. Answer = {"none", "ok", "error"} BY DEF Answer
    <3>2. /\ state[u][Doing(u).swing] = "ST_READY"
          /\ answer' = [answer EXCEPT ![u] = "ok"]
      BY <1>4, <2>6 DEF StartPulse
    <3>3. /\ at[u] = "wait" /\ Holds(u, "TRIGGER_PULSE") /\ Asked(u, "trigger")
      BY <2>6 DEF StartPulse
    <3>4. fire BY <3>3 DEF UsrpOrder
    <3>5. /\ at'[u] = "pulse" /\ answer'[u] = "ok" /\ queue' = queue
      BY <2>6, <3>2 DEF StartPulse
    <3>6. Pulsing(u)' BY <3>3, <3>4, <3>5
    <3>7. QED BY <3>6
  <2>7. CASE EndPulse(u) BY <2>7 DEF EndPulse
  <2>8. CASE StartReady(u) BY <2>8 DEF StartReady
  <2>9. CASE EndReady(u) BY <2>9 DEF EndReady
  <2>10. CASE Hang(u) \/ Resume(u) BY <2>10 DEF Hang, Resume
  <2>11. CASE ExitDriver(u) BY <1>4, <2>11 DEF ExitDriver
  <2>12. QED
    BY <2>4, <2>5, <2>6, <2>7, <2>8, <2>9, <2>10, <2>11 DEF Work
<1>5. UsrpOrder'
  BY <1>2, <1>3, <1>4 DEF UsrpOrder, TypeInv, TypeOK, TypeServer
<1>6. QED BY <1>1, <1>5
----------------------------------------------------------------------------
(* The calls of the server.                                                *)

LEMMA TransmitOrdered ==
  ASSUME OrderInv, NEW req \in Request, Transmit(req), ~calling,
         srv \notin UsrpStages \cup {"idle", "got", "switch", "dead"},
         req.op = "GENERATE_PULSE" => srv \in {"initGenerate", "generate"},
         req.op = "PROCESS" => srv = "process"
  PROVE  CudaOrder' /\ UsrpOrder'
<1> USE DEF Transmit, radar, usrps, driverVars, OrderInv, UsrpStages
<1>1. CudaOrder' BY DEF CudaOrder, Collecting
<1>2. UsrpOrder' BY DEF UsrpOrder, Shape, Quiet, Holds, Asked, Pulsing
<1>3. QED BY <1>1, <1>2

LEMMA CallOrdered ==
  ASSUME OrderInv, NEW stage, NEW req \in Request, CallCuda(stage, req),
         stage \notin UsrpStages \cup {"idle", "got", "switch", "dead"},
         req.op = "GENERATE_PULSE" => stage \in {"initGenerate", "generate"},
         req.op = "PROCESS" => stage = "process"
  PROVE  CudaOrder' /\ UsrpOrder'
BY TransmitOrdered DEF CallCuda

LEMMA NextOrdered ==
  ASSUME OrderInv, NEW stage, NEW req, NextOf(stage, req),
         stage \notin UsrpStages \cup {"idle", "got", "switch", "dead"},
         \A c \in Channels :
           /\ req[c] \in Request
           /\ req[c].op \in {"ADD_CHANNEL", "REMOVE_CHANNEL"}
  PROVE  CudaOrder' /\ UsrpOrder'
<1>1. PICK c \in todo : Transmit(req[c]) BY DEF NextOf
<1>2. req[c] \in Request /\ req[c].op \in {"ADD_CHANNEL", "REMOVE_CHANNEL"}
  BY DEF OrderInv, TypeInv, TypeOK, TypeServer
<1>3. QED BY <1>1, <1>2, TransmitOrdered DEF NextOf

(* An answer of the CUDA driver ends the command, and no kernel runs that  *)
(* the next stage has to wait for.                                         *)
LEMMA ReturnedOrdered ==
  ASSUME OrderInv, NEW stage, NEW next, CudaReturned(stage, next),
         \/ stage = next /\ stage \in {"initAdd", "prepare"}
         \/ stage = "setupCuda" /\ next = "initAdd"
         \/ stage = "initAdd" /\ next = "initGenerate"
         \/ stage \in {"initGenerate", "process", "leave1"} /\ next = "idle"
         \/ stage = "get" /\ next = "got"
         \/ stage = "leave0" /\ next = "leave1"
         \/ stage = "generate" /\ next = IF fire THEN "ready" ELSE "switch"
  PROVE  CudaOrder' /\ UsrpOrder'
<1> USE DEF CudaReturned, radar, usrps, driverVars, OrderInv, UsrpStages
<1>1. CudaOrder' BY DEF CudaOrder, Collecting
<1>2. UsrpOrder' BY DEF UsrpOrder, Shape, Quiet, Holds, Asked, Pulsing
<1>3. QED BY <1>1, <1>2

(* What a command finds: a driver at its last pulse or at nothing.         *)
LEMMA FreeDriver ==
  ASSUME NEW u, Shape(u), srv \in UsrpStages, ~calling
  PROVE  Quiet(u) \/ (Pulsing(u) /\ srv = "ready")
BY DEF Shape, Asked, Pulsing, UsrpStages

LEMMA CallUsrpsOrdered ==
  ASSUME OrderInv, NEW stage, NEW op, CallUsrps(stage, op),
         \/ stage = "setup" /\ op = "SETUP"
         \/ stage = "trigger" /\ op = "TRIGGER_PULSE"
         \/ stage = "ready" /\ op = "READY_DATA"
  PROVE  CudaOrder' /\ UsrpOrder'
<1> USE DEF CallUsrps, radar, usrps, cudaVars, OrderInv, UsrpStages
<1>1. CudaOrder' BY DEF CudaOrder, Collecting
<1>2. ASSUME NEW u \in inService, stopped[u] # "gone"
      PROVE  Shape(u)'
  <2> DEFINE cmd == [op |-> op, swing |-> activeSwing, mix |-> mix,
                     number |-> number[activeSwing]]
  <2>1. u \in Usrps /\ TypeDriver BY DEF TypeInv, TypeOK, TypeServer
  <2>2. queue[u] \in Seq(Command) BY <2>1 DEF TypeDriver
  <2>3. queue'[u] = Append(queue[u], cmd) /\ answer'[u] = "none" BY <2>1
  <2>4. cmd.op = op /\ cmd \in Command
    BY DEF TypeInv, TypeOK, TypeServer, Command, Swing
  <2> HIDE DEF cmd
  <2>5. /\ Len(queue'[u]) = Len(queue[u]) + 1
        /\ queue'[u][Len(queue[u]) + 1].op = op
        /\ Len(queue[u]) = 1 => queue'[u][1] = queue[u][1]
    <3>1. /\ Len(Append(queue[u], cmd)) = Len(queue[u]) + 1
          /\ Append(queue[u], cmd)[Len(queue[u]) + 1] = cmd
          /\ Len(queue[u]) = 1 => Append(queue[u], cmd)[1] = queue[u][1]
      BY <2>2, <2>4, AppendPropertiesAt, Zenon
    <3>2. QED BY <2>3, <2>4, <3>1, Zenon
  <2>6. Quiet(u) \/ (Pulsing(u) /\ srv = "ready")
    <3>1. srv \in UsrpStages /\ ~calling BY Zenon
    <3>2. Shape(u) BY <1>2 DEF UsrpOrder
    <3>3. QED BY <3>1, <3>2, FreeDriver, Zenon
  <2>7. CASE Quiet(u)
    <3>1. Holds(u, op)' BY <2>5, <2>7 DEF Quiet, Holds
    <3>2. QED BY <2>3, <2>7, <3>1 DEF Shape, Quiet, Asked
  <2>8. CASE Pulsing(u) /\ srv = "ready"
    <3>1. /\ Len(queue'[u]) = 2 /\ queue'[u][1].op = "TRIGGER_PULSE"
          /\ queue'[u][2].op = "READY_DATA"
      BY <2>5, <2>8 DEF Pulsing, Holds
    <3>2. QED BY <2>3, <2>8, <3>1 DEF Shape, Pulsing, Asked
  <2>9. QED BY <2>6, <2>7, <2>8
<1>3. UsrpOrder' BY <1>2 DEF UsrpOrder
<1>4. QED BY <1>1, <1>3

LEMMA UsrpsReturnedOrdered ==
  ASSUME OrderInv, NEW stage, NEW next, UsrpsReturned(stage, next),
         inService' = inService,
         \/ stage = "setup" /\ next = "trigger"
         \/ stage = "trigger" /\ next = "get"
         \/ stage = "ready" /\ next = "switch"
  PROVE  CudaOrder' /\ UsrpOrder'
<1> USE DEF UsrpsReturned, AllAnswered, radar, cudaVars, driverVars, OrderInv,
            UsrpStages
<1>1. CudaOrder' BY DEF CudaOrder, Collecting
<1>2. UsrpOrder' BY DEF UsrpOrder, Shape, Quiet, Holds, Asked, Pulsing
<1>3. QED BY <1>1, <1>2
----------------------------------------------------------------------------
(* The other steps of the server.                                          *)

LEMMA ServerOrdered ==
  ASSUME OrderInv, Server
  PROVE  CudaOrder' /\ UsrpOrder'
<1> USE DEF OrderInv
<1>1. CASE SetupForScan
  <2> DEFINE req == [NoRequest EXCEPT !.op = "SETUP", !.mix = mix]
  <2>1. req \in Request /\ req.op = "SETUP"
    BY OtherRequestsTyped DEF NoRequest
  <2> HIDE DEF req
  <2>2. CallCuda("setupCuda", req) => CudaOrder' /\ UsrpOrder'
    BY <2>1, CallOrdered DEF UsrpStages
  <2>3. QED BY <1>1, <2>2, ReturnedOrdered DEF SetupForScan, req
<1>2. CASE AddFirst
  <2> DEFINE req == [c \in Channels |->
                       Adding(c, FirstSwing, number[activeSwing])]
  <2>1. \A c \in Channels : req[c] \in Request /\ req[c].op = "ADD_CHANNEL"
    BY RequestsTyped, SwingsTyped DEF Adding, NoRequest
  <2>2. CASE NextOf("initAdd", req) BY <2>1, <2>2, NextOrdered DEF UsrpStages
  <2>3. QED BY <1>2, <2>2, ReturnedOrdered DEF AddFirst
<1>3. CASE GenerateFirst
  <2>1. Generating(FirstSwing) \in Request
    BY SwingsTyped
       DEF TypeInv, TypeOK, TypeServer, Generating, NoRequest, Request, Ops,
           Swing, None, Number
  <2>2. Generating(FirstSwing).op = "GENERATE_PULSE"
    BY DEF Generating, NoRequest
  <2>3. CASE CallCuda("initGenerate", Generating(FirstSwing))
    BY <2>1, <2>2, <2>3, CallOrdered DEF UsrpStages
  <2>4. QED BY <1>3, <2>3, ReturnedOrdered DEF GenerateFirst
<1>4. CASE Trigger
  <2> USE DEF Trigger, usrps, cudaVars, driverVars
  <2>1. CudaOrder' BY <1>4 DEF CudaOrder, Collecting, UsrpStages
  <2>2. UsrpOrder'
    BY <1>4 DEF UsrpOrder, Shape, Quiet, Holds, Asked, Pulsing
  <2>3. QED BY <2>1, <2>2
<1>5. CASE Setup \/ TriggerPulse
  BY <1>5, CallUsrpsOrdered, UsrpsReturnedOrdered
     DEF Setup, TriggerPulse, usrps
<1>6. CASE GetSamples
  <2> DEFINE req == [NoRequest EXCEPT !.op = "GET_DATA",
                     !.swing = processingSwing, !.channels = chans]
  <2>1. req \in Request /\ req.op = "GET_DATA"
    BY OtherRequestsTyped DEF NoRequest
  <2> HIDE DEF req
  <2>2. CallCuda("get", req) => CudaOrder' /\ UsrpOrder'
    BY <2>1, CallOrdered DEF UsrpStages
  <2>3. QED BY <1>6, <2>2, ReturnedOrdered DEF GetSamples, req
<1>7. CASE Prepare
  <2> USE DEF Prepare, usrps, cudaVars, driverVars
  <2>1. CudaOrder' BY <1>7 DEF CudaOrder, Collecting, UsrpStages
  <2>2. UsrpOrder'
    BY <1>7 DEF UsrpOrder, Shape, Quiet, Holds, Asked, Pulsing
  <2>3. QED BY <2>1, <2>2
<1>8. CASE PrepareChannel
  <2> DEFINE req == [c \in Channels |->
        IF More THEN Adding(c, processingSwing, number[processingSwing])
                ELSE Removing(c, processingSwing)]
  <2>1. \A c \in Channels :
          /\ req[c] \in Request
          /\ req[c].op \in {"ADD_CHANNEL", "REMOVE_CHANNEL"}
    BY RequestsTyped, SwingsTyped DEF Adding, Removing, NoRequest
  <2>2. CASE NextOf("prepare", req) BY <2>1, <2>2, NextOrdered DEF UsrpStages
  <2>3. QED BY <1>8, <2>2, ReturnedOrdered DEF PrepareChannel
<1>9. CASE SkipStopped
  <2> USE DEF SkipStopped, radar, usrps, cudaVars, driverVars
  <2>1. CudaOrder' BY <1>9 DEF CudaOrder, Collecting, UsrpStages
  <2>2. UsrpOrder'
    BY <1>9 DEF UsrpOrder, Shape, Quiet, Holds, Asked, Pulsing
  <2>3. QED BY <2>1, <2>2
<1>10. CASE EndPrepare
  <2> USE DEF EndPrepare, usrps, cudaVars, driverVars
  <2>1. CudaOrder' BY <1>10 DEF CudaOrder, Collecting, UsrpStages
  <2>2. UsrpOrder'
    BY <1>10 DEF UsrpOrder, Shape, Quiet, Holds, Asked, Pulsing
  <2>3. QED BY <2>1, <2>2
<1>11. CASE Generate
  <2>1. Generating(processingSwing) \in Request
    BY SwingsTyped
       DEF TypeInv, TypeOK, TypeServer, Generating, NoRequest, Request, Ops,
           Swing, None, Number
  <2>2. Generating(processingSwing).op = "GENERATE_PULSE"
    BY DEF Generating, NoRequest
  <2>3. CASE CallCuda("generate", Generating(processingSwing))
    BY <2>1, <2>2, <2>3, CallOrdered DEF UsrpStages
  <2>4. QED BY <1>11, <2>3, ReturnedOrdered DEF Generate
<1>12. CASE ReadyData
  BY <1>12, CallUsrpsOrdered, UsrpsReturnedOrdered DEF ReadyData
<1>13. CASE Switch
  <2> USE DEF Switch, usrps, cudaVars, driverVars
  <2>1. CudaOrder'
    BY <1>13 DEF CudaOrder, Collecting, UsrpStages, TypeInv, TypeOK,
       TypeServer
  <2>2. UsrpOrder'
    BY <1>13 DEF UsrpOrder, Shape, Quiet, Holds, Asked, Pulsing
  <2>3. QED BY <2>1, <2>2
<1>14. CASE Process
  <2> DEFINE req == [NoRequest EXCEPT !.op = "PROCESS",
                     !.swing = processingSwing]
  <2>1. req \in Request /\ req.op = "PROCESS"
    BY OtherRequestsTyped DEF NoRequest
  <2> HIDE DEF req
  <2>2. CallCuda("process", req) => CudaOrder' /\ UsrpOrder'
    BY <2>1, CallOrdered DEF UsrpStages
  <2>3. QED BY <1>14, <2>2, ReturnedOrdered DEF Process, req
<1>15. CASE Unregister
  <2>1. \A c \in Channels : \A s \in Swing :
          Removing(c, s) \in Request /\ Removing(c, s).op = "REMOVE_CHANNEL"
    BY DEF Removing, NoRequest, Request, Ops, Swing, None, Number
  <2>2. todo \subseteq Channels BY DEF TypeInv, TypeOK, TypeServer
  <2>3. ASSUME NEW c \in todo, CallCuda("leave0", Removing(c, 0))
        PROVE  CudaOrder' /\ UsrpOrder'
    <3>1. /\ Removing(c, 0) \in Request
          /\ Removing(c, 0).op = "REMOVE_CHANNEL"
      BY <2>1, <2>2 DEF Swing
    <3>2. QED BY <2>3, <3>1, CallOrdered DEF UsrpStages
  <2> DEFINE req == [c \in Channels |-> Removing(c, 1)]
  <2>4. \A c \in Channels :
          req[c] \in Request /\ req[c].op = "REMOVE_CHANNEL"
    BY <2>1 DEF Swing
  <2>5. CASE NextOf("leave1", req) BY <2>4, <2>5, NextOrdered DEF UsrpStages
  <2>6. QED BY <1>15, <2>3, <2>5, ReturnedOrdered DEF Unregister
<1>16. QED
  BY <1>1, <1>2, <1>3, <1>4, <1>5, <1>6, <1>7, <1>8, <1>9, <1>10, <1>11,
     <1>12, <1>13, <1>14, <1>15 DEF Server
----------------------------------------------------------------------------
(* Channels, connections, and the theorem.                                 *)

LEMMA ChannelOrdered ==
  ASSUME OrderInv,
         \/ StartScan
         \/ \E c \in Channels : Stop(c) \/ Leave(c)
  PROVE  CudaOrder' /\ UsrpOrder'
<1> USE DEF OrderInv, cudaVars, driverVars, usrps, server, PeriodStages
<1>1. CASE StartScan
  <2>1. CudaOrder' BY <1>1 DEF StartScan, CudaOrder, UsrpStages
  <2>2. UsrpOrder'
    BY <1>1 DEF StartScan, UsrpOrder, Shape, Quiet, Holds, Asked, Pulsing
  <2>3. QED BY <2>1, <2>2
<1>2. ASSUME NEW c \in Channels, Stop(c) PROVE CudaOrder' /\ UsrpOrder'
  <2>1. CudaOrder' BY <1>2 DEF Stop, CudaOrder, Collecting, UsrpStages
  <2>2. UsrpOrder'
    BY <1>2 DEF Stop, UsrpOrder, Shape, Quiet, Holds, Asked, Pulsing
  <2>3. QED BY <2>1, <2>2
<1>3. ASSUME NEW c \in Channels, Leave(c) PROVE CudaOrder' /\ UsrpOrder'
  <2>1. CudaOrder' BY <1>3 DEF Leave, CudaOrder, Collecting, UsrpStages
  <2>2. UsrpOrder'
    BY <1>3 DEF Leave, UsrpOrder, Shape, Quiet, Holds, Asked, Pulsing
  <2>3. QED BY <2>1, <2>2
<1>4. QED BY <1>1, <1>2, <1>3

LEMMA ConnectionOrdered ==
  ASSUME OrderInv, NEW u \in Usrps, Lose(u) \/ Reconnect(u)
  PROVE  CudaOrder' /\ UsrpOrder'
<1> USE DEF OrderInv, cudaVars, driverVars, server, radar
<1>1. CASE Lose(u)
  <2>1. CudaOrder' BY <1>1 DEF Lose, CudaOrder, Collecting, UsrpStages
  <2>2. UsrpOrder'
    BY <1>1 DEF Lose, UsrpOrder, Shape, Quiet, Holds, Asked, Pulsing
  <2>3. QED BY <2>1, <2>2
<1>2. CASE Reconnect(u)
  <2>1. CudaOrder' BY <1>2 DEF Reconnect, CudaOrder, Collecting
  <2>2. UsrpOrder'
    BY <1>2 DEF Reconnect, UsrpOrder, Shape, Quiet, Holds, Asked, Pulsing
  <2>3. QED BY <2>1, <2>2
<1>3. QED BY <1>1, <1>2

LEMMA StutterOrdered ==
  ASSUME OrderInv, UNCHANGED vars
  PROVE  CudaOrder' /\ UsrpOrder'
BY DEF OrderInv, vars, server, radar, usrps, cudaVars, driverVars, CudaOrder,
   Collecting, UsrpOrder, Shape, Quiet, Holds, Asked, Pulsing

LEMMA OrderInvHolds == Spec => []OrderInv
<1>1. Init => OrderInv BY TypeInit, OrderInit DEF OrderInv
<1>2. OrderInv /\ [Next]_vars => OrderInv'
  <2> SUFFICES ASSUME OrderInv, [Next]_vars PROVE OrderInv' OBVIOUS
  <2>1. TypeInv' BY NextTypeInv DEF OrderInv
  <2>2. CudaOrder' /\ UsrpOrder'
    BY CudaOrdered, UsrpOrdered, ServerOrdered, ChannelOrdered,
       ConnectionOrdered, StutterOrdered DEF Next
  <2>3. QED BY <2>1, <2>2 DEF OrderInv
<1>3. QED BY <1>1, <1>2, PTL DEF Spec

(* The CUDA driver and a USRP driver in service are never at the same      *)
(* segment of the shared memory at the same time, for any number of USRPs, *)
(* channels, periods and failures, though the semaphores exclude nobody:   *)
(* the order in which trigger_next_swing sends its commands and waits for  *)
(* the answers is enough.                                                  *)
THEOREM Exclusion == Spec => []NoOverlap
BY OrderInvHolds, OrderExcludes, PTL
----------------------------------------------------------------------------

(* The stages in which a trigger prepares the other swing.                 *)
Preparing   == {"prepare", "generate", "ready", "switch"}
LeaveStages == {"leave0", "leave1"}
StartStages == {"setupCuda", "initAdd", "initGenerate"}

(* Where the scan is.                                                      *)
ScanOK ==
  /\ srv \in StartStages => position = 0
  /\ srv \in StartStages \cup PeriodStages \cup {"process"} =>
       chans # {} \/ (srv \in {"ready", "switch"} /\ position = ScanLen)
  /\ srv \in PeriodStages /\ fire => Transmitting
  /\ srv = "get" /\ calling => Collecting
  /\ srv = "got" => Collecting

(* The channels a loop has left.                                           *)
TodoOK ==
  /\ srv = "setupCuda" => todo = chans
  /\ srv = "initAdd" => todo \subseteq chans
  /\ srv = "prepare" => todo \subseteq chans \cup quit
  /\ srv = "leave0" \/ (srv = "leave1" /\ ~calling) =>
       \E c \in Channels : todo = {c}
  /\ srv = "leave1" /\ calling => todo = {}
  /\ srv \in LeaveStages => todo \cap chans = {}

(* The command the CUDA driver has, at each stage of the server.           *)
Sends(stage, op, s) == srv = stage /\ request.op = op /\ request.swing = s

RequestOK ==
  /\ request.op = "NONE" => request.channels = {}
  /\ request.op # "NONE" =>
       \/ srv = "setupCuda" /\ request.op = "SETUP" /\ request.mix = mix
       \/ /\ Sends("initAdd", "ADD_CHANNEL", activeSwing)
          /\ request.channels \subseteq chans
          /\ request.sequence = number[activeSwing]
       \/ /\ Sends("initGenerate", "GENERATE_PULSE", activeSwing)
          /\ request.mix = mix
       \/ /\ Sends("get", "GET_DATA", processingSwing)
          /\ \A c \in request.channels :
               sequences[processingSwing][c] = number[processingSwing]
       \/ /\ Sends("prepare", "ADD_CHANNEL", processingSwing) /\ More
          /\ request.channels \subseteq chans \cup quit
          /\ request.sequence = number[processingSwing]
       \/ Sends("prepare", "REMOVE_CHANNEL", processingSwing) /\ ~More
       \/ /\ Sends("generate", "GENERATE_PULSE", processingSwing)
          /\ request.mix = mix
       \/ Sends("process", "PROCESS", processingSwing)
       \/ /\ Sends("leave0", "REMOVE_CHANNEL", 0)
          /\ request.channels = todo
       \/ /\ Sends("leave1", "REMOVE_CHANNEL", 1)
          /\ request.channels \cap chans = {}

(* Periods have numbers from 1.                                            *)
NumberOK ==
  srv # "dead" /\ chans # {} =>
    /\ Transmitting => number[activeSwing] # None
    /\ srv \notin Preparing /\ position > 0 => number[processingSwing] # None
    /\ srv \in Preparing /\ More => number[processingSwing] # None

(* Both swings have the mixing frequency of the scan.                      *)
Tuned == srv # "dead" /\ (chans # {} \/ srv # "idle")

MixingOK ==
  Tuned /\ (srv = "setupCuda" => replied) => \A s \in Swing : mixing[s] = mix

(* The channels whose sequence has not been sent or not been taken yet.    *)
Waiting == IF srv \in {"initAdd", "prepare"} THEN todo \cup request.channels
                                             ELSE {}

(* The sequences of the active swing are those of its period, those of the *)
(* other swing are of the period that is collected and then of the one     *)
(* after the active one; none are left for a period behind the end.        *)
ActiveSequences ==
  srv \notin {"setupCuda", "dead"} =>
    \A c \in chans \ (IF srv = "initAdd" THEN Waiting ELSE {}) :
      sequences[activeSwing][c] = IF Transmitting THEN number[activeSwing]
                                                  ELSE None

OtherSequences ==
  /\ srv \notin Preparing \cup {"dead"} /\ position > 0 =>
       \A c \in chans :
         sequences[processingSwing][c] = number[processingSwing]
  /\ srv \in Preparing =>
       \A c \in chans \ Waiting :
         sequences[processingSwing][c] = IF More THEN number[processingSwing]
                                                 ELSE None

(* Whose sequences the driver has.                                         *)
Known ==
  srv # "dead" =>
    \A s \in Swing : \A c \in Channels : sequences[s][c] # None =>
      \/ c \in chans \cup quit
      \/ srv = "leave0" /\ c \in todo /\ (s = 0 => ~replied)
      \/ srv = "leave1" /\ s = 1 /\ c \in todo \cup request.channels

SequenceInv ==
  /\ OrderInv
  /\ ScanOK /\ TodoOK /\ RequestOK /\ NumberOK /\ MixingOK
  /\ ActiveSequences /\ OtherSequences /\ Known

(* The part of it that is new.                                             *)
Sequenced ==
  /\ ScanOK /\ TodoOK /\ RequestOK /\ NumberOK /\ MixingOK
  /\ ActiveSequences /\ OtherSequences /\ Known

LEMMA SequencedInit == ASSUME Init PROVE Sequenced
<1> USE DEF Init, InitCuda, NoRequest, NoSequence
<1>1. ScanOK /\ TodoOK /\ RequestOK /\ NumberOK
  BY DEF ScanOK, TodoOK, RequestOK, NumberOK, StartStages, PeriodStages,
     LeaveStages
<1>2. MixingOK /\ ActiveSequences /\ OtherSequences /\ Known
  BY DEF MixingOK, Tuned, ActiveSequences, OtherSequences, Known, Waiting,
     Preparing
<1>3. QED BY <1>1, <1>2 DEF Sequenced

(* A step of the drivers or the connections.                               *)
LEMMA SequencedUnchanged ==
  ASSUME SequenceInv, UNCHANGED <<server, radar, quit>>,
         UNCHANGED <<request, replied, sequences, mixing>>
  PROVE  Sequenced'
<1> USE DEF SequenceInv, server, radar, More, Transmitting, Collecting,
            processingSwing
<1>1. ScanOK' /\ TodoOK' /\ NumberOK' /\ MixingOK'
  BY DEF ScanOK, TodoOK, NumberOK, MixingOK, Tuned
<1>2. RequestOK' BY DEF RequestOK, Sends
<1>3. ActiveSequences' /\ OtherSequences' /\ Known'
  BY DEF ActiveSequences, OtherSequences, Known, Waiting
<1>4. QED BY <1>1, <1>2, <1>3 DEF Sequenced

(* The server ends.                                                        *)
LEMMA SequencedDead ==
  ASSUME SequenceInv, srv' = "dead", request.op = "NONE",
         UNCHANGED <<radar, quit, todo, calling>>,
         UNCHANGED <<request, replied, sequences, mixing>>
  PROVE  Sequenced'
<1> USE DEF SequenceInv, radar, StartStages, PeriodStages, LeaveStages,
            Preparing
<1>1. ScanOK' /\ TodoOK' /\ NumberOK' /\ MixingOK'
  BY DEF ScanOK, TodoOK, NumberOK, MixingOK, Tuned
<1>2. RequestOK' BY DEF RequestOK, Sends
<1>3. ActiveSequences' /\ OtherSequences' /\ Known'
  BY DEF ActiveSequences, OtherSequences, Known
<1>4. QED BY <1>1, <1>2, <1>3 DEF Sequenced
----------------------------------------------------------------------------
(* The CUDA driver.                                                        *)
----------------------------------------------------------------------------
(* The CUDA driver.                                                        *)

(* An answer to a command that had nothing to do with the sequences.       *)
LEMMA AnswerSequenced ==
  ASSUME SequenceInv, UNCHANGED <<server, radar, quit>>, Respond,
         request.op \in {"GENERATE_PULSE", "PROCESS", "GET_DATA"},
         UNCHANGED <<sequences, mixing>>
  PROVE  Sequenced'
<1> USE DEF SequenceInv, server, radar, More, Transmitting, Collecting,
            processingSwing, Respond, NoRequest
<1>1. ScanOK' /\ TodoOK' /\ NumberOK'
  BY DEF ScanOK, TodoOK, NumberOK
<1>2. srv \notin {"setupCuda", "initAdd", "prepare", "leave0", "leave1"}
  BY DEF RequestOK, Sends
<1>3. RequestOK' BY DEF RequestOK
<1>4. MixingOK' BY <1>2 DEF MixingOK, Tuned
<1>5. ActiveSequences' /\ OtherSequences' /\ Known'
  BY <1>2 DEF ActiveSequences, OtherSequences, Known, Waiting
<1>6. QED BY <1>1, <1>3, <1>4, <1>5 DEF Sequenced

LEMMA CudaSequenced ==
  ASSUME SequenceInv, CudaStep
  PROVE  Sequenced' /\ cuda' # "lost"
<1>0. /\ TypeServer /\ TypeCuda /\ CudaOrder /\ PositionOK /\ ScanOK /\ TodoOK
      /\ RequestOK /\ NumberOK /\ MixingOK /\ ActiveSequences
      /\ OtherSequences /\ Known
  BY DEF SequenceInv, OrderInv, TypeInv, TypeOK
<1> USE DEF CudaStep
<1>1. CASE SetupCuda
  <2> USE <1>1 DEF SetupCuda, Taken, Respond, NoRequest, server, radar
  <2>1. srv = "setupCuda" /\ request.mix = mix /\ position = 0
    BY <1>0 DEF RequestOK, Sends, ScanOK, StartStages
  <2>2. ScanOK' /\ TodoOK' /\ NumberOK'
    BY <1>0 DEF ScanOK, TodoOK, NumberOK, More, Transmitting, Collecting,
       processingSwing
  <2>3. RequestOK' BY DEF RequestOK
  <2>4. MixingOK' BY <2>1 DEF MixingOK
  <2>5. ActiveSequences' /\ OtherSequences' /\ Known'
    BY <1>0, <2>1 DEF ActiveSequences, OtherSequences, Known, Preparing
  <2>6. QED BY <2>2, <2>3, <2>4, <2>5, <1>0 DEF Sequenced, TypeCuda
<1>2. CASE AddChannel
  <2> USE <1>2 DEF AddChannel, Taken, Respond, NoRequest, server, radar
  <2>1. ScanOK' /\ TodoOK' /\ NumberOK' /\ MixingOK'
    BY <1>0 DEF ScanOK, TodoOK, NumberOK, MixingOK, Tuned, More, Transmitting,
       Collecting, processingSwing, RequestOK, Sends
  <2>2. RequestOK' BY DEF RequestOK
  <2> DEFINE s == request.swing
  <2>3. /\ s \in Swing /\ activeSwing \in Swing
        /\ request.channels \subseteq Channels
        /\ sequences \in [Swing -> [Channels -> Number]]
        /\ chans \subseteq Channels
    BY <1>0 DEF TypeCuda, TypeServer, Request
  <2>4. \A c \in Channels :
          sequences'[s][c] = IF c \in request.channels THEN request.sequence
                                                       ELSE sequences[s][c]
    BY <2>3
  <2>5. \A t \in Swing \ {s} : sequences'[t] = sequences[t] BY <2>3
  <2>6. \/ /\ srv = "initAdd" /\ s = activeSwing /\ position = 0
           /\ request.sequence = number[activeSwing]
           /\ request.channels \subseteq chans
        \/ /\ srv = "prepare" /\ s = processingSwing /\ More
           /\ request.sequence = number[processingSwing]
           /\ request.channels \subseteq chans \cup quit
    BY <1>0 DEF RequestOK, Sends, ScanOK, StartStages
  <2> HIDE DEF s
  <2> USE DEF ActiveSequences, OtherSequences, Known, Waiting, Preparing,
              More, Transmitting, processingSwing, Swing
  <2>7. CASE srv = "initAdd" /\ s = activeSwing /\ position = 0
    <3>1. Transmitting BY <2>7
    <3>2. ActiveSequences' BY <1>0, <2>3, <2>4, <2>6, <2>7, <3>1
    <3>3. OtherSequences' BY <1>0, <2>7
    <3>4. Known' BY <1>0, <2>3, <2>4, <2>5, <2>6, <2>7
    <3>5. QED BY <2>1, <2>2, <3>2, <3>3, <3>4, <1>0 DEF Sequenced, TypeCuda
  <2>8. CASE srv = "prepare" /\ s = processingSwing /\ More
    <3>1. activeSwing # s BY <2>3, <2>8
    <3>2. ActiveSequences' BY <1>0, <2>3, <2>5, <2>8, <3>1
    <3>3. OtherSequences' BY <1>0, <2>3, <2>4, <2>6, <2>8
    <3>4. Known' BY <1>0, <2>3, <2>4, <2>5, <2>6, <2>8
    <3>5. QED BY <2>1, <2>2, <3>2, <3>3, <3>4, <1>0 DEF Sequenced, TypeCuda
  <2>9. QED BY <2>6, <2>7, <2>8
<1>3. CASE RemoveChannel
  <2> USE <1>3 DEF RemoveChannel, Removed, Taken, Respond, NoRequest, server,
                   radar
  <2>1. ScanOK' /\ TodoOK' /\ NumberOK' /\ MixingOK'
    BY <1>0 DEF ScanOK, TodoOK, NumberOK, MixingOK, Tuned, More, Transmitting,
       Collecting, processingSwing, RequestOK, Sends
  <2>2. RequestOK' BY DEF RequestOK
  <2> DEFINE s == request.swing
  <2>3. /\ s \in Swing /\ activeSwing \in Swing
        /\ request.channels \subseteq Channels
        /\ chans \subseteq Channels
    BY <1>0 DEF TypeCuda, TypeServer, Request
  <2>4. \A c \in Channels : \A t \in Swing :
          sequences'[t][c] = IF t = s /\ c \in request.channels THEN None
                             ELSE sequences[t][c]
    BY <2>3
  <2>6. \/ srv = "prepare" /\ s = processingSwing /\ ~More
        \/ srv = "leave0" /\ s = 0 /\ request.channels = todo
        \/ srv = "leave1" /\ s = 1 /\ request.channels \cap chans = {}
    BY <1>0 DEF RequestOK, Sends
  <2> HIDE DEF s
  <2> USE DEF ActiveSequences, OtherSequences, Known, Waiting, Preparing,
              More, Transmitting, processingSwing, Swing
  <2>7. CASE srv = "prepare" /\ s = processingSwing /\ ~More
    <3>1. activeSwing # s BY <2>3, <2>7
    <3>2. ActiveSequences' BY <1>0, <2>3, <2>4, <2>7, <3>1
    <3>3. OtherSequences' BY <1>0, <2>3, <2>4, <2>7
    <3>4. Known' BY <1>0, <2>3, <2>4, <2>7
    <3>5. QED BY <2>1, <2>2, <3>2, <3>3, <3>4, <1>0 DEF Sequenced, TypeCuda
  <2>8. CASE srv \in {"leave0", "leave1"} /\ request.channels \cap chans = {}
    <3>2. ActiveSequences' BY <1>0, <2>3, <2>4, <2>8
    <3>3. OtherSequences' BY <1>0, <2>3, <2>4, <2>8
    <3>4. Known' BY <1>0, <2>3, <2>4, <2>6, <2>8
    <3>5. QED BY <2>1, <2>2, <3>2, <3>3, <3>4, <1>0 DEF Sequenced, TypeCuda
  <2>9. QED BY <1>0, <2>6, <2>7, <2>8 DEF TodoOK, LeaveStages
<1>4. CASE StartGenerate
  <2> USE <1>4 DEF StartGenerate, Taken, server, radar
  <2>1. /\ request.mix = mix /\ request.swing \in Swing
        /\ srv \in {"initGenerate", "generate"}
    BY <1>0 DEF RequestOK, Sends, TypeCuda, Request
  <2>2. mixing' = mixing
    <3>1. mixing[request.swing] = mix BY <1>0, <2>1 DEF MixingOK, Tuned
    <3>2. mixing \in [Swing -> Freqs \cup {None}] BY <1>0 DEF TypeCuda
    <3>3. QED BY <2>1, <3>1, <3>2
  <2>3. CASE Respond BY <2>2, <2>3, AnswerSequenced, <1>0 DEF TypeCuda
  <2>4. CASE UNCHANGED <<request, replied>>
    BY <2>2, <2>4, SequencedUnchanged, <1>0 DEF TypeCuda
  <2>5. QED BY <2>3, <2>4
<1>5. CASE EndGenerate
  BY <1>0, <1>5, AnswerSequenced DEF EndGenerate, CudaOrder
<1>6. CASE StartProcess BY <1>6, AnswerSequenced DEF StartProcess, Taken
<1>7. CASE EndProcess BY <1>7, SequencedUnchanged DEF EndProcess
<1>8. CASE GetData
  <2> USE <1>8 DEF GetData, Taken
  <2>1. /\ srv = "get" /\ request.swing = processingSwing
        /\ \A c \in request.channels :
             sequences[processingSwing][c] = number[processingSwing]
    BY <1>0 DEF RequestOK, Sends
  <2>2. number[processingSwing] # None
    <3>1. calling /\ Collecting
      BY <1>0, <2>1 DEF CudaOrder, ScanOK
    <3>2. chans # {} BY <1>0, <2>1 DEF ScanOK, PeriodStages
    <3>3. position > 0 BY <3>1 DEF Collecting
    <3>4. srv \notin Preparing /\ srv # "dead" BY <2>1 DEF Preparing
    <3>5. QED BY <1>0, <3>2, <3>3, <3>4 DEF NumberOK
  <2>3. Respond /\ cuda' = "ready" BY <2>1, <2>2
  <2>4. QED BY <2>3, AnswerSequenced
<1>9. QED
  BY <1>1, <1>2, <1>3, <1>4, <1>5, <1>6, <1>7, <1>8 DEF Cuda
----------------------------------------------------------------------------
(* The calls of the server.                                                *)

(* Nothing is in the socket of the CUDA driver between two calls.          *)
LEMMA NoRequestLeft ==
  ASSUME OrderInv, RequestOK, ~calling \/ replied
  PROVE  request.op = "NONE" /\ request.channels = {}
BY DEF OrderInv, CudaOrder, RequestOK

LEMMA TransmitSequenced ==
  ASSUME SequenceInv, NEW req, Transmit(req), ~calling, RequestOK',
         todo' \subseteq todo, todo \ todo' \subseteq req.channels,
         srv \in {"setupCuda", "leave0"} => todo' = todo,
         srv = "leave1" => todo' = {},
         srv = "get" => Collecting
  PROVE  Sequenced'
<1> USE DEF SequenceInv, Transmit, radar, More, Transmitting, Collecting,
            processingSwing
<1>1. request.channels = {} /\ ~replied
  BY NoRequestLeft DEF OrderInv, CudaOrder
<1>2. ScanOK' /\ NumberOK' /\ MixingOK'
  BY DEF ScanOK, NumberOK, MixingOK, Tuned
<1>3. TodoOK' BY DEF TodoOK, LeaveStages
<1>4. ActiveSequences' /\ OtherSequences'
  BY <1>1 DEF ActiveSequences, OtherSequences, Waiting
<1>5. Known' BY <1>1 DEF Known
<1>6. QED BY <1>2, <1>3, <1>4, <1>5 DEF Sequenced

LEMMA AddingFields ==
  ASSUME NEW c, NEW s, NEW n
  PROVE  /\ Adding(c, s, n).op = "ADD_CHANNEL" /\ Adding(c, s, n).swing = s
         /\ Adding(c, s, n).channels = {c} /\ Adding(c, s, n).sequence = n
BY DEF Adding, NoRequest

LEMMA RemovingFields ==
  ASSUME NEW c, NEW s
  PROVE  /\ Removing(c, s).op = "REMOVE_CHANNEL" /\ Removing(c, s).swing = s
         /\ Removing(c, s).channels = {c}
BY DEF Removing, NoRequest

LEMMA GeneratingFields ==
  ASSUME NEW s
  PROVE  /\ Generating(s).op = "GENERATE_PULSE" /\ Generating(s).swing = s
         /\ Generating(s).channels = {} /\ Generating(s).mix = mix
BY DEF Generating, NoRequest

(* The stages an answer of the CUDA driver or of the USRPs leads to.       *)
Answered(stage, next) ==
  \/ stage = next /\ stage \in {"initAdd", "prepare"}
  \/ stage = "setupCuda" /\ next = "initAdd" /\ replied
  \/ stage = "initAdd" /\ next = "initGenerate" /\ todo = {}
  \/ stage \in {"initGenerate", "process", "leave1"} /\ next = "idle"
  \/ stage = "get" /\ next = "got"
  \/ stage = "leave0" /\ next = "leave1" /\ replied
  \/ stage = "generate" /\ next = IF fire THEN "ready" ELSE "switch"
  \/ stage = "setup" /\ next = "trigger"
  \/ stage = "trigger" /\ next = "get"
  \/ stage = "ready" /\ next = "switch"

LEMMA ReturnedSequenced ==
  ASSUME SequenceInv, NEW next, calling, Answered(srv, next),
         srv' = next, calling' = FALSE, replied' = FALSE,
         UNCHANGED <<todo, radar, quit, request, sequences, mixing>>,
         request.op = "NONE"
  PROVE  Sequenced'
<1> USE DEF Answered, SequenceInv, radar, More, Transmitting, Collecting,
            processingSwing
<1>1. request.channels = {} BY DEF RequestOK
<1>2. ScanOK' /\ TodoOK'
  BY DEF ScanOK, TodoOK, StartStages, PeriodStages, LeaveStages
<1>3. NumberOK' /\ MixingOK' /\ RequestOK'
  BY <1>1 DEF NumberOK, MixingOK, Tuned, RequestOK, Preparing
<1>4. ActiveSequences'
  BY <1>1 DEF ActiveSequences, Waiting, TodoOK
<1>5. OtherSequences'
  BY <1>1 DEF OtherSequences, Waiting, Preparing, ScanOK, StartStages
<1>6. Known' BY <1>1 DEF Known, TodoOK, Swing
<1>7. QED BY <1>2, <1>3, <1>4, <1>5, <1>6 DEF Sequenced

LEMMA CudaReturnedSequenced ==
  ASSUME SequenceInv, NEW stage, NEW next, CudaReturned(stage, next),
         Answered(stage, next)
  PROVE  Sequenced'
<1>1. request.op = "NONE" /\ calling /\ srv = stage
  BY NoRequestLeft DEF SequenceInv, CudaReturned
<1>2. QED BY <1>1, ReturnedSequenced DEF CudaReturned

LEMMA UsrpsReturnedSequenced ==
  ASSUME SequenceInv, NEW stage, NEW next, UsrpsReturned(stage, next),
         Answered(stage, next), stage \in UsrpStages
  PROVE  Sequenced'
<1>1. request.op = "NONE" /\ replied = FALSE /\ calling /\ srv = stage
  BY DEF SequenceInv, OrderInv, TypeInv, TypeOK, TypeCuda, CudaOrder,
     UsrpsReturned
<1>2. replied' = FALSE BY <1>1 DEF UsrpsReturned, cudaVars
<1>3. QED BY <1>1, <1>2, ReturnedSequenced DEF UsrpsReturned, cudaVars

LEMMA CallUsrpsSequenced ==
  ASSUME SequenceInv, NEW stage, NEW op, CallUsrps(stage, op),
         stage \in UsrpStages
  PROVE  Sequenced'
<1> USE DEF CallUsrps, UsrpStages, SequenceInv, cudaVars, radar, More,
            Transmitting, Collecting, processingSwing
<1>1. request.op = "NONE" BY NoRequestLeft
<1>2. ScanOK' /\ TodoOK' /\ NumberOK' /\ MixingOK'
  BY DEF ScanOK, TodoOK, NumberOK, MixingOK, Tuned, LeaveStages
<1>3. RequestOK' BY <1>1 DEF RequestOK
<1>4. ActiveSequences' /\ OtherSequences' /\ Known'
  BY DEF ActiveSequences, OtherSequences, Known, Waiting
<1>5. QED BY <1>2, <1>3, <1>4 DEF Sequenced
----------------------------------------------------------------------------
(* The steps of the server.                                                *)

LEMMA CallSequenced ==
  ASSUME SequenceInv, NEW stage, NEW req, CallCuda(stage, req), RequestOK',
         req.channels = {} \/ stage \in {"get", "leave0"},
         stage # "leave1", stage = "get" => Collecting
  PROVE  Sequenced'
BY TransmitSequenced DEF CallCuda

LEMMA ServerSequenced ==
  ASSUME SequenceInv, Server
  PROVE  Sequenced'
<1>0. /\ TypeInv /\ TypeServer /\ CudaOrder /\ UsrpOrder /\ PositionOK
      /\ ScanOK /\ TodoOK /\ RequestOK /\ NumberOK /\ MixingOK
      /\ ActiveSequences /\ OtherSequences /\ Known /\ OrderInv
  BY DEF SequenceInv, OrderInv, TypeInv, TypeOK
<1>a. ~calling => request.op = "NONE" /\ request.channels = {} /\ ~replied
  BY <1>0, NoRequestLeft DEF CudaOrder
<1> USE DEF Answered
<1>1. CASE SetupForScan
  <2> DEFINE req == [NoRequest EXCEPT !.op = "SETUP", !.mix = mix]
  <2>1. CASE CallCuda("setupCuda", req)
    <3>1. req.op = "SETUP" /\ req.mix = mix /\ req.channels = {}
      BY DEF NoRequest
    <3> HIDE DEF req
    <3>2. RequestOK'
      BY <2>1, <3>1 DEF CallCuda, Transmit, RequestOK, radar
    <3>3. QED BY <2>1, <3>1, <3>2, CallSequenced
  <2>2. CASE CudaReturned("setupCuda", "initAdd")
    BY <2>2, CudaReturnedSequenced DEF CudaReturned
  <2>3. QED BY <1>1, <2>1, <2>2 DEF SetupForScan
<1>2. CASE AddFirst
  <2> DEFINE req == [c \in Channels |->
                       Adding(c, FirstSwing, number[activeSwing])]
  <2>1. CASE NextOf("initAdd", req)
    <3>1. PICK c \in todo : todo' = todo \ {c} /\ Transmit(req[c])
      BY <2>1 DEF NextOf
    <3>2. /\ c \in Channels /\ c \in chans /\ srv = "initAdd" /\ ~calling
      BY <1>0, <2>1 DEF TypeServer, TodoOK, NextOf
    <3>3. /\ req[c].op = "ADD_CHANNEL" /\ req[c].swing = activeSwing
          /\ req[c].channels = {c} /\ req[c].sequence = number[activeSwing]
      BY <3>2, AddingFields DEF FirstSwing
    <3> HIDE DEF req
    <3>4. RequestOK'
      BY <3>1, <3>2, <3>3 DEF Transmit, RequestOK, Sends, radar
    <3>5. QED BY <3>1, <3>2, <3>3, <3>4, TransmitSequenced
  <2>2. CASE CudaReturned("initAdd",
                          IF todo = {} THEN "initGenerate" ELSE "initAdd")
    BY <2>2, CudaReturnedSequenced
  <2>3. QED BY <1>2, <2>1, <2>2 DEF AddFirst
<1>3. CASE GenerateFirst
  <2>1. CASE CallCuda("initGenerate", Generating(FirstSwing))
    <3>1. /\ Generating(FirstSwing).op = "GENERATE_PULSE"
          /\ Generating(FirstSwing).swing = activeSwing
          /\ Generating(FirstSwing).mix = mix
          /\ Generating(FirstSwing).channels = {}
      BY GeneratingFields DEF FirstSwing
    <3>2. RequestOK'
      BY <2>1, <3>1 DEF CallCuda, Transmit, RequestOK, Sends, radar
    <3>3. QED BY <2>1, <3>1, <3>2, CallSequenced
  <2>2. CASE CudaReturned("initGenerate", "idle")
    BY <2>2, CudaReturnedSequenced
  <2>3. QED BY <1>3, <2>1, <2>2 DEF GenerateFirst
<1>4. CASE Trigger
  <2> USE <1>4 DEF Trigger, cudaVars
  <2>1. ScanOK' BY <1>0 DEF ScanOK, StartStages, PeriodStages, Transmitting,
                            CudaOrder
  <2>2. TodoOK' /\ NumberOK' /\ MixingOK' /\ RequestOK'
    BY <1>0, <1>a DEF TodoOK, NumberOK, MixingOK, Tuned, RequestOK, CudaOrder,
       LeaveStages, Transmitting, More, Preparing, processingSwing
  <2>3. ActiveSequences' /\ OtherSequences' /\ Known'
    BY <1>0 DEF ActiveSequences, OtherSequences, Known, Waiting, Transmitting,
       More, Preparing, processingSwing
  <2>4. QED BY <2>1, <2>2, <2>3 DEF Sequenced
<1>5. CASE Setup \/ TriggerPulse
  BY <1>5, CallUsrpsSequenced, UsrpsReturnedSequenced
     DEF Setup, TriggerPulse, UsrpStages
<1>6. CASE GetSamples
  <2> DEFINE req == [NoRequest EXCEPT !.op = "GET_DATA",
                     !.swing = processingSwing, !.channels = chans]
  <2>1. CASE Collecting /\ CallCuda("get", req)
    <3>1. /\ req.op = "GET_DATA" /\ req.swing = processingSwing
          /\ req.channels = chans
      BY DEF NoRequest
    <3> HIDE DEF req
    <3>2. \A c \in chans :
            sequences[processingSwing][c] = number[processingSwing]
      BY <1>0, <2>1 DEF OtherSequences, Preparing, Collecting, CallCuda
    <3>3. RequestOK'
      BY <2>1, <3>1, <3>2
         DEF CallCuda, Transmit, RequestOK, Sends, radar, processingSwing
    <3>4. QED BY <2>1, <3>3, CallSequenced
  <2>2. CASE CudaReturned("get", "got") BY <2>2, CudaReturnedSequenced
  <2>3. QED BY <1>6, <2>1, <2>2 DEF GetSamples
<1>7. CASE Prepare
  <2> USE <1>7 DEF Prepare, cudaVars
  <2>1. /\ srv \in {"get", "got"} /\ ~calling
        /\ chans # {} /\ chans \subseteq Channels
    BY <1>0 DEF ScanOK, CudaOrder, PeriodStages, TypeServer
  <2>2. ScanOK' BY <1>0, <2>1 DEF ScanOK, StartStages, PeriodStages,
                                  Transmitting
  <2>3. /\ number'[activeSwing] = number[activeSwing]
        /\ More => number'[processingSwing] = number[activeSwing] + 1
    BY <1>0 DEF TypeServer, processingSwing, Swing
  <2>4. NumberOK'
    BY <1>0, <2>1, <2>3 DEF NumberOK, Preparing, Transmitting, More, None,
       processingSwing, TypeServer, Number
  <2>5. TodoOK' /\ MixingOK' /\ RequestOK'
    BY <1>0, <1>a, <2>1 DEF TodoOK, MixingOK, Tuned, RequestOK, LeaveStages
  <2>6. ActiveSequences' /\ OtherSequences'
    BY <1>0, <2>1, <2>3 DEF ActiveSequences, OtherSequences, Waiting,
       Transmitting, Preparing
  <2>7. Known' BY <1>0, <2>1 DEF Known
  <2>8. QED BY <2>2, <2>4, <2>5, <2>6, <2>7 DEF Sequenced
<1>8. CASE PrepareChannel
  <2> DEFINE req == [c \in Channels |->
        IF More THEN Adding(c, processingSwing, number[processingSwing])
                ELSE Removing(c, processingSwing)]
  <2>1. CASE NextOf("prepare", req)
    <3>1. PICK c \in todo : todo' = todo \ {c} /\ Transmit(req[c])
      BY <2>1 DEF NextOf
    <3>2. /\ c \in Channels /\ c \in chans \cup quit /\ srv = "prepare"
          /\ ~calling
      BY <1>0, <2>1 DEF TypeServer, TodoOK, NextOf
    <3>3. /\ req[c].swing = processingSwing /\ req[c].channels = {c}
          /\ More => /\ req[c].op = "ADD_CHANNEL"
                     /\ req[c].sequence = number[processingSwing]
          /\ ~More => req[c].op = "REMOVE_CHANNEL"
      BY <3>2, AddingFields, RemovingFields
    <3> HIDE DEF req
    <3>4. RequestOK'
      BY <3>1, <3>2, <3>3
         DEF Transmit, RequestOK, Sends, radar, processingSwing, More
    <3>5. QED BY <3>1, <3>2, <3>3, <3>4, TransmitSequenced
  <2>2. CASE CudaReturned("prepare", "prepare")
    BY <2>2, CudaReturnedSequenced
  <2>3. QED BY <1>8, <2>1, <2>2 DEF PrepareChannel
<1>9. CASE SkipStopped
  <2> USE <1>9 DEF SkipStopped, cudaVars, radar, More, Transmitting,
                   Collecting, processingSwing
  <2>1. PICK c \in todo \ chans : todo' = todo \ {c} OBVIOUS
  <2>2. ScanOK' /\ TodoOK' /\ NumberOK' /\ MixingOK'
    BY <1>0, <2>1 DEF ScanOK, TodoOK, NumberOK, MixingOK, Tuned, LeaveStages
  <2>3. RequestOK' BY <1>0, <1>a DEF RequestOK
  <2>4. ActiveSequences' /\ OtherSequences' /\ Known'
    BY <1>0, <2>1 DEF ActiveSequences, OtherSequences, Known, Waiting
  <2>5. QED BY <2>2, <2>3, <2>4 DEF Sequenced
<1>10. CASE EndPrepare
  <2> USE <1>10 DEF EndPrepare, cudaVars, Transmitting, Collecting, More,
                    processingSwing
  <2>0. position \in Nat BY <1>0 DEF TypeServer
  <2>1. ScanOK' BY <1>0, <2>0 DEF ScanOK, StartStages, PeriodStages
  <2>2. TodoOK' /\ NumberOK' /\ MixingOK' /\ RequestOK'
    BY <1>0, <1>a DEF TodoOK, NumberOK, MixingOK, Tuned, RequestOK, Preparing,
       LeaveStages
  <2>3. ActiveSequences' /\ OtherSequences'
    BY <1>0, <1>a DEF ActiveSequences, OtherSequences, Waiting, Preparing
  <2>4. Known'
    <3>1. CASE position # ScanLen BY <1>0, <3>1 DEF Known
    <3>2. CASE position = ScanLen
      <4>1. \A c \in chans : \A s \in Swing : sequences[s][c] = None
        <5>1. ~Transmitting /\ ~More BY <2>0, <3>2
        <5>2. Waiting = {} BY <1>a DEF Waiting
        <5>3. \A c \in chans : /\ sequences[activeSwing][c] = None
                               /\ sequences[processingSwing][c] = None
          BY <1>0, <5>1, <5>2 DEF ActiveSequences, OtherSequences, Preparing
        <5>4. QED BY <1>0, <5>3 DEF TypeServer, Swing
      <4>2. QED BY <1>0, <3>2, <4>1 DEF Known
    <3>3. QED BY <3>1, <3>2
  <2>5. QED BY <2>1, <2>2, <2>3, <2>4 DEF Sequenced
<1>11. CASE Generate
  <2>1. CASE CallCuda("generate", Generating(processingSwing))
    <3>1. /\ Generating(processingSwing).op = "GENERATE_PULSE"
          /\ Generating(processingSwing).swing = processingSwing
          /\ Generating(processingSwing).mix = mix
          /\ Generating(processingSwing).channels = {}
      BY GeneratingFields
    <3>2. RequestOK'
      BY <2>1, <3>1 DEF CallCuda, Transmit, RequestOK, Sends, radar,
         processingSwing
    <3>3. QED BY <2>1, <3>1, <3>2, CallSequenced
  <2>2. CASE CudaReturned("generate", IF fire THEN "ready" ELSE "switch")
    BY <2>2, CudaReturnedSequenced
  <2>3. QED BY <1>11, <2>1, <2>2 DEF Generate
<1>12. CASE ReadyData
  BY <1>12, CallUsrpsSequenced, UsrpsReturnedSequenced
     DEF ReadyData, UsrpStages
<1>13. CASE Switch
  <2> USE <1>13 DEF Switch, cudaVars, Transmitting, More, processingSwing
  <2>0. /\ position \in Nat /\ position <= ScanLen /\ ~calling
        /\ chans # {} => position < ScanLen
    BY <1>0 DEF TypeServer, PositionOK, PeriodStages, CudaOrder
  <2>1. activeSwing' = processingSwing /\ processingSwing' = activeSwing
    BY <1>0 DEF TypeServer, NextSwing, Swing
  <2>2. ScanOK' BY <1>0, <2>0 DEF ScanOK, StartStages, PeriodStages
  <2>3. TodoOK' /\ MixingOK' /\ RequestOK'
    BY <1>0, <1>a, <2>0 DEF TodoOK, MixingOK, Tuned, RequestOK, LeaveStages
  <2>4. NumberOK' BY <1>0, <2>0, <2>1 DEF NumberOK, Preparing
  <2>5. ActiveSequences'
    BY <1>0, <1>a, <2>0, <2>1 DEF ActiveSequences, OtherSequences, Preparing,
       Waiting
  <2>6. OtherSequences'
    BY <1>0, <1>a, <2>0, <2>1 DEF ActiveSequences, OtherSequences, Preparing,
       Waiting
  <2>7. Known' BY <1>0 DEF Known
  <2>8. QED BY <2>2, <2>3, <2>4, <2>5, <2>6, <2>7 DEF Sequenced
<1>14. CASE Process
  <2> DEFINE req == [NoRequest EXCEPT !.op = "PROCESS",
                     !.swing = processingSwing]
  <2>1. CASE CallCuda("process", req)
    <3>1. /\ req.op = "PROCESS" /\ req.swing = processingSwing
          /\ req.channels = {}
      BY DEF NoRequest
    <3> HIDE DEF req
    <3>2. RequestOK'
      BY <2>1, <3>1 DEF CallCuda, Transmit, RequestOK, Sends, radar,
         processingSwing
    <3>3. QED BY <2>1, <3>1, <3>2, CallSequenced
  <2>2. CASE CudaReturned("process", "idle") BY <2>2, CudaReturnedSequenced
  <2>3. QED BY <1>14, <2>1, <2>2 DEF Process
<1>15. CASE Unregister
  <2>1. ASSUME NEW c \in todo, CallCuda("leave0", Removing(c, 0))
        PROVE  Sequenced'
    <3>1. /\ Removing(c, 0).op = "REMOVE_CHANNEL"
          /\ Removing(c, 0).swing = 0 /\ Removing(c, 0).channels = todo
      BY <1>0, <2>1, RemovingFields DEF TodoOK, CallCuda
    <3>2. RequestOK'
      BY <2>1, <3>1 DEF CallCuda, Transmit, RequestOK, Sends, radar
    <3>3. QED BY <2>1, <3>2, CallSequenced
  <2> DEFINE req == [c \in Channels |-> Removing(c, 1)]
  <2>2. CASE NextOf("leave1", req)
    <3>1. PICK c \in todo : todo' = todo \ {c} /\ Transmit(req[c])
      BY <2>2 DEF NextOf
    <3>2. /\ c \in Channels /\ c \notin chans /\ srv = "leave1" /\ ~calling
          /\ todo = {c}
      BY <1>0, <2>2 DEF TypeServer, TodoOK, NextOf, LeaveStages
    <3>3. /\ req[c].op = "REMOVE_CHANNEL" /\ req[c].swing = 1
          /\ req[c].channels = {c}
      BY <3>2, RemovingFields
    <3> HIDE DEF req
    <3>4. RequestOK'
      BY <3>1, <3>2, <3>3 DEF Transmit, RequestOK, Sends, radar
    <3>5. QED BY <3>1, <3>2, <3>3, <3>4, TransmitSequenced
  <2>3. CASE CudaReturned("leave0", "leave1")
    BY <2>3, CudaReturnedSequenced DEF CudaReturned
  <2>4. CASE CudaReturned("leave1", "idle") BY <2>4, CudaReturnedSequenced
  <2>5. QED BY <1>15, <2>1, <2>2, <2>3, <2>4 DEF Unregister
<1>16. QED
  BY <1>1, <1>2, <1>3, <1>4, <1>5, <1>6, <1>7, <1>8, <1>9, <1>10, <1>11,
     <1>12, <1>13, <1>14, <1>15 DEF Server
----------------------------------------------------------------------------
(* Channels and connections.                                               *)

LEMMA ChannelSequenced ==
  ASSUME SequenceInv,
         \/ StartScan
         \/ \E c \in Channels : Stop(c) \/ Leave(c)
  PROVE  Sequenced'
<1>0. /\ TypeServer /\ CudaOrder /\ PositionOK /\ ScanOK /\ TodoOK
      /\ RequestOK /\ NumberOK /\ MixingOK /\ ActiveSequences
      /\ OtherSequences /\ Known /\ OrderInv
  BY DEF SequenceInv, OrderInv, TypeInv, TypeOK
<1>a. ~calling => request.op = "NONE" /\ request.channels = {} /\ ~replied
  BY <1>0, NoRequestLeft DEF CudaOrder
<1> USE DEF cudaVars, server, StartStages, PeriodStages, LeaveStages
<1>1. CASE StartScan
  <2>0. PICK C \in (SUBSET Channels) \ {{}} :
          chans' = C /\ todo' = C /\ quit' = quit \ C
    BY <1>1 DEF StartScan
  <2>1. /\ srv = "idle" /\ srv' = "setupCuda" /\ position' = 0 /\ chans = {}
        /\ ~calling /\ ~calling' /\ ~replied' /\ fire' = fire
        /\ UNCHANGED <<activeSwing, request, sequences>>
    BY <1>0, <1>1, <1>a DEF StartScan, CudaOrder
  <2>2. number'[activeSwing] # None
    BY <1>0, <1>1 DEF StartScan, Latest, TypeServer, Swing, Number, None
  <2>3. ScanOK' /\ TodoOK' BY <1>0, <2>0, <2>1 DEF ScanOK, TodoOK
  <2>4. NumberOK' BY <2>1, <2>2 DEF NumberOK, Preparing
  <2>5. RequestOK' /\ MixingOK' BY <1>a, <2>1 DEF RequestOK, MixingOK
  <2>6. ActiveSequences' /\ OtherSequences'
    BY <2>1 DEF ActiveSequences, OtherSequences, Preparing
  <2>7. Known' BY <1>0, <2>0, <2>1 DEF Known
  <2>8. QED BY <2>3, <2>4, <2>5, <2>6, <2>7 DEF Sequenced
<1>2. ASSUME NEW c \in Channels, Stop(c) PROVE Sequenced'
  <2> USE <1>2 DEF Stop, Transmitting, Collecting, More, processingSwing
  <2>1. c \in chans OBVIOUS
  <2>2. ScanOK' BY <1>0 DEF ScanOK
  <2>3. TodoOK' /\ NumberOK' /\ MixingOK'
    BY <1>0 DEF TodoOK, NumberOK, MixingOK, Tuned
  <2>4. RequestOK' BY <1>0 DEF RequestOK, Sends
  <2>5. ActiveSequences' /\ OtherSequences'
    BY <1>0 DEF ActiveSequences, OtherSequences, Waiting
  <2>6. Known' BY <1>0 DEF Known
  <2>7. QED BY <2>2, <2>3, <2>4, <2>5, <2>6 DEF Sequenced
<1>3. ASSUME NEW c \in Channels, Leave(c) PROVE Sequenced'
  <2> USE <1>3 DEF Leave, Transmitting, Collecting, More, processingSwing
  <2>1. ~calling BY <1>0 DEF CudaOrder
  <2>2. ScanOK' /\ TodoOK' BY <1>0 DEF ScanOK, TodoOK
  <2>3. NumberOK' /\ MixingOK' /\ RequestOK'
    BY <1>0, <1>a, <2>1 DEF NumberOK, MixingOK, Tuned, RequestOK, Preparing
  <2>4. ActiveSequences' /\ OtherSequences'
    BY <1>0 DEF ActiveSequences, OtherSequences, Waiting, Preparing
  <2>5. Known' BY <1>0, <1>a, <2>1 DEF Known
  <2>6. QED BY <2>2, <2>3, <2>4, <2>5 DEF Sequenced
<1>4. QED BY <1>1, <1>2, <1>3

LEMMA ConnectionSequenced ==
  ASSUME SequenceInv, NEW u \in Usrps, Lose(u) \/ Reconnect(u)
  PROVE  Sequenced'
<1>1. CASE Lose(u)
  <2>1. request.op = "NONE"
    BY <1>1 DEF Lose, SequenceInv, OrderInv, CudaOrder, UsrpStages
  <2>2. srv' = "dead" \/ srv' = srv BY <1>1 DEF Lose
  <2>3. QED
    BY <1>1, <2>1, <2>2, SequencedDead, SequencedUnchanged
       DEF Lose, server, cudaVars
<1>2. CASE Reconnect(u)
  BY <1>2, SequencedUnchanged DEF Reconnect, cudaVars
<1>3. QED BY <1>1, <1>2

LEMMA NextSequenced ==
  ASSUME SequenceInv, [Next]_vars
  PROVE  Sequenced'
<1>1. ASSUME UNCHANGED vars PROVE Sequenced'
  BY <1>1, SequencedUnchanged DEF vars, cudaVars
<1>2. ASSUME NEW u \in Usrps, UsrpStep(u) PROVE Sequenced'
  BY <1>2, SequencedUnchanged DEF UsrpStep, cudaVars
<1>3. QED
  BY <1>1, <1>2, CudaSequenced, ServerSequenced, ChannelSequenced,
     ConnectionSequenced DEF Next

LEMMA OrderStep == ASSUME OrderInv, [Next]_vars PROVE OrderInv'
<1>1. TypeInv' BY NextTypeInv DEF OrderInv
<1>2. CudaOrder' /\ UsrpOrder'
  BY CudaOrdered, UsrpOrdered, ServerOrdered, ChannelOrdered,
     ConnectionOrdered, StutterOrdered DEF Next
<1>3. QED BY <1>1, <1>2 DEF OrderInv

LEMMA SequenceInvHolds == Spec => []SequenceInv
<1>1. Init => SequenceInv
  BY SequencedInit, TypeInit, OrderInit DEF SequenceInv, Sequenced, OrderInv
<1>2. SequenceInv /\ [Next]_vars => SequenceInv'
  BY NextSequenced, OrderStep DEF SequenceInv, Sequenced
<1>3. QED BY <1>1, <1>2, PTL DEF Spec

(* The CUDA driver is never asked for the samples of a channel it has no   *)
(* sequence of: the channels the server asks for have had their sequence   *)
(* added to the swing it asks for, however many of them stop or leave, and *)
(* the two keep reading the same commands.                                 *)
THEOREM CudaKnowsChannels == Spec => []CudaInStep
<1>1. Init => CudaInStep BY DEF Init, InitCuda, CudaInStep
<1>2. SequenceInv /\ CudaInStep /\ [Next]_vars => CudaInStep'
  <2> SUFFICES ASSUME SequenceInv, CudaInStep, [Next]_vars PROVE CudaInStep'
    OBVIOUS
  <2>1. CASE CudaStep BY <2>1, CudaSequenced DEF CudaInStep
  <2>2. CASE UNCHANGED cuda BY <2>2 DEF CudaInStep
  <2>3. CudaStep \/ UNCHANGED cuda
    <3> USE DEF cudaVars
    <3>1. CASE Server
      BY <3>1 DEF Server, SetupForScan, AddFirst, GenerateFirst, Trigger,
         Setup, TriggerPulse, GetSamples, Prepare, PrepareChannel,
         SkipStopped, EndPrepare, Generate, ReadyData, Switch, Process,
         Unregister, CallCuda, NextOf, Transmit, CudaReturned, CallUsrps,
         UsrpsReturned
    <3>2. CASE \/ StartScan
               \/ \E c \in Channels : Stop(c) \/ Leave(c)
      BY <3>2 DEF StartScan, Stop, Leave
    <3>3. CASE \E u \in Usrps : UsrpStep(u) \/ Lose(u) \/ Reconnect(u)
      BY <3>3 DEF UsrpStep, Lose, Reconnect
    <3>4. QED BY <3>1, <3>2, <3>3 DEF Next, vars
  <2>4. QED BY <2>1, <2>2, <2>3
<1>3. QED BY <1>1, <1>2, SequenceInvHolds, PTL DEF Spec

(* Between two periods the CUDA driver has no sequence of a channel that   *)
(* ended its scan or left: each of the two swings is cleared in a call of  *)
(* trigger_next_swing of its own, or by the two commands of a departure.   *)
THEOREM NothingLeftOver == Spec => []NoLeftOvers
<1>1. SequenceInv => NoLeftOvers BY DEF SequenceInv, Known, NoLeftOvers
<1>2. QED BY <1>1, SequenceInvHolds, PTL
----------------------------------------------------------------------------
(* What the USRPs transmit.  A waveform fits a period if it was made for   *)
(* the channels of the radar, the number of the period and the frequency.  *)
Fits(w, n) == w.mix = mix /\ \A c \in chans : w.seq[c] = n

Works(u) == u \in inService /\ stopped[u] # "gone"

(* The CUDA driver generates for the swing it was asked for.               *)
JobOK == cuda = "generate" => job = request.swing

(* The waveforms in the shared memory: those of the active swing from the  *)
(* first GENERATE_PULSE on, those of the other one from its own on.        *)
Generated(s) ==
  chans # {} => \A u \in Usrps : Works(u) => Fits(shmTx[u][s], number[s])

Stored ==
  /\ srv \notin {"setupCuda", "initAdd", "dead"}
  /\ srv = "initGenerate" => replied

StoredNext ==
  srv \in {"ready", "switch"} \/ (srv = "generate" /\ replied)

TxMemory ==
  /\ Stored /\ Transmitting => Generated(activeSwing)
  /\ StoredNext /\ More => Generated(processingSwing)

(* A driver in service has no commands but those of the active swing.      *)
CommandsOK ==
  \A u \in Usrps : Works(u) =>
    \A i \in 1 .. Len(queue[u]) :
      /\ queue[u][i].swing = activeSwing /\ queue[u][i].mix = mix
      /\ queue[u][i].number = number[activeSwing]

(* When the driver has its copy of the waveform.                           *)
Copied(u) ==
  \/ srv = "setup" /\ calling /\ answer[u] # "none"
  \/ srv = "trigger" \/ at[u] = "pulse"

TxCopy ==
  \A u \in Usrps : Works(u) /\ Copied(u) =>
    txSamples[u].tuned = mix /\ Fits(txSamples[u].wave, number[activeSwing])

Transmitted == JobOK /\ TxMemory /\ CommandsOK /\ TxCopy
TransmitInv == SequenceInv /\ Transmitted

LEMMA TransmitInit == ASSUME Init PROVE Transmitted
BY DEF Init, InitCuda, InitDriver, Transmitted, JobOK, TxMemory, Generated,
   CommandsOK, TxCopy, Copied

(* A driver in service has nothing to do outside of a period.              *)
LEMMA AtRest ==
  ASSUME OrderInv, NEW u \in Usrps, Works(u),
         srv \notin {"setup", "trigger", "get", "got", "prepare", "generate",
                     "ready", "dead"}
  PROVE  Quiet(u)
BY DEF OrderInv, UsrpOrder, Shape, Pulsing, Asked, Works

(* Steps that leave the waveforms alone.                                   *)
LEMMA MemoryKept ==
  ASSUME TxMemory, chans' \subseteq chans, inService' \subseteq inService,
         UNCHANGED <<mix, shmTx, stopped, activeSwing, position>>,
         number' = number \/ ~StoredNext',
         number'[activeSwing] = number[activeSwing],
         Stored' => Stored, StoredNext' /\ More => StoredNext
  PROVE  TxMemory'
<1>1. ASSUME NEW s, Generated(s), number'[s] = number[s]
      PROVE  Generated(s)'
  BY <1>1 DEF Generated, Works, Fits
<1>2. QED BY <1>1 DEF TxMemory, Transmitting, More, processingSwing

(* Steps that leave the drivers alone.                                     *)
LEMMA CopiesKept ==
  ASSUME CommandsOK, TxCopy, chans' \subseteq chans,
         inService' \subseteq inService,
         number'[activeSwing] = number[activeSwing],
         UNCHANGED <<mix, queue, at, txSamples, stopped, activeSwing>>,
         \A u \in Usrps : Works(u)' /\ Copied(u)' => Copied(u)
  PROVE  CommandsOK' /\ TxCopy'
<1>1. \A u \in Usrps : Works(u)' => Works(u) BY DEF Works
<1>2. CommandsOK' BY <1>1 DEF CommandsOK
<1>3. TxCopy' BY <1>1 DEF TxCopy, Fits
<1>4. QED BY <1>2, <1>3

LEMMA CudaTransmits ==
  ASSUME TransmitInv, CudaStep
  PROVE  Transmitted'
<1>0. /\ TypeMemory /\ TypeServer /\ TypeCuda /\ CudaOrder /\ ScanOK
      /\ RequestOK /\ NumberOK /\ MixingOK /\ ActiveSequences
      /\ OtherSequences /\ TxMemory /\ JobOK /\ CommandsOK /\ TxCopy
  BY DEF TransmitInv, Transmitted, SequenceInv, OrderInv, TypeInv, TypeOK
<1> USE DEF CudaStep, server, radar, usrps, driverVars
<1>1. CommandsOK' /\ TxCopy' BY <1>0, CopiesKept DEF Copied
<1>2. JobOK'
  BY <1>0 DEF JobOK, CudaOrder, Cuda, SetupCuda, AddChannel, RemoveChannel,
     StartGenerate, EndGenerate, StartProcess, EndProcess, GetData, Taken,
     Respond
(* At a GENERATE_PULSE the driver has the sequences of every channel.      *)
<1>3. ASSUME request.op = "GENERATE_PULSE"
      PROVE  /\ request.swing \in Swing /\ Waiting = {} /\ ~replied
             /\ number[request.swing] # None /\ chans # {}
             /\ mixing[request.swing] = mix
             /\ \A c \in chans :
                  sequences[request.swing][c] = number[request.swing]
             /\ \/ srv = "initGenerate" /\ request.swing = activeSwing
                \/ /\ srv = "generate" /\ request.swing = processingSwing
                   /\ More
  <2>1. /\ request.swing \in Swing /\ ~replied /\ position \in Nat
        /\ srv = "generate" => More
    BY <1>0, <1>3 DEF TypeCuda, TypeServer, Request, CudaOrder, TransmitInv,
       SequenceInv, OrderInv, TypeInv, PositionOK
  <2>2. \/ srv = "initGenerate" /\ request.swing = activeSwing
        \/ srv = "generate" /\ request.swing = processingSwing
    BY <1>0, <1>3 DEF RequestOK, Sends
  <2>3. chans # {} /\ Waiting = {}
    BY <1>0, <2>2 DEF ScanOK, StartStages, PeriodStages, Waiting
  <2>4. mixing[request.swing] = mix BY <1>0, <2>1, <2>2 DEF MixingOK, Tuned
  <2>5. CASE srv = "initGenerate"
    <3>1. Transmitting /\ request.swing = activeSwing
      BY <1>0, <2>2, <2>5 DEF ScanOK, StartStages, Transmitting
    <3>2. QED
      BY <1>0, <2>1, <2>3, <2>4, <2>5, <3>1 DEF NumberOK, ActiveSequences
  <2>6. CASE srv = "generate"
    <3>1. More /\ request.swing = processingSwing BY <2>1, <2>2, <2>6
    <3>2. QED
      BY <1>0, <2>1, <2>3, <2>4, <2>6, <3>1
         DEF NumberOK, OtherSequences, Preparing
  <2>7. QED BY <2>2, <2>5, <2>6
<1>4. CASE EndGenerate
  <2>1. /\ request.op = "GENERATE_PULSE" /\ job = request.swing
    BY <1>0, <1>4 DEF EndGenerate, CudaOrder, JobOK
  <2>2. ASSUME NEW u \in Usrps
        PROVE  /\ Fits(shmTx'[u][job], number[job])
               /\ \A s \in Swing \ {job} : shmTx'[u][s] = shmTx[u][s]
    BY <1>0, <1>3, <1>4, <2>1 DEF EndGenerate, TypeMemory, Made, Fits
  <2>a. job' = job BY <1>4 DEF EndGenerate
  <2>3. Generated(job)' BY <2>2, <2>a DEF Generated, Fits
  <2>4. \A s \in Swing \ {job} : Generated(s) => Generated(s)'
    BY <2>2 DEF Generated, Fits, Works
  <2>5. activeSwing \in Swing /\ processingSwing # activeSwing
    BY <1>0 DEF TypeServer, processingSwing, Swing
  <2>6. TxMemory'
    BY <1>0, <1>3, <2>1, <2>a, <2>3, <2>4, <2>5
       DEF TxMemory, Stored, StoredNext, Transmitting, More, processingSwing
  <2>7. QED BY <1>1, <1>2, <2>6 DEF Transmitted
<1>5. CASE ~EndGenerate
  <2>1. shmTx' = shmTx
    BY <1>5 DEF Cuda, SetupCuda, AddChannel, RemoveChannel, StartGenerate,
       StartProcess, EndProcess, GetData
  <2>2. replied' = replied \/ srv \notin {"initGenerate", "generate"}
    <3>1. CASE StartGenerate
      <4>1. sequences[request.swing] # NoSequence
        BY <1>0, <1>3, <3>1
           DEF StartGenerate, Taken, NoSequence, TypeServer, TypeCuda
      <4>2. QED BY <3>1, <4>1 DEF StartGenerate
    <3>2. CASE ~StartGenerate
      BY <1>0, <1>5, <3>2
         DEF Cuda, SetupCuda, AddChannel, RemoveChannel, StartProcess,
             EndProcess, GetData, Taken, RequestOK, Sends
    <3>3. QED BY <3>1, <3>2
  <2>3. Stored' => Stored BY <2>2 DEF Stored
  <2>4. StoredNext' => StoredNext BY <2>2 DEF StoredNext
  <2>5. TxMemory' BY <1>0, <2>1, <2>3, <2>4, MemoryKept
  <2>6. QED BY <1>1, <1>2, <2>5 DEF Transmitted
<1>6. QED BY <1>4, <1>5

LEMMA UsrpTransmits ==
  ASSUME TransmitInv, NEW u \in Usrps, UsrpStep(u)
  PROVE  Transmitted'
<1>0. /\ TypeMemory /\ TypeServer /\ TypeDriver /\ OrderInv /\ UsrpOrder
      /\ ScanOK /\ TxMemory /\ JobOK /\ CommandsOK /\ TxCopy
  BY DEF TransmitInv, Transmitted, SequenceInv, OrderInv, TypeInv, TypeOK
<1> USE DEF UsrpStep, server, radar, usrps, cudaVars
<1>1. JobOK' BY <1>0 DEF JobOK
(* The step changes the driver of u only, and brings it back to no life.   *)
<1>2. /\ \A v \in Usrps \ {u} :
           /\ queue'[v] = queue[v] /\ at'[v] = at[v] /\ answer'[v] = answer[v]
           /\ txSamples'[v] = txSamples[v] /\ stopped'[v] = stopped[v]
           /\ shmTx'[v] = shmTx[v]
      /\ stopped'[u] # "gone" => stopped[u] # "gone" /\ shmTx'[u] = shmTx[u]
  BY <1>0 DEF TypeMemory, TypeDriver, Work, StartSetup, EndSetup, StartPulse,
     EndPulse, StartReady, EndReady, Hang, Resume, ExitDriver, Begin, End,
     Reply
<1>3. \A v \in Usrps : Works(v)' => Works(v) /\ shmTx'[v] = shmTx[v]
  BY <1>2 DEF Works
<1>4. TxMemory'
  <2>1. \A s \in Swing : Generated(s) => Generated(s)'
    BY <1>3 DEF Generated, Fits
  <2>2. activeSwing \in Swing /\ processingSwing \in Swing
    BY <1>0 DEF TypeServer, processingSwing, Swing
  <2>3. QED BY <1>0, <2>1, <2>2 DEF TxMemory, Stored, StoredNext, Transmitting,
                                    More, processingSwing
<1>5. CommandsOK'
  <2>1. CASE queue'[u] = queue[u]
    <3>1. \A v \in Usrps : queue'[v] = queue[v] BY <1>2, <2>1
    <3>2. QED BY <1>0, <1>3, <3>1 DEF CommandsOK
  <2>2. CASE queue'[u] = Tail(queue[u]) /\ queue[u] # <<>>
    <3>1. /\ Len(queue'[u]) = Len(queue[u]) - 1
          /\ \A i \in 1 .. Len(queue'[u]) : queue'[u][i] = queue[u][i + 1]
          /\ Len(queue[u]) \in Nat
      BY <1>0, <2>2, HeadTailProperties DEF TypeDriver
    <3>2. ASSUME NEW v \in Usrps, Works(v)', NEW i \in 1 .. Len(queue'[v])
          PROVE  \E j \in 1 .. Len(queue[v]) : queue'[v][i] = queue[v][j]
      <4>1. CASE v = u
        <5>1. i + 1 \in 1 .. Len(queue[u]) BY <3>1, <3>2, <4>1
        <5>2. queue'[u][i] = queue[u][i + 1] BY <3>1, <3>2, <4>1
        <5>3. QED BY <4>1, <5>1, <5>2
      <4>2. CASE v # u BY <1>2, <3>2, <4>2
      <4>3. QED BY <4>1, <4>2
    <3>3. QED BY <1>0, <1>3, <3>2 DEF CommandsOK
  <2>3. queue'[u] = queue[u] \/ (queue'[u] = Tail(queue[u]) /\ at[u] # "wait")
    BY <1>0 DEF TypeDriver, Work, StartSetup, EndSetup, StartPulse,
       EndPulse, StartReady, EndReady, Hang, Resume, ExitDriver, Begin, End
  <2>4. QED BY <1>0, <2>1, <2>2, <2>3 DEF OrderInv, TypeInv, BusyOK
<1>6. TxCopy'
  <2>1. ASSUME NEW v \in Usrps \ {u}, Works(v)', Copied(v)'
        PROVE  /\ txSamples'[v].tuned = mix
               /\ Fits(txSamples'[v].wave, number[activeSwing])
    BY <1>0, <1>2, <1>3, <2>1 DEF TxCopy, Copied
  <2>2. ASSUME Works(u)', Copied(u)'
        PROVE  /\ txSamples'[u].tuned = mix
               /\ Fits(txSamples'[u].wave, number[activeSwing])
    <3>1. Works(u) /\ Shape(u)
      BY <1>0, <1>3, <2>2 DEF Works, UsrpOrder
    <3>2. CASE EndSetup(u)
      <4>1. /\ at[u] = "setup" /\ at'[u] = "wait" /\ Doing(u) = queue[u][1]
            /\ txSamples'[u] = [wave |-> shmTx[u][Doing(u).swing],
                                tuned |-> Doing(u).mix]
        BY <1>0, <3>2 DEF EndSetup, End, TypeDriver, Doing
      <4>2. Holds(u, "SETUP") /\ (srv = "dead" \/ Asked(u, "setup"))
        BY <3>1, <4>1 DEF Shape, Quiet, Pulsing
      <4>3. srv = "setup" BY <2>2, <4>1, <4>2 DEF Copied, Asked
      <4>4. /\ Doing(u).swing = activeSwing /\ Doing(u).mix = mix
        BY <1>0, <3>1, <4>1, <4>2 DEF CommandsOK, Holds
      <4>5. Transmitting /\ chans # {}
        BY <1>0, <4>3 DEF UsrpOrder, ScanOK, PeriodStages
      <4>6. Fits(shmTx[u][activeSwing], number[activeSwing])
        BY <1>0, <3>1, <4>3, <4>5 DEF TxMemory, Stored, Generated
      <4>7. QED BY <4>1, <4>4, <4>6
    <3>3. CASE ~EndSetup(u)
      <4>1. txSamples' = txSamples
        BY <3>3 DEF Work, StartSetup, StartPulse, EndPulse, StartReady,
           EndReady, Hang, Resume, ExitDriver
      <4>2. CASE Copied(u) BY <1>0, <3>1, <4>1, <4>2 DEF TxCopy
      <4>3. CASE ~Copied(u)
        <5>1. srv # "trigger" BY <4>3 DEF Copied
        <5>2. ~StartPulse(u)
          <6> SUFFICES ASSUME StartPulse(u) PROVE FALSE OBVIOUS
          <6>1. at[u] = "wait" /\ queue[u][1].op = "TRIGGER_PULSE"
                /\ queue[u] # <<>>
            BY DEF StartPulse, Begin, Doing
          <6>2. Holds(u, "TRIGGER_PULSE") => Asked(u, "trigger")
            BY <3>1, <6>1 DEF Shape, Quiet, Holds, Pulsing
          <6>3. QED BY <3>1, <5>1, <6>1, <6>2
                    DEF Shape, Quiet, Holds, Pulsing, Asked
        <5>3. at'[u] = "pulse" => at[u] = "pulse"
          BY <1>0, <3>3, <5>2
             DEF TypeDriver, Work, StartSetup, EndPulse, StartReady, EndReady,
                 Hang, Resume, ExitDriver, Begin, End
        <5>4. srv = "setup" /\ calling /\ answer[u] = "none"
              /\ answer'[u] # "none"
          BY <2>2, <4>3, <5>3 DEF Copied
        <5>5. EndPulse(u) \/ EndReady(u)
          BY <3>3, <5>2, <5>4 DEF Work, StartSetup, StartReady, Hang, Resume,
             ExitDriver
        <5>6. at[u] \in {"pulse", "ready"}
          BY <5>5 DEF EndPulse, EndReady, End
        <5>7. QED BY <3>1, <5>4, <5>6 DEF Shape, Quiet, Pulsing, Asked
      <4>4. QED BY <4>2, <4>3
    <3>4. QED BY <3>2, <3>3
  <2>3. QED BY <2>1, <2>2 DEF TxCopy, Fits
<1>7. QED BY <1>1, <1>4, <1>5, <1>6 DEF Transmitted

LEMMA TransmitParts ==
  ASSUME TransmitInv
  PROVE  /\ TypeMemory /\ TypeServer /\ TypeDriver /\ TypeCuda /\ OrderInv
         /\ CudaOrder /\ UsrpOrder /\ PositionOK /\ BusyOK
         /\ ScanOK /\ TodoOK /\ RequestOK /\ NumberOK /\ MixingOK
         /\ ActiveSequences /\ OtherSequences /\ SequenceInv
         /\ TxMemory /\ JobOK /\ CommandsOK /\ TxCopy
BY DEF TransmitInv, Transmitted, SequenceInv, OrderInv, TypeInv, TypeOK

LEMMA CallTransmits ==
  ASSUME TransmitInv, NEW req, Transmit(req), ~calling,
         srv \notin UsrpStages
  PROVE  Transmitted'
<1> USE TransmitParts DEF Transmit, UsrpStages, radar, usrps, memory,
                          driverVars
<1>1. JobOK' BY DEF JobOK, CudaOrder
<1>2. TxMemory' BY MemoryKept DEF Stored, StoredNext
<1>3. CommandsOK' /\ TxCopy' BY CopiesKept DEF Copied
<1>4. QED BY <1>1, <1>2, <1>3 DEF Transmitted

LEMMA ReturnedTransmits ==
  ASSUME TransmitInv, NEW stage, NEW next, CudaReturned(stage, next),
         Answered(stage, next), stage \notin UsrpStages
  PROVE  Transmitted'
<1> USE TransmitParts DEF CudaReturned, Answered, UsrpStages, radar, usrps,
                          memory, driverVars
<1>1. JobOK' BY DEF JobOK
<1>2. TxMemory' BY MemoryKept DEF Stored, StoredNext
<1>3. CommandsOK' /\ TxCopy' BY CopiesKept DEF Copied
<1>4. QED BY <1>1, <1>2, <1>3 DEF Transmitted

LEMMA UsrpsReturnedTransmits ==
  ASSUME TransmitInv, NEW stage, NEW next, UsrpsReturned(stage, next),
         Answered(stage, next), stage \in UsrpStages, inService' = inService
  PROVE  Transmitted'
<1> USE TransmitParts DEF UsrpsReturned, AllAnswered, Answered, UsrpStages,
                          radar, memory, driverVars, cudaVars
<1>1. JobOK' BY DEF JobOK
<1>2. TxMemory' BY MemoryKept DEF Stored, StoredNext
<1>3. CommandsOK' /\ TxCopy' BY CopiesKept DEF Copied, Works
<1>4. QED BY <1>1, <1>2, <1>3 DEF Transmitted

LEMMA CallUsrpsTransmits ==
  ASSUME TransmitInv, NEW stage,
         NEW op \in {"SETUP", "TRIGGER_PULSE", "READY_DATA"},
         CallUsrps(stage, op)
  PROVE  Transmitted'
<1> USE TransmitParts DEF CallUsrps, radar, usrps, memory, cudaVars
<1>1. JobOK' BY DEF JobOK
<1>2. TxMemory' BY MemoryKept DEF Stored, StoredNext
<1>3. TxCopy'
  BY DEF TxCopy, Copied, Works, Fits, TypeDriver
<1>4. CommandsOK'
  <2> DEFINE cmd == [op |-> op, swing |-> activeSwing, mix |-> mix,
                     number |-> number[activeSwing]]
  <2>1. /\ cmd \in Command /\ cmd.swing = activeSwing /\ cmd.mix = mix
        /\ cmd.number = number[activeSwing]
    BY DEF TypeServer, Command, Swing
  <2>2. \A u \in Usrps : queue'[u] = IF u \in inService
                                     THEN Append(queue[u], cmd) ELSE queue[u]
    OBVIOUS
  <2> HIDE DEF cmd
  <2>3. ASSUME NEW u \in Usrps, Works(u)', NEW i \in 1 .. Len(queue'[u])
        PROVE  /\ queue'[u][i].swing = activeSwing
               /\ queue'[u][i].mix = mix
               /\ queue'[u][i].number = number[activeSwing]
    <3>1. Works(u) /\ queue'[u] = Append(queue[u], cmd)
      BY <2>2, <2>3 DEF Works
    <3>2. queue[u] \in Seq(Command) BY DEF TypeDriver
    <3>3. /\ Len(queue'[u]) = Len(queue[u]) + 1 /\ Len(queue[u]) \in Nat
          /\ queue'[u][Len(queue[u]) + 1] = cmd
          /\ \A j \in 1 .. Len(queue[u]) : queue'[u][j] = queue[u][j]
      BY <2>1, <3>1, <3>2, AppendProperties, LenProperties
    <3>4. CASE i = Len(queue[u]) + 1 BY <2>1, <3>3, <3>4
    <3>5. CASE i \in 1 .. Len(queue[u])
      BY <3>1, <3>3, <3>5 DEF CommandsOK
    <3>6. QED BY <2>3, <3>3, <3>4, <3>5
  <2>4. QED BY <2>3 DEF CommandsOK
<1>5. QED BY <1>1, <1>2, <1>3, <1>4 DEF Transmitted

LEMMA ServerTransmits ==
  ASSUME TransmitInv, Server
  PROVE  Transmitted'
<1> USE TransmitParts DEF Answered, UsrpStages
<1>1. CASE SetupForScan
  BY <1>1, CallTransmits, ReturnedTransmits
     DEF SetupForScan, CallCuda, CudaReturned
<1>2. CASE AddFirst
  BY <1>2, CallTransmits, ReturnedTransmits DEF AddFirst, NextOf
<1>3. CASE GenerateFirst
  BY <1>3, CallTransmits, ReturnedTransmits DEF GenerateFirst, CallCuda
<1>4. CASE Trigger
  <2> USE <1>4 DEF Trigger, usrps, memory, cudaVars, driverVars
  <2>1. ~calling BY DEF CudaOrder
  <2>2. TxMemory' BY MemoryKept DEF Stored, StoredNext
  <2>3. CommandsOK' /\ TxCopy' BY <2>1, CopiesKept DEF Copied
  <2>4. QED BY <2>2, <2>3 DEF Transmitted, JobOK
<1>5. CASE Setup \/ TriggerPulse
  BY <1>5, CallUsrpsTransmits, UsrpsReturnedTransmits
     DEF Setup, TriggerPulse, usrps
<1>6. CASE GetSamples
  BY <1>6, CallTransmits, ReturnedTransmits DEF GetSamples, CallCuda
<1>7. CASE Prepare
  <2> USE <1>7 DEF Prepare, usrps, memory, cudaVars, driverVars
  <2>1. number'[activeSwing] = number[activeSwing]
    BY DEF TypeServer, processingSwing, Swing
  <2>2. TxMemory' BY <2>1, MemoryKept DEF Stored, StoredNext
  <2>3. CommandsOK' /\ TxCopy' BY <2>1, CopiesKept DEF Copied
  <2>4. QED BY <2>2, <2>3 DEF Transmitted, JobOK
<1>8. CASE PrepareChannel
  BY <1>8, CallTransmits, ReturnedTransmits DEF PrepareChannel, NextOf
<1>9. CASE SkipStopped
  <2> USE <1>9 DEF SkipStopped, radar, usrps, memory, cudaVars, driverVars
  <2>1. TxMemory' BY MemoryKept DEF Stored, StoredNext
  <2>2. CommandsOK' /\ TxCopy' BY CopiesKept DEF Copied
  <2>3. QED BY <2>1, <2>2 DEF Transmitted, JobOK
<1>10. CASE EndPrepare
  <2> USE <1>10 DEF EndPrepare, usrps, memory, cudaVars, driverVars
  <2>1. ~replied BY DEF CudaOrder
  <2>2. TxMemory' BY <2>1, MemoryKept DEF Stored, StoredNext
  <2>3. CommandsOK' /\ TxCopy' BY CopiesKept DEF Copied
  <2>4. QED BY <2>2, <2>3 DEF Transmitted, JobOK
<1>11. CASE Generate
  BY <1>11, CallTransmits, ReturnedTransmits DEF Generate, CallCuda
<1>12. CASE ReadyData
  BY <1>12, CallUsrpsTransmits, UsrpsReturnedTransmits DEF ReadyData
<1>13. CASE Switch
  <2> USE <1>13 DEF Switch, usrps, memory, cudaVars, driverVars
  <2>1. activeSwing' = processingSwing
    BY DEF TypeServer, NextSwing, processingSwing, Swing
  <2>2. \A u \in Usrps : Works(u) => Quiet(u) BY AtRest
  <2>3. CommandsOK' BY <2>2 DEF CommandsOK, Quiet, Works
  <2>4. TxCopy' BY <2>2 DEF TxCopy, Copied, Quiet, Works
  <2>5. TxMemory'
    <3>1. Transmitting' => More BY DEF Transmitting, More, TypeServer
    <3>2. ~StoredNext' BY DEF StoredNext
    <3>3. Generated(processingSwing) => Generated(activeSwing)'
      BY <2>1 DEF Generated, Works, Fits
    <3>4. QED BY <3>1, <3>2, <3>3 DEF TxMemory, StoredNext
  <2>6. QED BY <2>3, <2>4, <2>5 DEF Transmitted, JobOK
<1>14. CASE Process
  BY <1>14, CallTransmits, ReturnedTransmits DEF Process, CallCuda
<1>15. CASE Unregister
  <2>1. CASE \E c \in todo : CallCuda("leave0", Removing(c, 0))
    BY <2>1, CallTransmits DEF CallCuda
  <2>2. CASE NextOf("leave1", [c \in Channels |-> Removing(c, 1)])
    BY <2>2, CallTransmits DEF NextOf
  <2>3. CASE CudaReturned("leave0", "leave1") \/ CudaReturned("leave1", "idle")
    BY <2>3, ReturnedTransmits DEF CudaReturned
  <2>4. QED BY <1>15, <2>1, <2>2, <2>3 DEF Unregister
<1>16. QED
  BY <1>1, <1>2, <1>3, <1>4, <1>5, <1>6, <1>7, <1>8, <1>9, <1>10, <1>11,
     <1>12, <1>13, <1>14, <1>15 DEF Server

LEMMA ChannelTransmits ==
  ASSUME TransmitInv,
         \/ StartScan
         \/ \E c \in Channels : Stop(c) \/ Leave(c)
  PROVE  Transmitted'
<1> USE TransmitParts DEF server, usrps, memory, cudaVars, driverVars
<1>1. CASE StartScan
  <2> USE <1>1 DEF StartScan
  <2>1. \A u \in Usrps : Works(u) => Quiet(u) BY AtRest
  <2>2. CommandsOK' BY <2>1 DEF CommandsOK, Quiet, Works
  <2>3. TxCopy' BY <2>1 DEF TxCopy, Copied, Quiet, Works
  <2>4. TxMemory' BY DEF TxMemory, Stored, StoredNext
  <2>5. QED BY <2>2, <2>3, <2>4 DEF Transmitted, JobOK
<1>2. ASSUME NEW c \in Channels, Stop(c) PROVE Transmitted'
  <2> USE <1>2 DEF Stop
  <2>1. TxMemory' BY MemoryKept DEF Stored, StoredNext
  <2>2. CommandsOK' /\ TxCopy' BY CopiesKept DEF Copied
  <2>3. QED BY <2>1, <2>2 DEF Transmitted, JobOK
<1>3. ASSUME NEW c \in Channels, Leave(c) PROVE Transmitted'
  <2> USE <1>3 DEF Leave
  <2>1. TxMemory' BY MemoryKept DEF Stored, StoredNext
  <2>2. CommandsOK' /\ TxCopy' BY CopiesKept DEF Copied
  <2>3. QED BY <2>1, <2>2 DEF Transmitted, JobOK
<1>4. QED BY <1>1, <1>2, <1>3

LEMMA ConnectionTransmits ==
  ASSUME TransmitInv, NEW u \in Usrps, Lose(u) \/ Reconnect(u)
  PROVE  Transmitted'
<1> USE TransmitParts DEF radar, cudaVars, driverVars
<1>1. CASE Lose(u)
  <2> USE <1>1 DEF Lose
  <2>1. inService' \subseteq inService /\ (srv' = srv \/ srv' = "dead")
    OBVIOUS
  <2>2. CommandsOK' /\ TxCopy' BY <2>1, CopiesKept DEF Copied
  <2>3. srv' # "dead" =>
          \A v \in Usrps : Works(v)' => Works(v) /\ shmTx'[v] = shmTx[v]
    BY DEF Works, TypeMemory, memory
  <2>4. srv' # "dead" => \A s : Generated(s) => Generated(s)'
    BY <2>3 DEF Generated, Fits
  <2>5. TxMemory'
    BY <2>1, <2>4 DEF TxMemory, Stored, StoredNext, Transmitting, More,
       processingSwing
  <2>6. QED BY <2>2, <2>5 DEF Transmitted, JobOK
<1>2. CASE Reconnect(u)
  <2> USE <1>2 DEF Reconnect, server, memory
  <2>1. TxMemory' BY DEF TxMemory, Generated
  <2>2. CommandsOK' BY DEF CommandsOK, Works
  <2>3. TxCopy' BY DEF TxCopy, Copied, Works, Fits
  <2>4. QED BY <2>1, <2>2, <2>3 DEF Transmitted, JobOK
<1>3. QED BY <1>1, <1>2

LEMMA StutterTransmits ==
  ASSUME TransmitInv, UNCHANGED vars
  PROVE  Transmitted'
<1> USE TransmitParts DEF vars, server, radar, usrps, memory, cudaVars,
                          driverVars
<1>1. TxMemory' BY MemoryKept DEF Stored, StoredNext
<1>2. CommandsOK' /\ TxCopy' BY CopiesKept DEF Copied
<1>3. QED BY <1>1, <1>2 DEF Transmitted, JobOK

LEMMA SequenceStep == ASSUME SequenceInv, [Next]_vars PROVE SequenceInv'
BY NextSequenced, OrderStep DEF SequenceInv, Sequenced

LEMMA TransmitStep == ASSUME TransmitInv, [Next]_vars PROVE TransmitInv'
<1>1. SequenceInv' BY SequenceStep DEF TransmitInv
<1>2. Transmitted'
  BY CudaTransmits, UsrpTransmits, ServerTransmits, ChannelTransmits,
     ConnectionTransmits, StutterTransmits DEF Next
<1>3. QED BY <1>1, <1>2 DEF TransmitInv

LEMMA TransmitInvInit == ASSUME Init PROVE TransmitInv
BY SequencedInit, TypeInit, OrderInit, TransmitInit
   DEF SequenceInv, Sequenced, OrderInv, TransmitInv

LEMMA TransmitInvHolds == Spec => []TransmitInv
BY TransmitInvInit, TransmitStep, PTL DEF Spec

(* A USRP in service transmits the sequences of the period it was          *)
(* triggered for, for every channel of the radar, made for the frequency   *)
(* it is tuned to: GENERATE_PULSE of the next period, which overwrites the *)
(* other segment while the pulses are on the air, never reaches the copy.  *)
THEOREM OwnWaveform == Spec => []TransmitsOwn
<1>1. TransmitInv => TransmitsOwn
  <2> SUFFICES ASSUME TransmitInv, NEW u \in inService, at[u] = "pulse",
                      stopped[u] # "gone"
               PROVE  /\ txSamples[u].tuned = mix
                      /\ txSamples[u].wave.mix = mix
                      /\ \A c \in chans :
                           txSamples[u].wave.seq[c] = Doing(u).number
    BY DEF TransmitsOwn
  <2> USE TransmitParts
  <2>1. u \in Usrps /\ Works(u) /\ Copied(u)
    BY DEF TypeServer, Works, Copied
  <2>2. /\ txSamples[u].tuned = mix
        /\ Fits(txSamples[u].wave, number[activeSwing])
    BY <2>1 DEF TxCopy
  <2>3. Doing(u).number = number[activeSwing]
    <3>1. queue[u] # <<>> /\ queue[u] \in Seq(Command)
      BY <2>1 DEF BusyOK, TypeDriver
    <3>2. 1 \in 1 .. Len(queue[u]) /\ Doing(u) = queue[u][1]
      BY <3>1, EmptySeq, LenProperties DEF Doing
    <3>3. QED BY <2>1, <3>2 DEF CommandsOK
  <2>4. QED BY <2>2, <2>3 DEF Fits
<1>2. QED BY <1>1, TransmitInvHolds, PTL
----------------------------------------------------------------------------
(* What the server receives.  When a driver has the recording of the       *)
(* period in its buffer, or an error.                                      *)
Received(u) ==
  /\ at[u] # "pulse"
  /\ \/ srv = "trigger" /\ calling /\ answer[u] # "none"
     \/ srv \in {"get", "got", "prepare", "generate"} /\ fire
     \/ srv = "ready" /\ (calling => answer[u] = "none")

Recordings ==
  \A u \in Usrps : Works(u) /\ Received(u) =>
    rxError[u] \/ rxBuffer[u] = number[activeSwing]

(* What an answer to READY_DATA says of the shared memory.                 *)
AnswersOK ==
  srv = "ready" /\ calling =>
    \A u \in inService :
      \/ answer[u] = "none"
      \/ answer[u] = "ok" /\ shmRx[u][activeSwing] = number[activeSwing]
      \/ answer[u] = "error" /\ shmRx[u][activeSwing] = None
      \/ stopped[u] = "gone" /\ shmRx[u][activeSwing] = None

(* A driver out of service may still write where its last command said:    *)
(* only to a swing for which the server did not count on it.               *)
LateCommands ==
  srv # "dead" =>
    \A u \in Usrps \ inService : stopped[u] # "gone" =>
      \A i \in 1 .. Len(queue[u]) : queue[u][i].op = "READY_DATA" =>
        \/ u \notin heard[queue[u][i].swing]
        \/ srv = "ready" /\ queue[u][i].swing = activeSwing

ReadyOK ==
  \A u \in Usrps : at[u] = "ready" =>
    queue[u] # <<>> /\ queue[u][1].op = "READY_DATA"

(* v may be what a USRP has recorded in the period of swing s.             *)
Recorded(u, s, v) ==
  \/ v = number[s] /\ u \notin erred[s]
  \/ v = None /\ (u \in erred[s] \/ stopped[u] = "gone" \/ u \notin inService)

(* From the end of a period until its samples have been sent.              *)
Fresh ==
  /\ srv \in LeaveStages \cup {"idle", "process", "setup", "trigger", "get"}
  /\ chans # {} /\ Collecting

RxMemory ==
  /\ Fresh => \A u \in heard[processingSwing] :
                Recorded(u, processingSwing, shmRx[u][processingSwing])
  /\ srv = "switch" /\ fire =>
       \A u \in heard[activeSwing] :
         Recorded(u, activeSwing, shmRx[u][activeSwing])

Own(d) ==
  /\ Fits(d.taps, number[processingSwing])
  /\ \A u \in heard[processingSwing] :
       Recorded(u, processingSwing, d.samples[u])

(* Whether PROCESS has been taken by the driver.                           *)
Begun == srv = "process" => replied

Filtering ==
  Fresh /\ cuda = "process" =>
    job = processingSwing /\ Fits(filters, number[processingSwing]) /\ Begun

FilteredOK == Fresh /\ cuda # "process" /\ Begun => Own(bb)

SentOK == srv = "got" \/ (srv = "get" /\ replied) => Own(data)

Delivered ==
  /\ Recordings /\ AnswersOK /\ LateCommands /\ ReadyOK
  /\ RxMemory /\ Filtering /\ FilteredOK /\ SentOK

DeliverInv == TransmitInv /\ Delivered

LEMMA DeliverInit == ASSUME Init PROVE Delivered
<1> USE DEF Init, InitCuda, InitDriver, LeaveStages
<1>1. Recordings /\ AnswersOK /\ LateCommands /\ ReadyOK
  BY DEF Recordings, Received, AnswersOK, LateCommands, ReadyOK
<1>2. RxMemory /\ Filtering /\ FilteredOK /\ SentOK
  BY DEF RxMemory, Fresh, Collecting, Filtering, FilteredOK, SentOK
<1>3. QED BY <1>1, <1>2 DEF Delivered

LEMMA DeliverParts ==
  ASSUME DeliverInv
  PROVE  /\ TypeMemory /\ TypeServer /\ TypeDriver /\ TypeCuda /\ OrderInv
         /\ CudaOrder /\ UsrpOrder /\ PositionOK /\ BusyOK
         /\ ScanOK /\ TodoOK /\ RequestOK /\ NumberOK /\ MixingOK
         /\ ActiveSequences /\ OtherSequences /\ SequenceInv
         /\ TxMemory /\ JobOK /\ CommandsOK /\ TxCopy /\ TransmitInv
         /\ Recordings /\ AnswersOK /\ LateCommands /\ ReadyOK
         /\ RxMemory /\ Filtering /\ FilteredOK /\ SentOK
         /\ activeSwing \in Swing /\ processingSwing \in Swing
         /\ activeSwing # processingSwing
<1>1. TransmitInv /\ Delivered BY DEF DeliverInv
<1>2. TypeServer BY <1>1, TransmitParts
<1>3. /\ activeSwing \in Swing /\ processingSwing \in Swing
      /\ activeSwing # processingSwing
  BY <1>2 DEF TypeServer, processingSwing, Swing
<1>4. QED BY <1>1, <1>3, TransmitParts DEF Delivered

(* Steps that leave the recordings alone.                                  *)
LEMMA RecordingsKept ==
  ASSUME Recordings, inService' \subseteq inService,
         number'[activeSwing] = number[activeSwing],
         UNCHANGED <<rxError, rxBuffer, stopped, activeSwing>>,
         \A u \in Usrps : Works(u)' /\ Received(u)' => Received(u)
  PROVE  Recordings'
<1>1. \A u \in Usrps : Works(u)' => Works(u) BY DEF Works
<1>2. QED BY <1>1 DEF Recordings

(* Steps that leave the samples alone, or clear those of a driver that     *)
(* ended or was taken out of service.                                      *)
Cleared(u) == stopped[u] = "gone" \/ u \notin inService

LEMMA SamplesKept ==
  ASSUME DeliverInv,
         chans' \subseteq chans, inService' \subseteq inService,
         UNCHANGED <<mix, heard, erred, activeSwing, number>>,
         UNCHANGED <<cuda, job, filters, bb, data>>,
         \A u \in Usrps : stopped[u] = "gone" => stopped'[u] = "gone",
         Fresh' \/ srv' = "switch" =>
           \A s \in Swing : \A u \in heard[s] :
             \/ shmRx'[u][s] = shmRx[u][s]
             \/ shmRx'[u][s] = None /\ Cleared(u)',
         Fresh' => Fresh /\ (Begun <=> Begun'),
         srv' = "switch" /\ fire' => srv = "switch" /\ fire,
         srv' = "got" \/ (srv' = "get" /\ replied') =>
           srv = "got" \/ (srv = "get" /\ replied)
  PROVE  RxMemory' /\ Filtering' /\ FilteredOK' /\ SentOK'
<1> USE DeliverParts
<1>1. processingSwing' = processingSwing BY DEF processingSwing
<1>2. \A s \in Swing : Fresh' \/ srv' = "switch" =>
        \A u \in heard[s] : Recorded(u, s, shmRx[u][s]) =>
                            Recorded(u, s, shmRx[u][s])'
  BY DEF Recorded, Cleared, TypeServer
<1>3. RxMemory'
  BY <1>1, <1>2 DEF RxMemory
<1>4. Own(bb) => Own(bb)' BY <1>1 DEF Own, Fits, Recorded, TypeServer
<1>5. Own(data) => Own(data)' BY <1>1 DEF Own, Fits, Recorded, TypeServer
<1>6. Filtering' BY <1>1 DEF Filtering, Fits
<1>7. FilteredOK' /\ SentOK' BY <1>4, <1>5 DEF FilteredOK, SentOK
<1>8. QED BY <1>3, <1>6, <1>7

LEMMA CudaDelivers ==
  ASSUME DeliverInv, CudaStep
  PROVE  Delivered'
<1> USE DeliverParts DEF CudaStep, server, radar, usrps, driverVars
<1>1. shmRx' = shmRx
  BY DEF Cuda, SetupCuda, AddChannel, RemoveChannel, StartGenerate,
     EndGenerate, StartProcess, EndProcess, GetData
<1>2. Recordings' /\ AnswersOK' /\ LateCommands' /\ ReadyOK'
  BY <1>1 DEF Recordings, Works, Received, AnswersOK, LateCommands, ReadyOK
<1>3. Fresh' = Fresh BY DEF Fresh, Collecting
<1>4. RxMemory'
  BY <1>1, <1>3 DEF RxMemory, Recorded, processingSwing
<1>5. Filtering' /\ FilteredOK' /\ SentOK'
  <2> DEFINE p == processingSwing
  <2>1. p' = p BY DEF processingSwing
  <2>2. \A d : Own(d) <=> (/\ d.taps.mix = mix
                           /\ \A c \in chans : d.taps.seq[c] = number[p]
                           /\ \A u \in heard[p] : Recorded(u, p, d.samples[u]))
    BY DEF Own, Fits
  <2>3. CASE StartProcess
    <3>1. /\ srv = "process" /\ request.swing = p /\ cuda' = "process"
          /\ job' = p /\ filters' = Made(p) /\ replied'
      BY <2>3 DEF StartProcess, Taken, Respond, RequestOK, Sends, Taps
    <3>2. Fresh => Fits(filters', number[p])
      <4>1. Fresh => position > 0 BY DEF Fresh, Collecting
      <4>2. Fresh => \A c \in chans : sequences[p][c] = number[p]
        BY <3>1, <4>1 DEF OtherSequences, Preparing
      <4>3. mixing[p] = mix BY <3>1 DEF MixingOK, Tuned
      <4>4. QED BY <3>1, <4>2, <4>3 DEF Fits, Made
    <3>3. Filtering' BY <1>3, <2>1, <3>1, <3>2 DEF Filtering, Fits, Begun
    <3>4. QED BY <3>1, <3>3 DEF FilteredOK, SentOK
  <2>4. CASE EndProcess
    <3>1. /\ cuda = "process" /\ cuda' = "ready"
          /\ bb' = [taps |-> filters,
                    samples |-> [u \in Usrps |-> shmRx[u][job]]]
          /\ UNCHANGED <<replied, data>>
      BY <2>4 DEF EndProcess, Source
    <3>2. Fresh => Fits(bb'.taps, number[p]) /\ job = p
      BY <3>1 DEF Filtering
    <3>3. heard[p] \subseteq Usrps BY DEF TypeServer
    <3>4. Fresh => \A u \in heard[p] : Recorded(u, p, bb'.samples[u])
      BY <3>1, <3>2, <3>3 DEF RxMemory
    <3>5. FilteredOK'
      BY <1>3, <2>1, <3>2, <3>4 DEF FilteredOK, Own, Fits, Recorded
    <3>6. SentOK' BY <2>1, <3>1 DEF SentOK, Own, Fits, Recorded
    <3>7. QED BY <3>1, <3>5, <3>6 DEF Filtering
  <2>5. CASE GetData
    <3>1. srv = "get" /\ cuda = "ready" /\ bb' = bb
      BY <2>5 DEF GetData, Taken, RequestOK, Sends
    <3>2. Fresh
      BY <2>5, <3>1 DEF GetData, Taken, CudaOrder, ScanOK, PeriodStages, Fresh
    <3>3. Own(bb) BY <3>1, <3>2 DEF FilteredOK, Begun
    <3>4. data' = bb \/ (data' = data /\ replied' = replied)
      BY <2>5 DEF GetData
    <3>5. SentOK'
      BY <2>1, <3>1, <3>3, <3>4 DEF SentOK, Own, Fits, Recorded
    <3>6. FilteredOK' BY <2>1, <3>1, <3>3 DEF FilteredOK, Own, Fits, Recorded
    <3>7. cuda' # "process" BY <2>5, <3>1 DEF GetData
    <3>8. QED BY <3>5, <3>6, <3>7 DEF Filtering
  <2>6. CASE \/ SetupCuda \/ AddChannel \/ RemoveChannel \/ StartGenerate
             \/ EndGenerate
    <3>1. cuda # "process" /\ cuda' # "process" /\ UNCHANGED <<bb, data>>
      BY <2>6 DEF SetupCuda, AddChannel, RemoveChannel, StartGenerate,
         EndGenerate, Taken
    <3>2. srv \notin {"process", "get", "got"}
      BY <2>6 DEF SetupCuda, AddChannel, RemoveChannel, StartGenerate,
         EndGenerate, Taken, RequestOK, Sends, CudaOrder
    <3>3. FilteredOK'
      BY <1>3, <2>1, <3>1, <3>2 DEF FilteredOK, Begun, Own, Fits, Recorded
    <3>4. QED BY <3>1, <3>2, <3>3 DEF Filtering, SentOK
  <2>7. QED BY <2>3, <2>4, <2>5, <2>6 DEF Cuda
<1>6. QED BY <1>2, <1>4, <1>5 DEF Delivered

LEMMA UsrpDelivers ==
  ASSUME DeliverInv, NEW u \in Usrps, UsrpStep(u)
  PROVE  Delivered'
<1> USE DeliverParts DEF UsrpStep, server, radar, usrps, cudaVars
(* The step changes the driver of u only, and brings it back to no life.   *)
<1>1. /\ \A v \in Usrps \ {u} :
           /\ queue'[v] = queue[v] /\ at'[v] = at[v] /\ answer'[v] = answer[v]
           /\ rxBuffer'[v] = rxBuffer[v] /\ rxError'[v] = rxError[v]
           /\ stopped'[v] = stopped[v] /\ shmRx'[v] = shmRx[v]
      /\ stopped'[u] # "gone" => stopped[u] # "gone"
  BY DEF TypeMemory, TypeDriver, Work, StartSetup, EndSetup, StartPulse,
     EndPulse, StartReady, EndReady, Hang, Resume, ExitDriver, Begin, End,
     Reply
<1>2. Works(u) => Shape(u) BY DEF Works, UsrpOrder
<1>3. queue[u] # <<>> => Doing(u) = queue[u][1] /\ 1 \in 1 .. Len(queue[u])
  BY EmptySeq, LenProperties DEF Doing, TypeDriver
<1>4. at[u] # "wait" => queue[u] # <<>> BY DEF BusyOK
<1>5. Works(u) /\ queue[u] # <<>> =>
        /\ Doing(u).swing = activeSwing
        /\ Doing(u).number = number[activeSwing]
  BY <1>3 DEF CommandsOK
<1>6. Works(u)' => Works(u) BY <1>1 DEF Works
<1>7. Recordings'
  <2>1. ASSUME NEW v \in Usrps \ {u}, Works(v)', Received(v)'
        PROVE  rxError'[v] \/ rxBuffer'[v] = number[activeSwing]
    BY <1>1, <2>1 DEF Recordings, Works, Received
  <2>2. ASSUME Works(u)', Received(u)'
        PROVE  rxError'[u] \/ rxBuffer'[u] = number[activeSwing]
    <3>1. Shape(u) /\ Works(u) BY <1>2, <1>6, <2>2
    <3>2. CASE EndPulse(u)
      BY <1>4, <1>5, <3>1, <3>2 DEF EndPulse, End, TypeDriver
    <3>3. CASE EndReady(u)
      <4>1. Asked(u, "ready") /\ answer'[u] # "none"
        BY <3>1, <3>3 DEF EndReady, End, Reply, TypeDriver, Shape, Quiet,
           Pulsing
      <4>2. QED BY <2>2, <4>1 DEF Received, Asked
    <3>4. CASE StartPulse(u)
      BY <2>2, <3>4 DEF StartPulse, Begin, Received, TypeDriver
    <3>5. CASE EndSetup(u)
      <4>1. srv \in {"dead", "setup"}
        BY <3>1, <3>5 DEF EndSetup, End, Shape, Quiet, Pulsing, Asked
      <4>2. QED BY <2>2, <4>1 DEF Received
    <3>6. CASE \/ StartSetup(u) \/ StartReady(u) \/ Hang(u) \/ Resume(u)
               \/ ExitDriver(u)
      <4>1. /\ UNCHANGED <<answer, rxBuffer, rxError>> /\ at[u] # "pulse"
        BY <2>2, <3>6 DEF StartSetup, StartReady, Hang, Resume, ExitDriver,
           Begin, Received
      <4>2. Received(u) BY <2>2, <4>1 DEF Received
      <4>3. QED BY <3>1, <4>1, <4>2 DEF Recordings
    <3>7. QED BY <3>2, <3>3, <3>4, <3>5, <3>6 DEF Work
  <2>3. QED BY <2>1, <2>2 DEF Recordings
<1>8. AnswersOK'
  <2> SUFFICES ASSUME srv = "ready", calling, NEW v \in inService
               PROVE  \/ answer'[v] = "none"
                      \/ /\ answer'[v] = "ok"
                         /\ shmRx'[v][activeSwing] = number[activeSwing]
                      \/ /\ answer'[v] = "error"
                         /\ shmRx'[v][activeSwing] = None
                      \/ /\ stopped'[v] = "gone"
                         /\ shmRx'[v][activeSwing] = None
    BY DEF AnswersOK
  <2>0. inService \subseteq Usrps BY DEF TypeServer
  <2>1. CASE v # u BY <1>1, <2>0, <2>1 DEF AnswersOK
  <2>2. CASE v = u
    <3>1. CASE EndReady(u)
      <4>1. Works(u) /\ at[u] = "ready" /\ stopped[u] = "no"
        BY <2>2, <3>1 DEF EndReady, End, Works
      <4>2. Received(u)
        BY <1>2, <4>1 DEF Shape, Quiet, Pulsing, Asked, Received
      <4>3. Doing(u).swing = activeSwing BY <1>4, <1>5, <4>1
      <4>4. /\ shmRx'[u][activeSwing] = Recording(u)
            /\ answer'[u] = IF rxError[u] THEN "error" ELSE "ok"
        BY <3>1, <4>3 DEF EndReady, Reply, TypeMemory, TypeDriver
      <4>5. QED BY <2>2, <4>1, <4>2, <4>4 DEF Recording, Recordings
    <3>2. CASE ExitDriver(u)
      BY <2>2, <3>2 DEF ExitDriver, TypeMemory, TypeDriver
    <3>3. CASE EndSetup(u) \/ StartPulse(u)
      <4>1. /\ Works(u)
            /\ \/ at[u] = "setup"
               \/ at[u] = "wait" /\ queue[u][1].op = "TRIGGER_PULSE"
                  /\ queue[u] # <<>>
        BY <1>3, <2>2, <3>3 DEF EndSetup, StartPulse, Begin, End, Works
      <4>2. QED BY <1>2, <4>1 DEF Shape, Quiet, Holds, Pulsing, Asked
    <3>4. CASE \/ StartSetup(u) \/ EndPulse(u) \/ StartReady(u) \/ Hang(u)
               \/ Resume(u)
      <4>1. UNCHANGED <<answer, shmRx>>
        BY <3>4 DEF StartSetup, EndPulse, StartReady, Hang, Resume
      <4>2. stopped[u] # "no" => stopped'[u] = stopped[u] \/ Resume(u)
        BY <3>4 DEF StartSetup, EndPulse, StartReady, Hang, Begin, End
      <4>3. stopped[u] = "gone" => stopped'[u] = "gone" BY <1>1
      <4>4. QED BY <2>2, <4>1, <4>3 DEF AnswersOK
    <3>5. QED BY <3>1, <3>2, <3>3, <3>4 DEF Work
  <2>3. QED BY <2>1, <2>2
<1>9. LateCommands'
  <2>1. CASE queue'[u] = queue[u]
    <3>1. \A v \in Usrps : queue'[v] = queue[v] BY <1>1, <2>1
    <3>2. \A v \in Usrps : stopped'[v] # "gone" => stopped[v] # "gone"
      BY <1>1
    <3>3. QED BY <3>1, <3>2 DEF LateCommands
  <2>2. CASE queue'[u] = Tail(queue[u]) /\ queue[u] # <<>>
    <3>1. /\ Len(queue'[u]) = Len(queue[u]) - 1
          /\ \A i \in 1 .. Len(queue'[u]) : queue'[u][i] = queue[u][i + 1]
          /\ Len(queue[u]) \in Nat
      BY <2>2, HeadTailProperties DEF TypeDriver
    <3>2. ASSUME NEW v \in Usrps \ inService, stopped'[v] # "gone",
                 NEW i \in 1 .. Len(queue'[v])
          PROVE  /\ stopped[v] # "gone"
                 /\ \E j \in 1 .. Len(queue[v]) : queue'[v][i] = queue[v][j]
      <4>1. CASE v = u
        <5>1. i + 1 \in 1 .. Len(queue[u]) BY <3>1, <3>2, <4>1
        <5>2. queue'[u][i] = queue[u][i + 1] BY <3>1, <3>2, <4>1
        <5>3. QED BY <1>1, <3>2, <4>1, <5>1, <5>2
      <4>2. CASE v # u BY <1>1, <3>2, <4>2
      <4>3. QED BY <4>1, <4>2
    <3>3. SUFFICES ASSUME srv # "dead", NEW v \in Usrps \ inService,
                          stopped'[v] # "gone", NEW i \in 1 .. Len(queue'[v]),
                          queue'[v][i].op = "READY_DATA"
                   PROVE  \/ v \notin heard[queue'[v][i].swing]
                          \/ /\ srv = "ready"
                             /\ queue'[v][i].swing = activeSwing
      BY DEF LateCommands
    <3>4. PICK j \in 1 .. Len(queue[v]) : queue'[v][i] = queue[v][j]
      BY <3>2, <3>3
    <3>5. QED BY <3>2, <3>3, <3>4 DEF LateCommands
  <2>3. queue'[u] = queue[u] \/ (queue'[u] = Tail(queue[u]) /\ at[u] # "wait")
    BY DEF TypeDriver, Work, StartSetup, EndSetup, StartPulse,
       EndPulse, StartReady, EndReady, Hang, Resume, ExitDriver, Begin, End
  <2>4. QED BY <1>4, <2>1, <2>2, <2>3
<1>10. RxMemory' /\ Filtering' /\ FilteredOK' /\ SentOK'
  <2>1. Fresh' = Fresh /\ Begun' = Begun BY DEF Fresh, Collecting, Begun
  <2>2. ASSUME Fresh \/ srv = "switch", NEW s \in Swing, NEW v \in heard[s]
        PROVE  \/ shmRx'[v][s] = shmRx[v][s]
               \/ shmRx'[v][s] = None /\ Cleared(v)'
    <3>0. v \in Usrps BY DEF TypeServer
    <3>1. CASE v # u BY <1>1, <3>0, <3>1
    <3>2. CASE v = u /\ ExitDriver(u)
      BY <3>2 DEF ExitDriver, Cleared, TypeMemory, TypeDriver
    <3>3. CASE v = u /\ EndReady(u)
      <4>1. /\ at[u] = "ready" /\ stopped[u] = "no" /\ queue[u] # <<>>
            /\ shmRx' = [shmRx EXCEPT ![u][Doing(u).swing] = Recording(u)]
        BY <1>4, <3>3 DEF EndReady, End
      <4>2. srv \notin {"ready", "dead"}
        BY <2>2 DEF Fresh, LeaveStages
      <4>3. u \notin inService
        BY <1>2, <4>1, <4>2 DEF Works, Shape, Quiet, Pulsing, Asked
      <4>4. Doing(u).op = "READY_DATA"
        BY <1>3, <4>1 DEF ReadyOK
      <4>5. u \notin heard[Doing(u).swing]
        BY <1>3, <4>1, <4>2, <4>3, <4>4 DEF LateCommands
      <4>6. s # Doing(u).swing BY <3>3, <4>5
      <4>7. shmRx'[u][s] = shmRx[u][s] BY <4>1, <4>6 DEF TypeMemory
      <4>8. QED BY <3>3, <4>7
    <3>4. CASE ~ExitDriver(u) /\ ~EndReady(u)
      BY <3>4 DEF Work, StartSetup, EndSetup, StartPulse, EndPulse,
         StartReady, Hang, Resume
    <3>5. QED BY <3>1, <3>2, <3>3, <3>4
  <2>3. \A v \in Usrps : stopped[v] = "gone" => stopped'[v] = "gone"
    BY <1>1
  <2>4. QED BY <2>1, <2>2, <2>3, SamplesKept
<1>11. ReadyOK'
  <2>1. ASSUME NEW v \in Usrps, v # u, at'[v] = "ready"
        PROVE  queue'[v] # <<>> /\ queue'[v][1].op = "READY_DATA"
    BY <1>1, <2>1 DEF ReadyOK
  <2>2. ASSUME at'[u] = "ready"
        PROVE  queue'[u] # <<>> /\ queue'[u][1].op = "READY_DATA"
    <3>1. CASE StartReady(u) BY <1>3, <3>1 DEF StartReady, Begin
    <3>2. CASE ~StartReady(u)
      BY <2>2, <3>2
         DEF ReadyOK, TypeDriver, Work, StartSetup, EndSetup, StartPulse,
             EndPulse, EndReady, Hang, Resume, ExitDriver, Begin, End
    <3>3. QED BY <3>1, <3>2
  <2>3. QED BY <2>1, <2>2 DEF ReadyOK
<1>12. QED BY <1>7, <1>8, <1>9, <1>10, <1>11 DEF Delivered

(* Steps that leave the drivers and the answers alone.                     *)
LEMMA DriversKept ==
  ASSUME DeliverInv, inService' = inService,
         number'[activeSwing] = number[activeSwing],
         UNCHANGED <<heard, activeSwing, memory, driverVars>>,
         srv' # "dead" => srv # "dead" /\ (srv = "ready" => srv' = "ready"),
         srv' = "ready" /\ calling' => srv = "ready" /\ calling,
         \A u \in Usrps : Works(u) /\ Received(u)' => Received(u)
  PROVE  Recordings' /\ AnswersOK' /\ LateCommands' /\ ReadyOK'
<1> USE DeliverParts DEF memory, driverVars
<1>1. Recordings' BY RecordingsKept DEF Works
<1>2. AnswersOK' BY DEF AnswersOK
<1>3. LateCommands' BY DEF LateCommands
<1>4. ReadyOK' BY DEF ReadyOK
<1>5. QED BY <1>1, <1>2, <1>3, <1>4

LEMMA CallDelivers ==
  ASSUME DeliverInv, NEW req, Transmit(req), ~calling,
         srv \notin UsrpStages
  PROVE  Delivered'
<1> USE DeliverParts DEF Transmit, UsrpStages, radar, usrps, memory, driverVars
<1>1. Recordings' /\ AnswersOK' /\ LateCommands' /\ ReadyOK'
  BY DriversKept DEF Received
<1>2. RxMemory' /\ Filtering' /\ FilteredOK' /\ SentOK'
  BY SamplesKept DEF Fresh, Collecting, Begun
<1>3. QED BY <1>1, <1>2 DEF Delivered

(* Where an answer of the CUDA driver leads.                               *)
CudaAnswered(stage, next) ==
  Answered(stage, next) /\ stage \notin UsrpStages

LEMMA ReturnedDelivers ==
  ASSUME DeliverInv, NEW stage, NEW next, CudaReturned(stage, next),
         CudaAnswered(stage, next)
  PROVE  Delivered'
<1> USE DeliverParts
        DEF CudaReturned, CudaAnswered, Answered, UsrpStages, radar, usrps,
            memory, driverVars
<1>1. Recordings' /\ AnswersOK' /\ LateCommands' /\ ReadyOK'
  BY DriversKept DEF Received
<1>2. srv = "initGenerate" => ~Collecting
  BY DEF ScanOK, StartStages, Collecting
<1>3. Fresh' => Fresh BY <1>2 DEF Fresh, Collecting, LeaveStages
<1>4. RxMemory' /\ Filtering' /\ FilteredOK' /\ SentOK'
  BY <1>3, SamplesKept DEF Begun
<1>5. QED BY <1>1, <1>4 DEF Delivered

LEMMA CallUsrpsDelivers ==
  ASSUME DeliverInv, NEW stage,
         NEW op \in {"SETUP", "TRIGGER_PULSE", "READY_DATA"},
         CallUsrps(stage, op), stage \in UsrpStages
  PROVE  Delivered'
<1> USE DeliverParts DEF CallUsrps, UsrpStages, radar, usrps, memory, cudaVars
<1>1. \A u \in Usrps : answer'[u] = "none" OBVIOUS
<1>2. Recordings'
  BY <1>1, RecordingsKept DEF Received
<1>3. AnswersOK' BY <1>1 DEF AnswersOK, TypeServer
<1>4. LateCommands' BY DEF LateCommands
<1>5. ReadyOK'
  <2> DEFINE cmd == [op |-> op, swing |-> activeSwing, mix |-> mix,
                     number |-> number[activeSwing]]
  <2>1. cmd \in Command BY DEF TypeServer, Command, Swing
  <2>2. \A u \in Usrps : queue'[u] = IF u \in inService
                                     THEN Append(queue[u], cmd) ELSE queue[u]
    OBVIOUS
  <2> HIDE DEF cmd
  <2>3. ASSUME NEW u \in Usrps, queue[u] # <<>>
        PROVE  queue'[u] # <<>> /\ queue'[u][1] = queue[u][1]
    <3>1. queue[u] \in Seq(Command) BY DEF TypeDriver
    <3>2. 1 \in 1 .. Len(queue[u]) BY <2>3, <3>1, EmptySeq, LenProperties
    <3>3. /\ Append(queue[u], cmd) # <<>>
          /\ Append(queue[u], cmd)[1] = queue[u][1]
      BY <2>1, <3>1, <3>2, AppendProperties
    <3>4. CASE u \in inService BY <2>2, <3>3, <3>4, Zenon
    <3>5. CASE u \notin inService BY <2>2, <2>3, <3>5, Zenon
    <3>6. QED BY <3>4, <3>5
  <2>4. QED BY <2>3 DEF ReadyOK
<1>6. RxMemory' /\ Filtering' /\ FilteredOK' /\ SentOK'
  BY SamplesKept DEF Fresh, Collecting, Begun
<1>7. QED BY <1>2, <1>3, <1>4, <1>5, <1>6 DEF Delivered

LEMMA UsrpsReturnedDelivers ==
  ASSUME DeliverInv, NEW stage, NEW next, UsrpsReturned(stage, next),
         Answered(stage, next), stage \in {"setup", "trigger"},
         UNCHANGED usrps
  PROVE  Delivered'
<1> USE DeliverParts
        DEF UsrpsReturned, AllAnswered, Answered, radar, usrps, memory,
            driverVars, cudaVars
<1>1. Recordings' /\ AnswersOK' /\ LateCommands' /\ ReadyOK'
  BY DriversKept DEF Received, Works
<1>2. ~replied BY DEF CudaOrder, UsrpStages
<1>3. RxMemory' /\ Filtering' /\ FilteredOK' /\ SentOK'
  BY <1>2, SamplesKept DEF Fresh, Collecting, Begun
<1>4. QED BY <1>1, <1>3 DEF Delivered

(* The answers to READY_DATA become what the server counts on.             *)
LEMMA ReadyDelivers ==
  ASSUME DeliverInv, UsrpsReturned("ready", "switch"),
         heard' = [heard EXCEPT ![activeSwing] = inService],
         erred' = [erred EXCEPT ![activeSwing] =
                     {u \in inService : answer[u] = "error"}],
         UNCHANGED inService
  PROVE  Delivered'
<1> USE DeliverParts
        DEF UsrpsReturned, AllAnswered, radar, memory, driverVars, cudaVars
<1>1. Recordings' BY DEF Recordings, Received
<1>2. AnswersOK' BY DEF AnswersOK
<1>3. /\ heard'[activeSwing] = inService
      /\ erred'[activeSwing] = {u \in inService : answer[u] = "error"}
      /\ \A s \in Swing : s # activeSwing => heard'[s] = heard[s]
  BY DEF TypeServer
<1>4. LateCommands'
  <2> SUFFICES ASSUME NEW u \in Usrps \ inService, stopped[u] # "gone",
                      NEW i \in 1 .. Len(queue[u]),
                      queue[u][i].op = "READY_DATA"
               PROVE  u \notin heard'[queue[u][i].swing]
    BY DEF LateCommands
  <2>1. \/ u \notin heard[queue[u][i].swing]
        \/ queue[u][i].swing = activeSwing
    BY DEF LateCommands
  <2>2. queue[u][i].swing \in Swing
    <3>1. queue[u] \in Seq(Command) BY DEF TypeDriver
    <3>2. queue[u][i] \in Command BY <3>1, ElementOfSeq
    <3>3. QED BY <3>2 DEF Command
  <2>3. QED BY <1>3, <2>1, <2>2
<1>5. ReadyOK' BY DEF ReadyOK
<1>6. RxMemory'
  <2>1. ~Fresh' BY DEF Fresh, LeaveStages
  <2>2. ASSUME NEW u \in inService
        PROVE  Recorded(u, activeSwing, shmRx[u][activeSwing])'
    BY <1>3 DEF AnswersOK, Recorded
  <2>3. QED BY <1>3, <2>1, <2>2 DEF RxMemory
<1>7. Filtering' /\ FilteredOK' /\ SentOK'
  BY DEF Filtering, FilteredOK, SentOK, Fresh, LeaveStages
<1>8. QED BY <1>1, <1>2, <1>4, <1>5, <1>6, <1>7 DEF Delivered

LEMMA ServerDelivers ==
  ASSUME DeliverInv, Server
  PROVE  Delivered'
<1> USE DeliverParts DEF CudaAnswered, Answered, UsrpStages
<1>1. CASE SetupForScan
  BY <1>1, CallDelivers, ReturnedDelivers
     DEF SetupForScan, CallCuda, CudaReturned
<1>2. CASE AddFirst
  BY <1>2, CallDelivers, ReturnedDelivers DEF AddFirst, NextOf
<1>3. CASE GenerateFirst
  BY <1>3, CallDelivers, ReturnedDelivers DEF GenerateFirst, CallCuda
<1>4. CASE Trigger
  <2> USE <1>4 DEF Trigger, usrps, memory, cudaVars, driverVars
  <2>1. ~calling /\ ~replied BY DEF CudaOrder
  <2>2. Recordings' /\ AnswersOK' /\ LateCommands' /\ ReadyOK'
    BY <2>1, DriversKept DEF Received
  <2>3. RxMemory' /\ Filtering' /\ FilteredOK' /\ SentOK'
    BY <2>1, SamplesKept DEF Fresh, Collecting, Begun
  <2>4. QED BY <2>2, <2>3 DEF Delivered
<1>5. CASE Setup \/ TriggerPulse
  BY <1>5, CallUsrpsDelivers, UsrpsReturnedDelivers
     DEF Setup, TriggerPulse
<1>6. CASE GetSamples
  BY <1>6, CallDelivers, ReturnedDelivers DEF GetSamples, CallCuda
<1>7. CASE Prepare
  <2> USE <1>7 DEF Prepare, usrps, memory, cudaVars, driverVars
  <2>1. number'[activeSwing] = number[activeSwing] BY DEF TypeServer
  <2>2. Recordings' /\ AnswersOK' /\ LateCommands' /\ ReadyOK'
    BY <2>1, DriversKept DEF Received
  <2>3. RxMemory' /\ Filtering' /\ FilteredOK' /\ SentOK'
    BY DEF RxMemory, Filtering, FilteredOK, SentOK, Fresh, LeaveStages
  <2>4. QED BY <2>2, <2>3 DEF Delivered
<1>8. CASE PrepareChannel
  BY <1>8, CallDelivers, ReturnedDelivers DEF PrepareChannel, NextOf
<1>9. CASE SkipStopped
  <2> USE <1>9 DEF SkipStopped, radar, usrps, memory, cudaVars, driverVars
  <2>1. Recordings' /\ AnswersOK' /\ LateCommands' /\ ReadyOK'
    BY DriversKept DEF Received
  <2>2. RxMemory' /\ Filtering' /\ FilteredOK' /\ SentOK'
    BY SamplesKept DEF Fresh, Collecting, Begun
  <2>3. QED BY <2>1, <2>2 DEF Delivered
<1>10. CASE EndPrepare
  <2> USE <1>10 DEF EndPrepare, usrps, memory, cudaVars, driverVars
  <2>1. Recordings' /\ AnswersOK' /\ LateCommands' /\ ReadyOK'
    BY DriversKept DEF Received
  <2>2. RxMemory' /\ Filtering' /\ FilteredOK' /\ SentOK'
    BY DEF RxMemory, Filtering, FilteredOK, SentOK, Fresh, LeaveStages
  <2>3. QED BY <2>1, <2>2 DEF Delivered
<1>11. CASE Generate
  BY <1>11, CallDelivers, ReturnedDelivers DEF Generate, CallCuda
<1>12. CASE ReadyData
  BY <1>12, CallUsrpsDelivers, ReadyDelivers DEF ReadyData
<1>13. CASE Switch
  <2> USE <1>13 DEF Switch, usrps, memory, cudaVars, driverVars
  <2>1. activeSwing' = processingSwing /\ processingSwing' = activeSwing
    BY DEF TypeServer, NextSwing, processingSwing, Swing
  <2>2. /\ ~calling /\ ~replied /\ cuda # "process"
        /\ chans # {} => Transmitting
    BY DEF CudaOrder, PositionOK, Transmitting, TypeServer, PeriodStages
  <2>3. Recordings' /\ AnswersOK' BY DEF Recordings, Received, AnswersOK
  <2>4. LateCommands' /\ ReadyOK' BY DEF LateCommands, ReadyOK
  <2>5. Fresh' => fire /\ srv' = "process"
    BY <2>2 DEF Fresh, Collecting
  <2>6. RxMemory' BY <2>1, <2>5 DEF RxMemory, Recorded
  <2>7. Filtering' /\ FilteredOK' /\ SentOK'
    BY <2>2, <2>5 DEF Filtering, FilteredOK, SentOK, Begun
  <2>8. QED BY <2>3, <2>4, <2>6, <2>7 DEF Delivered
<1>14. CASE Process
  BY <1>14, CallDelivers, ReturnedDelivers DEF Process, CallCuda
<1>15. CASE Unregister
  <2>1. CASE \E c \in todo : CallCuda("leave0", Removing(c, 0))
    BY <2>1, CallDelivers DEF CallCuda
  <2>2. CASE NextOf("leave1", [c \in Channels |-> Removing(c, 1)])
    BY <2>2, CallDelivers DEF NextOf
  <2>3. CASE CudaReturned("leave0", "leave1") \/ CudaReturned("leave1", "idle")
    BY <2>3, ReturnedDelivers DEF CudaReturned
  <2>4. QED BY <1>15, <2>1, <2>2, <2>3 DEF Unregister
<1>16. QED
  BY <1>1, <1>2, <1>3, <1>4, <1>5, <1>6, <1>7, <1>8, <1>9, <1>10, <1>11,
     <1>12, <1>13, <1>14, <1>15 DEF Server

LEMMA ChannelDelivers ==
  ASSUME DeliverInv,
         \/ StartScan
         \/ \E c \in Channels : Stop(c) \/ Leave(c)
  PROVE  Delivered'
<1> USE DeliverParts DEF server, usrps, memory, cudaVars, driverVars
<1>1. CASE StartScan
  <2> USE <1>1 DEF StartScan
  <2>1. Recordings' /\ AnswersOK' BY DEF Recordings, Received, AnswersOK
  <2>2. LateCommands' /\ ReadyOK' BY DEF LateCommands, ReadyOK
  <2>3. RxMemory' /\ Filtering' /\ FilteredOK' /\ SentOK'
    BY DEF RxMemory, Filtering, FilteredOK, SentOK, Fresh, LeaveStages
  <2>4. QED BY <2>1, <2>2, <2>3 DEF Delivered
<1>2. ASSUME NEW c \in Channels, Stop(c) PROVE Delivered'
  <2> USE <1>2 DEF Stop
  <2>1. Recordings' /\ AnswersOK' /\ LateCommands' /\ ReadyOK'
    BY DriversKept DEF Received
  <2>2. RxMemory' /\ Filtering' /\ FilteredOK' /\ SentOK'
    BY SamplesKept DEF Fresh, Collecting, Begun
  <2>3. QED BY <2>1, <2>2 DEF Delivered
<1>3. ASSUME NEW c \in Channels, Leave(c) PROVE Delivered'
  <2> USE <1>3 DEF Leave
  <2>1. ~replied BY DEF CudaOrder
  <2>2. Recordings' /\ AnswersOK' /\ LateCommands' /\ ReadyOK'
    BY DriversKept DEF Received
  <2>3. RxMemory' /\ Filtering' /\ FilteredOK' /\ SentOK'
    BY <2>1, SamplesKept DEF Fresh, Collecting, Begun
  <2>4. QED BY <2>2, <2>3 DEF Delivered
<1>4. QED BY <1>1, <1>2, <1>3

LEMMA ConnectionDelivers ==
  ASSUME DeliverInv, NEW u \in Usrps, Lose(u) \/ Reconnect(u)
  PROVE  Delivered'
<1> USE DeliverParts DEF radar, cudaVars, driverVars
<1>1. CASE Lose(u)
  <2> USE <1>1 DEF Lose
  <2>1. /\ inService' \subseteq inService /\ (srv' = srv \/ srv' = "dead")
        /\ srv' # "dead" => inService' = inService \ {u}
    OBVIOUS
  <2>2. Recordings' BY <2>1, RecordingsKept DEF Received
  <2>3. \A v \in Usrps : v # u => shmRx'[v] = shmRx[v]
    BY DEF TypeMemory, memory
  <2>4. AnswersOK' BY <2>1, <2>3 DEF AnswersOK, TypeServer
  <2>5. ReadyOK' BY DEF ReadyOK
  <2>6. LateCommands'
    <3> SUFFICES ASSUME srv' # "dead", NEW v \in Usrps \ inService',
                        stopped[v] # "gone", NEW i \in 1 .. Len(queue[v]),
                        queue[v][i].op = "READY_DATA"
                 PROVE  \/ v \notin heard[queue[v][i].swing]
                        \/ srv = "ready" /\ queue[v][i].swing = activeSwing
      BY <2>1 DEF LateCommands
    <3>1. CASE v # u BY <2>1, <3>1 DEF LateCommands
    <3>2. CASE v = u
      <4>1. Works(u) /\ Shape(u) BY <3>2 DEF Works, UsrpOrder
      <4>2. queue[u][i].swing = activeSwing
        BY <3>2, <4>1 DEF CommandsOK
      <4>3. srv = "ready"
        BY <3>2, <4>1 DEF Shape, Quiet, Holds, Pulsing, Asked
      <4>4. QED BY <3>2, <4>2, <4>3
    <3>3. QED BY <3>1, <3>2
  <2>7. \A s \in Swing : \A v \in heard[s] :
          \/ shmRx'[v][s] = shmRx[v][s]
          \/ shmRx'[v][s] = None /\ (Cleared(v)' \/ srv' = "dead")
    BY DEF TypeMemory, TypeServer, memory, Cleared
  <2>8. ~replied /\ (Begun <=> Begun')
    BY <2>1 DEF CudaOrder, UsrpStages, Begun
  <2>9. Fresh' => Fresh BY <2>1 DEF Fresh, Collecting, LeaveStages
  <2>10. RxMemory' /\ Filtering' /\ FilteredOK' /\ SentOK'
    BY <2>1, <2>7, <2>8, <2>9, SamplesKept DEF Fresh, LeaveStages
  <2>11. QED BY <2>2, <2>4, <2>5, <2>6, <2>10 DEF Delivered
<1>2. CASE Reconnect(u)
  <2> USE <1>2 DEF Reconnect, server, memory
  <2>1. Recordings' /\ AnswersOK' BY DEF Recordings, Received, AnswersOK
  <2>2. LateCommands' /\ ReadyOK' BY DEF LateCommands, ReadyOK
  <2>3. RxMemory' /\ Filtering' /\ FilteredOK' /\ SentOK'
    BY DEF RxMemory, Filtering, FilteredOK, SentOK, Fresh
  <2>4. QED BY <2>1, <2>2, <2>3 DEF Delivered
<1>3. QED BY <1>1, <1>2

LEMMA StutterDelivers ==
  ASSUME DeliverInv, UNCHANGED vars
  PROVE  Delivered'
<1> USE DeliverParts DEF vars, server, radar, usrps, memory, cudaVars,
                         driverVars
<1>1. Recordings' /\ AnswersOK' /\ LateCommands' /\ ReadyOK'
  BY DriversKept DEF Received
<1>2. RxMemory' /\ Filtering' /\ FilteredOK' /\ SentOK'
  BY SamplesKept DEF Fresh, Collecting, Begun
<1>3. QED BY <1>1, <1>2 DEF Delivered

(* GET_DATA sends the samples recorded in the period they are asked for,   *)
(* filtered with the sequences transmitted in it, for every channel that   *)
(* still asks: never those of another period, whichever drivers hang, fail *)
(* or end meanwhile, and though there is one buffer of filtered samples.   *)
THEOREM OwnRecording == Spec => []OwnSamples
<1>1. Init => DeliverInv BY TransmitInvInit, DeliverInit DEF DeliverInv
<1>2. DeliverInv /\ [Next]_vars => DeliverInv'
  <2> SUFFICES ASSUME DeliverInv, [Next]_vars PROVE DeliverInv' OBVIOUS
  <2>1. TransmitInv' BY TransmitStep DEF DeliverInv
  <2>2. Delivered'
    BY CudaDelivers, UsrpDelivers, ServerDelivers, ChannelDelivers,
       ConnectionDelivers, StutterDelivers DEF Next
  <2>3. QED BY <2>1, <2>2 DEF DeliverInv
<1>3. DeliverInv => OwnSamples
  <2> SUFFICES ASSUME DeliverInv, srv = "got" PROVE OwnSamples
    BY DEF OwnSamples
  <2>1. Own(data) BY DeliverParts DEF SentOK
  <2>2. QED BY <2>1 DEF Own, Fits, Recorded, OwnSamples
<1>4. QED BY <1>1, <1>2, <1>3, PTL DEF Spec
=============================================================================
