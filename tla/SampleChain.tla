---------------------------- MODULE SampleChain ----------------------------
(***************************************************************************)
(* The way of a sequence from the server to the antennas and of the        *)
(* samples back: the CUDA driver and the USRP drivers of one radar, driven *)
(* by the commands trigger_next_swing and initialize_channel of            *)
(* usrp_server.py send, in the order in which they send them.              *)
(*                                                                         *)
(* RadarServer looks at the same commands from the other side: it has the  *)
(* states of the channels, the control programs and the threads, and takes *)
(* the drivers for granted.  Here the drivers do their work while the      *)
(* server goes on, fail, and lag behind, and the server is reduced to the  *)
(* commands: all channels of the radar start a scan together, and may      *)
(* leave it early.                                                         *)
(***************************************************************************)
EXTENDS CudaDriver, UsrpDriver, FiniteSets

CONSTANTS
  ScanLen,     \* the number of periods of a scan
  Local,       \* whether the radar is radar 0, on the server's computer
  MayStop,     \* the channels that may send SET_INACTIVE within a scan
  MayLeave     \* the channels that may quit within a scan

ASSUME ScanAssumption == ScanLen \in Nat \ {0, 1}
ASSUME LocalAssumption == Local \in BOOLEAN
ASSUME LeaveAssumption == MayStop \subseteq Channels /\ MayLeave \subseteq Channels

VARIABLES
  srv,          \* the command the server is at
  calling,      \* whether it waits for the answers
  todo,         \* the channels a loop has left
  activeSwing,  \* swingManager.activeSwing
  fire,         \* transmitted in this period: transmittingChannelAvailable
                \* and trigger_next_period
  invalid,      \* processing_swing_invalid
  chans,        \* RHM.channels
  position,     \* the period of the scan the active swing is for; ScanLen
                \* when its last period has been transmitted
  number,       \* per swing, the period it holds
  mix,          \* current_mixing_freq
  inService,    \* socks of the USRP manager
  heard,        \* history: the USRPs that answered the READY_DATA of a swing
  erred,        \* history: those of them that reported an error
  quit          \* history: the channels that stopped within a scan

server == <<srv, calling, todo>>
radar  == <<activeSwing, fire, invalid, chans, position, number, mix>>
usrps  == <<inService, heard, erred>>
memory == <<shmTx, shmRx>>
vars   == <<server, radar, usrps, quit, memory, cudaVars, driverVars>>

processingSwing == 1 - activeSwing

PeriodStages == {"setup", "trigger", "get", "got", "prepare", "generate",
                 "ready", "switch"}
Stage == PeriodStages \cup
         {"idle", "setupCuda", "initAdd", "initGenerate", "process",
          "leave0", "leave1", "dead"}

TypeServer ==
  /\ srv \in Stage /\ calling \in BOOLEAN /\ todo \subseteq Channels
  /\ activeSwing \in Swing /\ fire \in BOOLEAN /\ invalid \in BOOLEAN
  /\ chans \subseteq Channels /\ position \in 0 .. ScanLen + 1
  /\ number \in [Swing -> Number] /\ mix \in Freqs
  /\ inService \subseteq Usrps
  /\ heard \in [Swing -> SUBSET Usrps] /\ erred \in [Swing -> SUBSET Usrps]
  /\ quit \subseteq Channels

TypeOK == TypeMemory /\ TypeCuda /\ TypeDriver /\ TypeServer

Init ==
  /\ InitMemory /\ InitCuda /\ InitDriver
  /\ srv = "idle" /\ calling = FALSE /\ todo = {}
  /\ activeSwing = 0 /\ fire = FALSE /\ invalid = FALSE
  /\ chans = {} /\ position = 0 /\ number = [s \in Swing |-> None]
  /\ mix = (CHOOSE f \in Freqs : TRUE) /\ inService = Usrps
  /\ heard = [s \in Swing |-> {}] /\ erred = [s \in Swing |-> {}]
  /\ quit = {}
----------------------------------------------------------------------------
(* Calls.                                                                  *)

(* A command to the CUDA driver, and its client_return.  NextOf sends one  *)
(* for a channel of a loop.                                                *)
Transmit(req) ==
  /\ calling' = TRUE /\ request' = req
  /\ UNCHANGED <<srv, radar, usrps, quit, memory, replied, cuda, job,
                 sequences, mixing, filters, bb, data, driverVars>>

CallCuda(stage, req) ==
  srv = stage /\ ~calling /\ Transmit(req) /\ UNCHANGED todo

NextOf(stage, req) ==
  /\ srv = stage /\ ~calling
  /\ \E c \in todo : todo' = todo \ {c} /\ Transmit(req[c])

CudaReturned(stage, next) ==
  /\ srv = stage /\ calling /\ replied
  /\ replied' = FALSE /\ calling' = FALSE /\ srv' = next
  /\ UNCHANGED <<todo, radar, usrps, quit, memory, request, cuda, job,
                 sequences, mixing, filters, bb, data, driverVars>>

Adding(c, s, n) == [NoRequest EXCEPT !.op = "ADD_CHANNEL", !.swing = s,
                                     !.channels = {c}, !.sequence = n]
Removing(c, s)  == [NoRequest EXCEPT !.op = "REMOVE_CHANNEL", !.swing = s,
                                     !.channels = {c}]
Generating(s)   == [NoRequest EXCEPT !.op = "GENERATE_PULSE", !.swing = s,
                                     !.mix = mix]

(* A command to the USRPs in service.                                      *)
CallUsrps(stage, op) ==
  /\ srv = stage /\ ~calling /\ calling' = TRUE
  /\ queue' = [u \in Usrps |->
       IF u \in inService
       THEN Append(queue[u], [op |-> op, swing |-> activeSwing, mix |-> mix,
                              number |-> number[activeSwing]])
       ELSE queue[u]]
  /\ answer' = [u \in Usrps |-> "none"]
  /\ UNCHANGED <<srv, todo, radar, usrps, quit, memory, cudaVars, at, state,
                 txSamples, rxBuffer, rxError, stopped, faults>>

(* Mutant: one answer is enough.                                           *)
BugAllAnswered == \E u \in inService : answer[u] # "none"

AllAnswered == \A u \in inService : answer[u] # "none"

UsrpsReturned(stage, next) ==
  /\ srv = stage /\ calling /\ AllAnswered
  /\ calling' = FALSE /\ srv' = next
  /\ UNCHANGED <<todo, radar, quit, memory, cudaVars, driverVars>>

(* Mutant: only the first command is guarded against silence.              *)
BugSilent(u) == stopped[u] # "no" /\ srv = "trigger"

Silent(u) == stopped[u] # "no"

(* An answer that does not come in time, or a connection that was reset:   *)
(* the USRP is taken out of service, the server exits when it was the last *)
(* one, and SETUP is not guarded against it.  The timeout of the sockets   *)
(* is longer than a period, so only a driver that hangs is too late.       *)
(* remove_sock fills the segments of its antennas with zeros, if they are  *)
(* on this computer.                                                       *)
Lose(u) ==
  /\ calling /\ srv \in {"setup", "trigger", "ready"}
  /\ u \in inService /\ answer[u] = "none" /\ Silent(u)
  /\ IF srv = "setup"
     THEN srv' = "dead" /\ UNCHANGED <<inService, memory>>
     ELSE /\ srv' = IF inService = {u} THEN "dead" ELSE srv
          /\ inService' = inService \ {u}
          /\ IF Local
             THEN /\ shmTx' = [shmTx EXCEPT ![u] = [s \in Swing |-> Silence]]
                  /\ shmRx' = [shmRx EXCEPT ![u] = [s \in Swing |-> None]]
             ELSE UNCHANGED memory
  /\ UNCHANGED <<calling, todo, radar, heard, erred, quit, cudaVars,
                 driverVars>>

(* restore_lost_connections, between scans.                                *)
Reconnect(u) ==
  /\ srv = "idle" /\ chans = {} /\ u \notin inService
  /\ stopped[u] = "no" /\ at[u] = "wait" /\ queue[u] = <<>>
  /\ inService' = inService \cup {u}
  /\ UNCHANGED <<server, radar, heard, erred, quit, memory, cudaVars,
                 driverVars>>
----------------------------------------------------------------------------
(* The start of a scan: SET_ACTIVE chooses the mixing frequency, the first *)
(* SET_PARAMETERS sends CUDA_SETUP, initialize_channel adds the channels   *)
(* and generates the first period.  No other channel is on the radar.      *)
Latest == IF number[0] > number[1] THEN number[0] ELSE number[1]

StartScan ==
  /\ srv = "idle" /\ chans = {}
  /\ Latest + ScanLen <= MaxPeriods
  /\ \E C \in (SUBSET Channels) \ {{}} :
       chans' = C /\ todo' = C /\ quit' = quit \ C
  /\ mix' \in Freqs
  /\ number' = [number EXCEPT ![activeSwing] = Latest + 1]
  /\ position' = 0 /\ srv' = "setupCuda"
  /\ UNCHANGED <<calling, activeSwing, fire, invalid, usrps, memory, cudaVars,
                 driverVars>>

SetupForScan ==
  \/ CallCuda("setupCuda", [NoRequest EXCEPT !.op = "SETUP", !.mix = mix])
  \/ CudaReturned("setupCuda", "initAdd")

(* Mutant: the swing that is prepared during a period.                     *)
BugFirstSwing == processingSwing

FirstSwing == activeSwing

AddFirst ==
  \/ NextOf("initAdd", [c \in Channels |->
            Adding(c, FirstSwing, number[activeSwing])])
  \/ CudaReturned("initAdd", IF todo = {} THEN "initGenerate" ELSE "initAdd")

GenerateFirst ==
  \/ CallCuda("initGenerate", Generating(FirstSwing))
  \/ CudaReturned("initGenerate", "idle")
----------------------------------------------------------------------------
(* trigger_next_swing.                                                     *)

(* Whether there is a channel that is not in its last period.              *)
Transmitting == position < ScanLen

(* A period too close to the end of the scan is not triggered.             *)
Trigger ==
  /\ srv = "idle" /\ chans # {}
  /\ \E inTime \in BOOLEAN : fire' = (Transmitting /\ inTime)
  /\ srv' = IF fire' THEN "setup" ELSE "get"
  /\ UNCHANGED <<calling, todo, activeSwing, invalid, chans, position, number,
                 mix, usrps, quit, memory, cudaVars, driverVars>>

Setup ==
  \/ CallUsrps("setup", "SETUP")
  \/ UsrpsReturned("setup", "trigger") /\ UNCHANGED usrps

TriggerPulse ==
  \/ CallUsrps("trigger", "TRIGGER_PULSE")
  \/ UsrpsReturned("trigger", "get") /\ UNCHANGED usrps

(* The samples of the period before, unless there is none or it was not    *)
(* triggered.                                                              *)
Collecting == position > 0 /\ ~invalid

GetSamples ==
  \/ Collecting /\ CallCuda("get", [NoRequest EXCEPT !.op = "GET_DATA",
                              !.swing = processingSwing, !.channels = chans])
  \/ CudaReturned("get", "got")

(* Then next_period_RHM, and the channels of the period after this one.    *)
More == position + 1 < ScanLen

Prepare ==
  /\ srv = "got" \/ (srv = "get" /\ ~Collecting)
  /\ srv' = "prepare" /\ todo' = chans /\ invalid' = FALSE
  /\ number' = IF More
               THEN [number EXCEPT ![processingSwing] = number[activeSwing] + 1]
               ELSE number
  /\ UNCHANGED <<calling, activeSwing, fire, chans, position, mix, usrps,
                 quit, memory, cudaVars, driverVars>>

(* The loop over the channels, with a copy of the list: a channel that     *)
(* has stopped meanwhile is skipped if it says so in time.                 *)
PrepareChannel ==
  \/ NextOf("prepare", [c \in Channels |->
       IF More THEN Adding(c, processingSwing, number[processingSwing])
               ELSE Removing(c, processingSwing)])
  \/ CudaReturned("prepare", "prepare")

SkipStopped ==
  /\ srv = "prepare" /\ ~calling /\ More
  /\ \E c \in todo \ chans : todo' = todo \ {c}
  /\ UNCHANGED <<srv, calling, radar, usrps, quit, memory, cudaVars,
                 driverVars>>

(* After its last period a channel is no longer one of the radar's.        *)
EndPrepare ==
  /\ srv = "prepare" /\ ~calling /\ todo = {}
  /\ chans' = IF position = ScanLen THEN {} ELSE chans
  /\ srv' = IF More THEN "generate" ELSE IF fire THEN "ready" ELSE "switch"
  /\ UNCHANGED <<calling, todo, activeSwing, fire, invalid, position, number,
                 mix, usrps, quit, memory, cudaVars, driverVars>>

Generate ==
  \/ CallCuda("generate", Generating(processingSwing))
  \/ CudaReturned("generate", IF fire THEN "ready" ELSE "switch")

ReadyData ==
  \/ CallUsrps("ready", "READY_DATA")
  \/ /\ UsrpsReturned("ready", "switch")
     /\ heard' = [heard EXCEPT ![activeSwing] = inService]
     /\ erred' = [erred EXCEPT ![activeSwing] =
                    {u \in inService : answer[u] = "error"}]
     /\ UNCHANGED inService

(* Mutant: without the modulo.                                             *)
BugNextSwing(s) == s + 1

NextSwing(s) == (s + 1) % 2

(* switch_swings; an untriggered period is noted for the next call.        *)
Switch ==
  /\ srv = "switch"
  /\ activeSwing' = NextSwing(activeSwing) /\ position' = position + 1
  /\ invalid' = (Transmitting /\ ~fire)
  /\ srv' = IF fire /\ chans # {} THEN "process" ELSE "idle"
  /\ UNCHANGED <<calling, todo, fire, chans, number, mix, usrps, quit, memory,
                 cudaVars, driverVars>>

Process ==
  \/ CallCuda("process", [NoRequest EXCEPT !.op = "PROCESS",
                                           !.swing = processingSwing])
  \/ CudaReturned("process", "idle")
----------------------------------------------------------------------------
(* Channels that do not finish their scan.  SET_INACTIVE takes a channel   *)
(* off the lists and says nothing to the CUDA driver; the last one goes    *)
(* between two periods.                                                    *)
Stop(c) ==
  /\ c \in chans \cap MayStop
  /\ \/ srv = "idle"
     \/ chans # {c} /\ srv \in PeriodStages \cup {"process"}
  /\ chans' = chans \ {c} /\ quit' = quit \cup {c}
  /\ invalid' = (invalid /\ chans' # {})
  /\ UNCHANGED <<server, activeSwing, fire, position, number, mix, usrps,
                 memory, cudaVars, driverVars>>

(* unregister_channel_from_HardwareManager waits until no trigger runs and *)
(* removes the channel from both swings.                                   *)
Leave(c) ==
  /\ srv = "idle" /\ c \in chans \cap MayLeave
  /\ chans' = chans \ {c} /\ todo' = {c} /\ srv' = "leave0"
  /\ invalid' = (invalid /\ chans' # {})
  /\ UNCHANGED <<calling, activeSwing, fire, position, number, mix, usrps,
                 quit, memory, cudaVars, driverVars>>

Unregister ==
  \/ \E c \in todo : CallCuda("leave0", Removing(c, 0))
  \/ CudaReturned("leave0", "leave1")
  \/ NextOf("leave1", [c \in Channels |-> Removing(c, 1)])
  \/ CudaReturned("leave1", "idle")
----------------------------------------------------------------------------
Server ==
  \/ SetupForScan \/ AddFirst \/ GenerateFirst
  \/ Trigger \/ Setup \/ TriggerPulse \/ GetSamples
  \/ Prepare \/ PrepareChannel \/ SkipStopped \/ EndPrepare \/ Generate
  \/ ReadyData \/ Switch \/ Process \/ Unregister

CudaStep == Cuda /\ UNCHANGED <<server, radar, usrps, quit, driverVars>>

UsrpStep(u) ==
  (Work(u) \/ Hang(u) \/ Resume(u) \/ ExitDriver(u))
    /\ UNCHANGED <<server, radar, usrps, quit, cudaVars>>

Next ==
  \/ Server \/ StartScan \/ CudaStep
  \/ \E c \in Channels : Stop(c) \/ Leave(c)
  \/ \E u \in Usrps : UsrpStep(u) \/ Lose(u) \/ Reconnect(u)

(* The processes run, and the timeout of a driver that hangs runs out.  No *)
(* fairness for a connection that was closed: recv_dtype may read from it  *)
(* for ever (UsrpFleet).                                                   *)
Fairness ==
  /\ WF_vars(Server) /\ WF_vars(CudaStep)
  /\ \A u \in Usrps :
       /\ WF_vars(Work(u)
                  /\ UNCHANGED <<server, radar, usrps, quit, cudaVars>>)
       /\ WF_vars(Lose(u) /\ stopped[u] = "hung")

Spec == Init /\ [][Next]_vars /\ Fairness
----------------------------------------------------------------------------
(* The samples GET_DATA sends for a period are the ones recorded in it,    *)
(* filtered with the sequences it transmitted, for every channel that      *)
(* still asks; a USRP that reported an error, ended or was taken out of    *)
(* service meanwhile may deliver zeros, never the samples of another       *)
(* period.  The driver has one buffer of filtered samples and the server   *)
(* asks for a swing one period after PROCESS was started, while drivers    *)
(* lag behind and fail.                                                    *)
OwnSamples ==
  srv = "got" =>
    LET p == processingSwing IN
    /\ data.taps.mix = mix
    /\ \A c \in chans : data.taps.seq[c] = number[p]
    /\ \A u \in heard[p] :
         \/ data.samples[u] = number[p] /\ u \notin erred[p]
         \/ /\ data.samples[u] = None
            /\ u \in erred[p] \/ stopped[u] = "gone" \/ u \notin inService

(* A USRP transmits the sequences of the period it was triggered for, made *)
(* for the frequency it is tuned to.  The waveform goes through the shared *)
(* memory and a copy in the driver while the next one is being made.       *)
TransmitsOwn ==
  \A u \in inService : at[u] = "pulse" /\ stopped[u] # "gone" =>
    LET onAir == txSamples[u] IN
    /\ onAir.tuned = mix /\ onAir.wave.mix = mix
    /\ \A c \in chans : onAir.wave.seq[c] = Doing(u).number

(* The two drivers are never at the same segment at the same time, though  *)
(* the semaphores that should see to that do not work: the order of the    *)
(* commands does it, for every USRP in service.                            *)
NoOverlap ==
  \A u \in inService : stopped[u] # "gone" =>
    /\ ~(cuda = "generate" /\ at[u] = "setup" /\ Doing(u).swing = job)
    /\ ~(cuda = "process" /\ at[u] = "ready" /\ Doing(u).swing = job)

(* Between two periods the CUDA driver has no sequence of a channel that   *)
(* ended its scan or left.  The channels are removed from one swing at a   *)
(* time, in different calls of trigger_next_swing.  A channel that was     *)
(* stopped by SET_INACTIVE is left behind.                                 *)
NoLeftOvers ==
  srv = "idle" =>
    \A s \in Swing : \A c \in Channels :
      sequences[s][c] # None => c \in chans \cup quit

(* The CUDA driver is never asked for the samples of a channel it does not *)
(* know: it would take what the server sends next for commands.            *)
CudaInStep == cuda # "lost"

(* Every period, start of a scan and departure comes to an end, unless the *)
(* server ends or the connection of a driver in service was closed.        *)
PeriodsGoOn ==
  srv # "idle" ~> \/ srv \in {"idle", "dead"}
                 \/ \E u \in inService : stopped[u] = "gone"
=============================================================================
