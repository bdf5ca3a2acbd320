---------------------------- MODULE RadarServer ----------------------------
(***************************************************************************)
(* The swing pipeline of usrp_server.py.                                   *)
(*                                                                         *)
(* One thread, radar_main_control_loop, drives the hardware: it initialises*)
(* new channels and, whenever every channel is in CS_TRIGGER, runs         *)
(* trigger_next_swing, which transmits the period prepared on the active   *)
(* swing while it collects the period received on the other swing and      *)
(* prepares the next one there.  Every control program has a thread of its *)
(* own, a RadarChannelHandler, that runs one command at a time.  The       *)
(* threads share the lists, flags and channel states below, most of them   *)
(* without a lock.                                                         *)
(*                                                                         *)
(* The CUDA and USRP drivers appear as the data the server moves through   *)
(* them: for each swing the sequences added, the transmit buffer generated *)
(* from them and the samples received.  The order in which a control       *)
(* program sends its commands is that of the site library, which is not    *)
(* part of the repository.                                                 *)
(***************************************************************************)
EXTENDS Integers, Sequences, FiniteSets, SequencesExt, ScanManager

CONSTANTS
  N_RADARs,     \* the number of radars
  Channels,     \* the control programs, one channel each
  Rnum,         \* the radar of a channel
  ScanLen,      \* the number of beams in the scans of a channel
  StartPeriods, \* the start_period values a SET_ACTIVE may carry
  Par,          \* the parameters that have to agree between channels
  MaxScans,     \* bound: SET_ACTIVE commands of one control program
  MayLeave,     \* the channels that may quit, disconnect or time out
  MayStop,      \* the channels that may send SET_INACTIVE within a scan
  LatePeriods,  \* the periods that may find no time for a sequence, so
                \* that nSequences_per_period comes out as 0
  Uneven,       \* whether a period may have fewer sequences than the one
                \* before: the number follows from the time that is left
  Preemptible,  \* whether a handler thread may run between the two steps
                \* of an update the main thread makes of data they share
  InTime        \* whether every control program gets its parameters in
                \* before initialize_channel stops waiting for it

Radars == 0 .. N_RADARs - 1

ASSUME RadarsAssumption  == N_RADARs \in Nat \ {0}
ASSUME ChannelAssumption ==
  /\ IsFiniteSet(Channels)
  /\ {"free", "main", "lost", "none"} \cap Channels = {}
  /\ Rnum \in [Channels -> Radars]
ASSUME ScanAssumption ==
  /\ ScanLen \in [Channels -> Nat \ {0}]
  /\ StartPeriods \in [Channels -> SUBSET Nat]
  /\ \A c \in Channels : \A p \in StartPeriods[c] : p < ScanLen[c]
ASSUME ParAssumption == Par \in [Channels -> Nat]
ASSUME OptionAssumption ==
  /\ MaxScans \in Nat
  /\ MayLeave \subseteq Channels /\ MayStop \subseteq Channels
  /\ LatePeriods \subseteq Nat
  /\ Uneven \in BOOLEAN /\ Preemptible \in BOOLEAN /\ InTime \in BOOLEAN

None  == -1                     \* no period: an empty slot, a missing key
Label == Int                    \* a period index, or None
Swing == {0, 1}

(* The channel states.                                                     *)
INACTIVE      == "CS_INACTIVE"
READY         == "CS_READY"
TRIGGER       == "CS_TRIGGER"
PROCESSING    == "CS_PROCESSING"
SAMPLES_READY == "CS_SAMPLES_READY"
LAST_SWING    == "CS_LAST_SWING"
ChannelState  == {INACTIVE, READY, TRIGGER, PROCESSING, SAMPLES_READY,
                  LAST_SWING}

(* An entry of resultDict_list.  "data" is main_beamformed and "label" the *)
(* ctrlprm_dataqueue stored with it.  "swing", "of" and "fired" are not in *)
(* the code: they say for which swing and which period the entry was made  *)
(* and whether that swing was transmitted.                                 *)
Result == [swing : Swing, of : Label, fired : BOOLEAN, valid : BOOLEAN,
           data : Label, label : Label]

VARIABLES
  \* RadarHardwareManager
  main,             \* program counter of the main control loop
  fire,             \* trigger_next_period
  transmitting,     \* transmittingChannelAvailable
  todo,             \* channels the loops of the main thread have left
  adding,           \* the channel CUDA_ADD_CHANNEL is being sent for
  triggerRunning,   \* trigger_next_function_running
  activeSwing,      \* swingManager.activeSwing
  nextSwing,        \* swingManager.nextSwingToTrigger
  channels,         \* RHM.channels, all radars
  activeChannels,   \* RHM.active_channels, all radars
  newChannels,      \* RHM.newChannelList
  nRegistered,      \* nRegisteredChannels
  commonPar,        \* commonChannelParameter: {} or the common value
  radarActive,      \* radar_active
  lastPeriod,       \* last_period
  swingInvalid,     \* processing_swing_invalid
  setPar,           \* who holds set_par_semaphore: "free", "main", a
                    \* channel, or "lost" when nobody will release it
  nSetPar,          \* n_SetParameterHandlers_active
  pulseTimes,       \* usrpManager.pulse_times: the swing they belong to
  \* RadarChannelHandler
  pc,               \* where the control program and its handler are
  wait,             \* the swing a handler waits for
  state,            \* state
  nextState,        \* next_state
  triggered,        \* triggered_swing_list
  results,          \* resultDict_list
  sent,             \* the result a handler is sending
  sentTimes,        \* and the pulse times it sends with it
  scan,             \* scanManager
  payload,          \* ctrlprm_struct.payload: the period it describes
  active,           \* active
  left,             \* periods the control program has left in its scan
  scans,            \* SET_ACTIVE commands sent
  \* the drivers
  cudaSeq,          \* per swing, the sequences the CUDA driver holds
  txBuf,            \* per swing, the generated transmit buffer
  rx                \* per swing, what was on the air

rhm     == <<main, fire, transmitting, todo, adding, triggerRunning>>
swings  == <<activeSwing, nextSwing>>
lists   == <<channels, activeChannels, newChannels, nRegistered, commonPar>>
flags   == <<radarActive, lastPeriod, swingInvalid>>
lock    == <<setPar, nSetPar>>
handler == <<pc, wait, sent, sentTimes, left, scans>>
chan    == <<state, nextState, triggered, results, scan, payload, active>>
drivers == <<cudaSeq, txBuf, rx>>
vars    == <<rhm, swings, lists, flags, lock, pulseTimes, handler, chan,
             drivers>>

processingSwing == 1 - activeSwing

On(r) == {c \in channels : Rnum[c] = r}

(* Mutant: a radar in its last period is passed over.                      *)
BugActiveRadars == {r \in Radars : radarActive[r] /\ ~lastPeriod[r]}

ActiveRadars == {r \in Radars : radarActive[r]}
OnAir == {c \in channels : radarActive[Rnum[c]]}

(* f with value v for swing s of the members of S.                         *)
PutSwing(f, S, s, v) ==
  [x \in DOMAIN f |-> IF x \in S THEN [f[x] EXCEPT ![s] = v] ELSE f[x]]

(* update_ctrlprm_class("current") and ("next"): the control program's     *)
(* structure is overwritten with the parameters of a period.               *)
CurrentParameters(S) ==
  [c \in Channels |-> IF c \in S THEN scan[c].period ELSE payload[c]]

NextParameters(c) == [payload EXCEPT ![c] = NextPeriod(scan[c])]

----------------------------------------------------------------------------
(* The registration of channels, shared by the three places that remove    *)
(* one: quitting, SET_INACTIVE and the end of a scan.                      *)

(* nRegisteredChannels -= 1, and the reset when none is left.              *)
Deregister(gone) ==
  LET none == gone /\ nRegistered <= 1 IN
  /\ nRegistered' = IF none THEN 0 ELSE nRegistered - (IF gone THEN 1 ELSE 0)
  /\ commonPar'   = IF none THEN None ELSE commonPar

(* Mutant: every radar is switched off when one has lost its last channel. *)
BugRadarActiveWithout(c, gone) ==
  [r \in Radars |-> radarActive[r] /\ ~(gone /\ nRegistered <= 1)
                     /\ On(Rnum[c]) \ {c} # {}]

(* radar_active after c left (or was not in) RHM.channels.                 *)
RadarActiveWithout(c, gone) ==
  [r \in Radars |->
     /\ radarActive[r]
     /\ ~(gone /\ nRegistered <= 1)
     /\ (r = Rnum[c] => On(r) \ {c} # {})]

(* processing_swing_invalid when the last registered channel has left.     *)
SwingInvalidWithout(gone) ==
  [r \in Radars |-> swingInvalid[r] /\ ~(gone /\ nRegistered <= 1)]
----------------------------------------------------------------------------
Init ==
  /\ main = "loop" /\ fire = FALSE /\ transmitting = [r \in Radars |-> FALSE]
  /\ todo = {} /\ adding = "none" /\ triggerRunning = FALSE
  /\ activeSwing = 0 /\ nextSwing = 0
  /\ channels = {} /\ activeChannels = {} /\ newChannels = {}
  /\ nRegistered = 0 /\ commonPar = None
  /\ radarActive = [r \in Radars |-> FALSE]
  /\ lastPeriod = [r \in Radars |-> FALSE]
  /\ swingInvalid = [r \in Radars |-> FALSE]
  /\ setPar = "free" /\ nSetPar = 0
  /\ pulseTimes = [r \in Radars |-> None]
  /\ pc = [c \in Channels |-> "idle"]
  /\ wait = [c \in Channels |-> 0]
  /\ state = [c \in Channels |-> [s \in Swing |-> INACTIVE]]
  /\ nextState = [c \in Channels |-> [s \in Swing |-> INACTIVE]]
  /\ triggered = [c \in Channels |-> <<>>]
  /\ results = [c \in Channels |-> <<>>]
  /\ sent = [c \in Channels |->
                [swing |-> 0, of |-> None, fired |-> FALSE, valid |-> FALSE,
                 data |-> None, label |-> None]]
  /\ sentTimes = [c \in Channels |-> None]
  /\ scan = [c \in Channels |-> NoScan]
  /\ payload = [c \in Channels |-> None]
  /\ active = [c \in Channels |-> FALSE]
  /\ left = [c \in Channels |-> 0]
  /\ scans = [c \in Channels |-> 0]
  /\ cudaSeq = [s \in Swing |-> [c \in Channels |-> None]]
  /\ txBuf = [s \in Swing |-> [c \in Channels |-> None]]
  /\ rx = [s \in Swing |-> [c \in Channels |-> None]]
----------------------------------------------------------------------------
(* The main thread between two triggers: radar_main_control_loop and       *)
(* initialize_channel.                                                     *)

(* Mutant: only programs with an active channel are counted.               *)
BugControlPrograms == {c \in Channels : active[c]}

(* Control programs connected to the server.  One that has used up its     *)
(* scans is taken to have gone home.                                       *)
ControlPrograms ==
  {c \in Channels : pc[c] # "gone" /\ ~(pc[c] = "idle" /\ scans[c] = MaxScans)}

NoticeNew ==
  /\ main = "loop" /\ newChannels # {}
  /\ main' = "awaitActive" /\ todo' = activeChannels
  /\ UNCHANGED <<fire, transmitting, adding, triggerRunning, swings, lists,
                 flags, lock, pulseTimes, handler, chan, drivers>>

NothingNew ==
  /\ main = "loop" /\ newChannels = {}
  /\ main' = "check"
  /\ UNCHANGED <<fire, transmitting, todo, adding, triggerRunning, swings,
                 lists, flags, lock, pulseTimes, handler, chan, drivers>>

(* An active channel is waited for until it is registered or no longer     *)
(* active.                                                                 *)
AwaitActive(c) ==
  /\ main = "awaitActive" /\ c \in todo
  /\ c \in channels \cup newChannels \/ c \notin activeChannels
  /\ todo' = todo \ {c}
  /\ UNCHANGED <<main, fire, transmitting, adding, triggerRunning, swings,
                 lists, flags, lock, pulseTimes, handler, chan, drivers>>

AwaitSetPar ==
  /\ main = "awaitActive" /\ todo = {} /\ nSetPar = 0
  /\ main' = "initialize"
  /\ UNCHANGED <<fire, transmitting, todo, adding, triggerRunning, swings,
                 lists, flags, lock, pulseTimes, handler, chan, drivers>>

(* The first half of initialize_channel: set_par_semaphore, the copy of    *)
(* newChannelList, _calc_period_details (a KeyError without common         *)
(* parameters) and a CUDA_ADD_CHANNEL of the current sequence.             *)
InitStart ==
  /\ main = "initialize" /\ setPar = "free"
  /\ InTime => Cardinality(ControlPrograms)
                 <= Cardinality(channels) + Cardinality(newChannels)
  /\ setPar' = "main"
  /\ IF commonPar = None
     THEN main' = "crashed" /\ UNCHANGED <<todo, payload, cudaSeq>>
     ELSE /\ main' = "initSend" /\ todo' = newChannels
          /\ payload' = CurrentParameters(newChannels)
          /\ cudaSeq' = [cudaSeq EXCEPT ![activeSwing] = [c \in Channels |->
               IF c \in newChannels THEN scan[c].period
                                    ELSE cudaSeq[activeSwing][c]]]
  /\ UNCHANGED <<fire, transmitting, adding, triggerRunning, swings, lists,
                 flags, nSetPar, pulseTimes, handler, state, nextState,
                 triggered, results, scan, active, txBuf, rx>>

(* Mutant: the buffers of the other swing are written.                     *)
BugGenerated(s, R) ==
  [txBuf EXCEPT ![1 - s] = [c \in Channels |->
     IF Rnum[c] \in R THEN cudaSeq[s][c] ELSE txBuf[1 - s][c]]]

(* CUDA_GENERATE: the transmit buffers of a swing, for the given radars.   *)
Generated(s, R) ==
  [txBuf EXCEPT ![s] = [c \in Channels |->
     IF Rnum[c] \in R THEN cudaSeq[s][c] ELSE txBuf[s][c]]]

(* The second half: the states, the registration in RHM.channels, the      *)
(* removal from newChannelList (a ValueError for a channel that has left   *)
(* it) and CUDA_GENERATE.                                                  *)
InitEnd ==
  /\ main = "initSend"
  /\ IF todo \subseteq newChannels
     THEN /\ main' = "check" /\ todo' = {} /\ setPar' = "free"
          /\ channels' = channels \cup todo
          /\ newChannels' = newChannels \ todo
          /\ state' = PutSwing(state,
                        {c \in todo : state[c][activeSwing] = INACTIVE},
                        activeSwing, READY)
          /\ txBuf' = Generated(activeSwing, ActiveRadars)
     ELSE main' = "crashed"
          /\ UNCHANGED <<todo, setPar, channels, newChannels, state, txBuf>>
  /\ UNCHANGED <<fire, transmitting, adding, triggerRunning, swings,
                 activeChannels, nRegistered, commonPar, flags, nSetPar,
                 pulseTimes, handler, nextState, triggered, results, scan,
                 payload, active, cudaSeq, rx>>

ActiveStates == {state[c][activeSwing] : c \in channels}

(* Mutant: one channel is enough.                                          *)
BugAllTriggered == TRIGGER \in ActiveStates

(* Every channel is in CS_TRIGGER, or out of it altogether.                *)
AllTriggered ==
  TRIGGER \in ActiveStates /\ ActiveStates \subseteq {TRIGGER, INACTIVE}

Arm ==
  /\ main = "check" /\ AllTriggered
  /\ main' = "armed"
  /\ UNCHANGED <<fire, transmitting, todo, adding, triggerRunning, swings,
                 lists, flags, lock, pulseTimes, handler, chan, drivers>>

LoopAgain ==
  /\ main = "check" /\ ~AllTriggered
  /\ main' = "loop"
  /\ UNCHANGED <<fire, transmitting, todo, adding, triggerRunning, swings,
                 lists, flags, lock, pulseTimes, handler, chan, drivers>>
----------------------------------------------------------------------------
(* trigger_next_swing, in the order of its blocks.                         *)

(* The period the next trigger transmits for a channel.                    *)
Upcoming(c) == IF scan[c].pre THEN scan[c].period ELSE NextPeriod(scan[c])

(* No time is computed for the last period.                                *)
LastForAll == ActiveRadars # {} /\ \A r \in ActiveRadars : lastPeriod[r]
MayBeLate == \E c \in OnAir : Upcoming(c) \in LatePeriods

Start ==
  /\ main = "armed" /\ triggerRunning' = TRUE
  /\ IF commonPar = None
     THEN main' = "crashed" /\ UNCHANGED fire
     ELSE /\ main' = "setup"
          /\ \/ fire' = TRUE
             \/ fire' = FALSE /\ ~LastForAll /\ MayBeLate
  /\ UNCHANGED <<transmitting, todo, adding, swings, lists, flags, lock,
                 pulseTimes, handler, chan, drivers>>

(* Radars with a channel that is not in its last period are set up, and    *)
(* nextSwingToTrigger moves on: inside the loop over the active radars, so *)
(* it stays where it is when no radar is active.                           *)
Setup ==
  /\ main = "setup"
  /\ transmitting' = [r \in Radars |->
       radarActive[r] /\ \E c \in On(r) : ~IsLastPeriod(scan[c])]
  /\ nextSwing' = IF ActiveRadars = {} THEN nextSwing ELSE processingSwing
  /\ main' = "fire"
  /\ UNCHANGED <<fire, todo, adding, triggerRunning, activeSwing, lists,
                 flags, lock, pulseTimes, handler, chan, drivers>>

(* An active radar without channels takes the one an earlier iteration     *)
(* left behind; there is none when nothing was set up and no radar before  *)
(* it has a channel.                                                       *)
NoChannelBound ==
  \E r \in ActiveRadars :
    /\ \A q \in Radars : ~transmitting[q]
    /\ \A q \in ActiveRadars : q <= r => On(q) = {}

(* The common parameters are read again for every transmission.            *)
ParametersLost ==
  commonPar = None /\ \E r \in Radars :
                        transmitting[r] /\ (fire \/ radarActive[r])

(* resultDict is stored and USRP_TRIGGER puts on the air what was          *)
(* generated for this swing.                                               *)
Fire ==
  LET onAir == {c \in OnAir : transmitting[Rnum[c]]}
      entry(c) == [swing |-> activeSwing, of |-> Upcoming(c), fired |-> fire,
                   valid |-> TRUE, data |-> None, label |-> None]
  IN
  /\ main = "fire"
  /\ IF NoChannelBound \/ ParametersLost
     THEN main' = "crashed" /\ UNCHANGED <<state, results, rx>>
     ELSE /\ main' = "collect"
          /\ results' = [c \in Channels |->
               IF c \in onAir /\ ~IsLastPeriod(scan[c])
               THEN <<entry(c)>> \o results[c] ELSE results[c]]
          /\ state' = PutSwing(state,
                        {c \in onAir : state[c][activeSwing] = TRIGGER},
                        activeSwing, PROCESSING)
          /\ rx' = IF fire
                   THEN [rx EXCEPT ![activeSwing] = [c \in Channels |->
                           IF c \in onAir THEN txBuf[activeSwing][c] ELSE @[c]]]
                   ELSE rx
  /\ UNCHANGED <<fire, transmitting, todo, adding, triggerRunning, swings,
                 lists, flags, lock, pulseTimes, handler, nextState, triggered,
                 scan, payload, active, cudaSeq, txBuf>>

Processing == {c \in channels : state[c][processingSwing] = PROCESSING}

(* The results of the other swing: flagged invalid when that swing was not *)
(* transmitted, and the received samples otherwise.                        *)
Collect ==
  LET due == {c \in Processing : radarActive[Rnum[c]]}
      filled(c) == IF swingInvalid[Rnum[c]]
                   THEN [Last(results[c]) EXCEPT !.valid = FALSE,
                                                 !.label = scan[c].period]
                   ELSE [Last(results[c]) EXCEPT !.data = rx[processingSwing][c],
                                                 !.label = scan[c].period]
  IN
  /\ main = "collect"
  /\ IF \E c \in due : results[c] = <<>>
     THEN main' = "crashed" /\ UNCHANGED <<results, payload, swingInvalid>>
     ELSE /\ main' = "finish"
          /\ results' = [c \in Channels |->
               IF c \in due THEN Append(Front(results[c]), filled(c))
                            ELSE results[c]]
          /\ payload' = CurrentParameters(due)
          /\ swingInvalid' = [r \in Radars |-> swingInvalid[r] /\ ~radarActive[r]]
  /\ UNCHANGED <<fire, transmitting, todo, adding, triggerRunning, swings,
                 lists, radarActive, lastPeriod, lock, pulseTimes, handler,
                 state, nextState, triggered, scan, active, drivers>>

(* next_period_RHM and the update of the states.                           *)
Finish ==
  LET over == [c \in Channels |-> IF c \in channels
                                  THEN PeriodFinished(scan[c]) ELSE scan[c]]
      post == {c \in Processing : over[c].post}
      last == {c \in Processing \ post : IsLastPeriod(over[c])}
  IN
  /\ main = "finish"
  /\ scan' = over
  /\ state' = PutSwing(PutSwing(state, Processing, processingSwing,
                                SAMPLES_READY),
                       post, activeSwing, INACTIVE)
  /\ nextState' =
       PutSwing(PutSwing(PutSwing(PutSwing(nextState,
         Processing, processingSwing, READY),
         last, processingSwing, LAST_SWING),
         post, processingSwing, INACTIVE),
         post, activeSwing, INACTIVE)
  /\ main' = "add" /\ todo' = channels
  /\ UNCHANGED <<fire, transmitting, adding, triggerRunning, swings, lists,
                 flags, lock, pulseTimes, handler, triggered, results, payload,
                 active, drivers>>

(* The loop that prepares the processing swing: a channel in its last      *)
(* period is taken off that swing, and unregistered once its scan is over. *)
AddLast(c) ==
  LET gone == scan[c].post /\ c \in channels IN
  /\ main = "add" /\ adding = "none" /\ c \in todo /\ IsLastPeriod(scan[c])
  /\ todo' = todo \ {c}
  /\ lastPeriod' = [lastPeriod EXCEPT ![Rnum[c]] = TRUE]
  /\ cudaSeq' = [cudaSeq EXCEPT ![processingSwing][c] = None]
  /\ IF scan[c].post
     THEN /\ channels' = channels \ {c}
          /\ activeChannels' = activeChannels \ {c}
          /\ Deregister(gone)
          /\ swingInvalid' = SwingInvalidWithout(gone)
          /\ radarActive' = RadarActiveWithout(c, gone)
     ELSE UNCHANGED <<channels, activeChannels, nRegistered, commonPar,
                      swingInvalid, radarActive>>
  /\ UNCHANGED <<main, fire, transmitting, adding, triggerRunning, swings,
                 newChannels, lock, pulseTimes, handler, chan, txBuf, rx>>

AddNotActive(c) ==
  /\ main = "add" /\ adding = "none" /\ c \in todo
  /\ ~IsLastPeriod(scan[c]) /\ ~active[c]
  /\ todo' = todo \ {c}
  /\ lastPeriod' = [lastPeriod EXCEPT ![Rnum[c]] = FALSE]
  /\ UNCHANGED <<main, fire, transmitting, adding, triggerRunning, swings,
                 lists, radarActive, swingInvalid, lock, pulseTimes, handler,
                 chan, drivers>>

(* get_next_sequence: the parameters of the next period are written to the *)
(* channel (a KeyError without common parameters), then a sequence is made *)
(* of them and sent to the CUDA driver.                                    *)
AddUpdate(c) ==
  /\ main = "add" /\ adding = "none" /\ c \in todo
  /\ ~IsLastPeriod(scan[c]) /\ active[c]
  /\ todo' = todo \ {c} /\ adding' = c
  /\ main' = IF commonPar = None THEN "crashed" ELSE main
  /\ lastPeriod' = [lastPeriod EXCEPT ![Rnum[c]] = FALSE]
  /\ payload' = NextParameters(c)
  /\ UNCHANGED <<fire, transmitting, triggerRunning, swings, lists,
                 radarActive, swingInvalid, lock, pulseTimes, handler, state,
                 nextState, triggered, results, scan, active, drivers>>

AddSend(c) ==
  /\ main = "add" /\ adding = c
  /\ adding' = "none"
  /\ cudaSeq' = [cudaSeq EXCEPT ![processingSwing][c] = payload[c]]
  /\ state' = IF state[c][processingSwing] = INACTIVE
              THEN [state EXCEPT ![c][processingSwing] = READY]
              ELSE state
  /\ UNCHANGED <<main, fire, transmitting, todo, triggerRunning, swings, lists,
                 flags, lock, pulseTimes, handler, nextState, triggered,
                 results, scan, payload, active, txBuf, rx>>

Generate ==
  /\ main = "add" /\ adding = "none" /\ todo = {}
  /\ txBuf' = Generated(processingSwing,
                        {r \in ActiveRadars : ~lastPeriod[r]})
  /\ main' = "ready"
  /\ UNCHANGED <<fire, transmitting, todo, adding, triggerRunning, swings,
                 lists, flags, lock, pulseTimes, handler, chan, cudaSeq, rx>>

(* Mutant: only the radars of this call keep their entry.                  *)
BugWithPulseTimes(S, v) == [r \in S |-> v]

(* USRP_READY_DATA brings the pulse times of the swing on the air; the list*)
(* is emptied before it is assigned.                                       *)
WithPulseTimes(S, v) ==
  [r \in Radars |-> IF r \in S THEN v ELSE pulseTimes[r]]

ReadyClear ==
  /\ main = "ready"
  /\ pulseTimes' =
       WithPulseTimes({r \in ActiveRadars : transmitting[r] /\ fire}, None)
  /\ main' = "readyStore" /\ todo' = {}
  /\ UNCHANGED <<fire, transmitting, adding, triggerRunning, swings, lists,
                 flags, lock, handler, chan, drivers>>

ReadyStore ==
  /\ main = "readyStore"
  /\ pulseTimes' = WithPulseTimes(
       {r \in Radars : transmitting[r] /\ fire /\ pulseTimes[r] = None},
       activeSwing)
  /\ main' = "switch"
  /\ UNCHANGED <<fire, transmitting, todo, adding, triggerRunning, swings,
                 lists, flags, lock, handler, chan, drivers>>

Switch ==
  /\ main = "switch"
  /\ activeSwing' = processingSwing
  /\ main' = "autotrigger"
  /\ UNCHANGED <<fire, transmitting, todo, adding, triggerRunning, nextSwing,
                 lists, flags, lock, pulseTimes, handler, chan, drivers>>

(* Mutant: every period is triggered, not only the second one.             *)
BugAutoTriggered == {c \in channels : transmitting[Rnum[c]]}

(* The second period of a scan is triggered without a SET_READY.           *)
AutoTriggered == {c \in channels : transmitting[Rnum[c]] /\ scan[c].first}

AutoTrigger ==
  LET second == AutoTriggered IN
  /\ main = "autotrigger"
  /\ state' = PutSwing(state, second, activeSwing, TRIGGER)
  /\ triggered' = [c \in Channels |->
       IF c \in second THEN <<nextSwing>> \o triggered[c] ELSE triggered[c]]
  /\ scan' = [c \in Channels |->
       IF c \in second THEN [scan[c] EXCEPT !.first = FALSE] ELSE scan[c]]
  /\ main' = "end"
  /\ UNCHANGED <<fire, transmitting, todo, adding, triggerRunning, swings,
                 lists, flags, lock, pulseTimes, handler, nextState, results,
                 payload, active, drivers>>

(* Mutant: the flag is never raised.                                       *)
BugInvalidAfterTrigger == swingInvalid

(* A swing that was not transmitted is to be flagged when it is collected. *)
InvalidAfterTrigger == [r \in Radars |-> swingInvalid[r] \/ ~fire]

End ==
  /\ main = "end"
  /\ swingInvalid' = InvalidAfterTrigger
  /\ triggerRunning' = FALSE
  /\ main' = "loop"
  /\ UNCHANGED <<fire, transmitting, todo, adding, swings, lists, radarActive,
                 lastPeriod, lock, pulseTimes, handler, chan, drivers>>

(* What the handler threads have to wait for when they may not run in the  *)
(* middle of an update.                                                    *)
MidUpdate == (main = "add" /\ adding # "none") \/ main = "readyStore"

Main ==
  \/ NoticeNew \/ NothingNew \/ AwaitSetPar \/ InitStart \/ InitEnd
  \/ Arm \/ LoopAgain \/ Start \/ Setup \/ Fire \/ Collect \/ Finish
  \/ Generate \/ ReadyClear \/ ReadyStore \/ Switch \/ AutoTrigger \/ End
  \/ \E c \in Channels : \/ AwaitActive(c) \/ AddLast(c) \/ AddNotActive(c)
                         \/ AddUpdate(c) \/ AddSend(c)
----------------------------------------------------------------------------
(* The control programs and their RadarChannelHandler threads.             *)

MayRun == Preemptible \/ ~MidUpdate

(* The period a control program is at.                                     *)
Expected(c) == IF ScanLen[c] = 1 THEN 0 ELSE ScanLen[c] - left[c]

Goto(c, l) == pc' = [pc EXCEPT ![c] = l]

(* SET_ACTIVE up to the wait for trigger_next_swing.  A camping channel    *)
(* keeps the scan it has.                                                  *)
SetActive(c) ==
  LET r == Rnum[c] IN
  /\ MayRun /\ pc[c] = "idle" /\ scans[c] < MaxScans
  /\ scans' = [scans EXCEPT ![c] = @ + 1]
  /\ active' = [active EXCEPT ![c] = TRUE]
  /\ activeChannels' = activeChannels \cup {c}
  /\ lastPeriod' = [lastPeriod EXCEPT ![r] = FALSE]
  /\ swingInvalid' = [swingInvalid EXCEPT ![r] = FALSE]
  /\ IF Camping(scan[c])
     THEN /\ radarActive' = [radarActive EXCEPT ![r] = TRUE]
          /\ left' = [left EXCEPT ![c] = 1]
          /\ Goto(c, "setpar")
     ELSE UNCHANGED <<radarActive, left>> /\ Goto(c, "activate")
  /\ UNCHANGED <<rhm, swings, channels, newChannels, nRegistered, commonPar,
                 lock, pulseTimes, wait, sent, sentTimes, state, nextState,
                 triggered, results, scan, payload, drivers>>

(* The wait, and the rest of it for a new scan.                            *)
AwaitTriggerEnd(c) ==
  /\ MayRun /\ pc[c] = "activate" /\ ~triggerRunning
  /\ Goto(c, "newscan")
  /\ UNCHANGED <<rhm, swings, lists, flags, lock, pulseTimes, wait, sent,
                 sentTimes, left, scans, chan, drivers>>

StartScan(c) ==
  /\ MayRun /\ pc[c] = "newscan"
  /\ \E p \in StartPeriods[c] :
       /\ scan' = [scan EXCEPT ![c] = InitNewScan(ScanLen[c], p)]
       /\ left' = [left EXCEPT ![c] = ScanLen[c] - p]
  /\ triggered' = [triggered EXCEPT ![c] = <<>>]
  /\ radarActive' = [radarActive EXCEPT ![Rnum[c]] = TRUE]
  /\ Goto(c, "setpar")
  /\ UNCHANGED <<rhm, swings, lists, lastPeriod, swingInvalid, lock,
                 pulseTimes, wait, sent, sentTimes, scans, state, nextState,
                 results, payload, active, drivers>>

(* SET_PARAMETERS takes the semaphore and picks a swing.                   *)
TakeParameters(c) ==
  /\ MayRun /\ pc[c] = "setpar" /\ setPar = "free"
  /\ setPar' = c /\ nSetPar' = nSetPar + 1
  /\ wait' = [wait EXCEPT ![c] =
                IF scan[c].pre THEN nextSwing ELSE 1 - nextSwing]
  /\ Goto(c, "parwait")
  /\ UNCHANGED <<rhm, swings, lists, flags, pulseTimes, sent, sentTimes, left,
                 scans, chan, drivers>>

(* Mutant: a second channel is taken for the first one.                    *)
BugFirst == nRegistered <= 1 \/ commonPar = None

First == nRegistered <= 0 \/ commonPar = None

(* Mutant: n_SetParameterHandlers_active is not counted down.              *)
BugRelease == setPar' = "free" /\ UNCHANGED nSetPar

Release == setPar' = "free" /\ nSetPar' = nSetPar - 1

(* The first SET_PARAMETERS of a scan is only stored.                      *)
StoreParameters(c) ==
  /\ MayRun /\ pc[c] = "parwait" /\ scan[c].initPar
  /\ scan' = [scan EXCEPT ![c].initPar = FALSE]
  /\ payload' = [payload EXCEPT ![c] = Expected(c)]
  /\ Release /\ Goto(c, "setpar")
  /\ UNCHANGED <<rhm, swings, lists, flags, pulseTimes, wait, sent, sentTimes,
                 left, scans, state, nextState, triggered, results, active,
                 drivers>>

(* Any other waits, with the semaphore held, for one of these states.      *)
ParametersDue(c) ==
  scan[c].initPar \/ state[c][wait[c]] \in {INACTIVE, PROCESSING, LAST_SWING}

(* CheckChannelCompatibility for a period not yet triggered, and the place *)
(* in newChannelList.  A channel that is already in the list runs into an  *)
(* AttributeError before it releases the semaphore, and an incompatible    *)
(* one is taken to quit.                                                   *)
Register(c) ==
  /\ MayRun /\ pc[c] = "parwait" /\ ~scan[c].initPar
  /\ state[c][wait[c]] = INACTIVE
  /\ payload' = [payload EXCEPT ![c] = Expected(c)]
  /\ IF First \/ commonPar = Par[c]
     THEN /\ commonPar' = Par[c]
          /\ nRegistered' = CASE First -> 1
                              [] ~First /\ c \notin channels -> nRegistered + 1
                              [] OTHER -> nRegistered
          /\ newChannels' = newChannels \cup {c}
          /\ IF c \in newChannels
             THEN Goto(c, "dead") /\ UNCHANGED lock
             ELSE Goto(c, "ready") /\ Release
     ELSE /\ Release /\ Goto(c, "quit")
          /\ UNCHANGED <<newChannels, nRegistered, commonPar>>
  /\ UNCHANGED <<rhm, swings, channels, activeChannels, flags, pulseTimes,
                 wait, sent, sentTimes, left, scans, state, nextState,
                 triggered, results, scan, active, drivers>>

(* "in middle of scan, period already triggered": what was received is     *)
(* compared with the prediction, but it also is what payload holds now.    *)
CompareParameters(c) ==
  /\ MayRun /\ pc[c] = "parwait" /\ ~scan[c].initPar
  /\ state[c][wait[c]] \in {PROCESSING, LAST_SWING}
  /\ payload' = [payload EXCEPT ![c] = Expected(c)]
  /\ Release /\ Goto(c, "ready")
  /\ UNCHANGED <<rhm, swings, lists, flags, pulseTimes, wait, sent, sentTimes,
                 left, scans, state, nextState, triggered, results, scan,
                 active, drivers>>

(* SET_READY picks the swing to wait for ...                               *)
SetReady(c) ==
  /\ MayRun /\ pc[c] = "ready"
  /\ wait' = [wait EXCEPT ![c] = nextSwing]
  /\ Goto(c, "readywait")
  /\ UNCHANGED <<rhm, swings, lists, flags, lock, pulseTimes, sent, sentTimes,
                 left, scans, chan, drivers>>

(* ... and triggers the one that is next when the wait is over.            *)
TriggerSwing(c) ==
  /\ MayRun /\ pc[c] = "readywait"
  /\ state[c][wait[c]] \in {READY, LAST_SWING}
  /\ state' = [state EXCEPT ![c][nextSwing] = TRIGGER]
  /\ triggered' = [triggered EXCEPT ![c] = <<nextSwing>> \o @]
  /\ Goto(c, "getdata")
  /\ UNCHANGED <<rhm, swings, lists, flags, lock, pulseTimes, wait, sent,
                 sentTimes, left, scans, nextState, results, scan, payload,
                 active, drivers>>

(* GET_DATA takes the oldest triggered swing and waits for its samples.    *)
GetData(c) ==
  /\ MayRun /\ pc[c] = "getdata"
  /\ payload' = CurrentParameters({c})
  /\ IF triggered[c] = <<>>
     THEN Goto(c, "dead") /\ UNCHANGED <<wait, triggered>>
     ELSE /\ wait' = [wait EXCEPT ![c] = Last(triggered[c])]
          /\ triggered' = [triggered EXCEPT ![c] = Front(@)]
          /\ Goto(c, "datawait")
  /\ UNCHANGED <<rhm, swings, lists, flags, lock, pulseTimes, sent, sentTimes,
                 left, scans, state, nextState, results, scan, active, drivers>>

(* The pulse times of the radar may be those of the next swing already, and*)
(* then fewer than the sequences of this result.                           *)
TooFewTimes(c, d) == Uneven /\ d.fired /\ pulseTimes[Rnum[c]] # d.swing

(* send_results_to_control_program: an IndexError without a result, without*)
(* pulse times or with too few of them, a KeyError without the parameters  *)
(* of the result.                                                          *)
SendResults(c) ==
  /\ MayRun /\ pc[c] = "datawait" /\ state[c][wait[c]] = SAMPLES_READY
  /\ IF results[c] = <<>>
     THEN Goto(c, "dead") /\ UNCHANGED <<sent, sentTimes, results>>
     ELSE /\ sent' = [sent EXCEPT ![c] = Last(results[c])]
          /\ sentTimes' = [sentTimes EXCEPT ![c] = pulseTimes[Rnum[c]]]
          /\ results' = [results EXCEPT ![c] = Front(@)]
          /\ \/ Goto(c, "dead") /\ (\/ None \in {sentTimes'[c], sent'[c].label}
                                   \/ TooFewTimes(c, sent'[c]))
             \/ Goto(c, "sending") /\ None \notin {sentTimes'[c], sent'[c].label}
  /\ UNCHANGED <<rhm, swings, lists, flags, lock, pulseTimes, wait, left,
                 scans, state, nextState, triggered, scan, payload, active,
                 drivers>>

(* The samples are acknowledged: the swing takes its next state, and the   *)
(* control program goes on with its scan, or ends it.                      *)
EndGetData(c) ==
  /\ MayRun /\ pc[c] = "sending"
  /\ state' = [state EXCEPT ![c][wait[c]] = nextState[c][wait[c]]]
  /\ left' = [left EXCEPT ![c] = @ - 1]
  /\ Goto(c, CASE left[c] > 1 -> "setpar"
               [] left[c] = 1 /\ ScanLen[c] = 1 -> "idle"
               [] OTHER -> "inactive")
  /\ UNCHANGED <<rhm, swings, lists, flags, lock, pulseTimes, wait, sent,
                 sentTimes, scans, nextState, triggered, results, scan,
                 payload, active, drivers>>

BetweenCommands == {"setpar", "ready", "getdata"}

(* SET_INACTIVE.  The channel only leaves active_channels when it is also  *)
(* in RHM.channels, and it stays in newChannelList.                        *)
SetInactive(c) ==
  LET gone == c \in channels IN
  /\ MayRun
  /\ \/ pc[c] = "inactive"
     \/ c \in MayStop /\ pc[c] \in BetweenCommands
  /\ active' = [active EXCEPT ![c] = FALSE]
  /\ activeChannels' = IF gone THEN activeChannels \ {c} ELSE activeChannels
  /\ channels' = channels \ {c}
  /\ Deregister(gone)
  /\ radarActive' = RadarActiveWithout(c, gone)
  /\ swingInvalid' = [SwingInvalidWithout(gone) EXCEPT ![Rnum[c]] =
                        @ /\ On(Rnum[c]) \ {c} # {}]
  /\ Goto(c, "idle")
  /\ UNCHANGED <<rhm, swings, newChannels, lastPeriod, lock, pulseTimes, wait,
                 sent, sentTimes, left, scans, state, nextState, triggered,
                 results, scan, payload, drivers>>

(* QUIT, a lost connection between commands or while results are sent, or  *)
(* the 120 s timeout of a wait: close().                                   *)
Quit(c) ==
  /\ MayRun /\ c \in MayLeave
  /\ \/ pc[c] \in BetweenCommands \cup {"idle", "activate", "inactive",
                                        "readywait", "datawait", "sending"}
     \/ pc[c] = "parwait" /\ ~ParametersDue(c)
  /\ Goto(c, "quit")
  /\ UNCHANGED <<rhm, swings, lists, flags, lock, pulseTimes, wait, sent,
                 sentTimes, left, scans, chan, drivers>>

(* A connection lost while SET_PARAMETERS receives: the channel is removed,*)
(* the semaphore and n_SetParameterHandlers_active stay as they are.       *)
LoseConnection(c) ==
  /\ MayRun /\ c \in MayLeave /\ pc[c] = "parwait" /\ ParametersDue(c)
  /\ setPar' = "lost"
  /\ Goto(c, "quit")
  /\ UNCHANGED <<rhm, swings, lists, flags, nSetPar, pulseTimes, wait, sent,
                 sentTimes, left, scans, chan, drivers>>

(* unregister_channel_from_HardwareManager: the wait for                   *)
(* trigger_next_swing, ...                                                 *)
AwaitTrigger(c) ==
  /\ MayRun /\ pc[c] = "quit" /\ ~triggerRunning
  /\ Goto(c, "remove")
  /\ UNCHANGED <<rhm, swings, lists, flags, lock, pulseTimes, wait, sent,
                 sentTimes, left, scans, chan, drivers>>

(* ... the removal from the lists under channel_remove_semaphore, ...      *)
Unlist(c) ==
  /\ MayRun /\ pc[c] = "remove"
  /\ activeChannels' = activeChannels \ {c}
  /\ newChannels' = newChannels \ {c}
  /\ channels' = channels \ {c}
  /\ IF c \in channels
     THEN /\ cudaSeq' = [s \in Swing |-> [cudaSeq[s] EXCEPT ![c] = None]]
          /\ Goto(c, "deregister") /\ UNCHANGED lock
     ELSE /\ Goto(c, "gone") /\ UNCHANGED cudaSeq
          /\ IF setPar = c THEN Release ELSE UNCHANGED lock
  /\ UNCHANGED <<rhm, swings, nRegistered, commonPar, flags, pulseTimes, wait,
                 sent, sentTimes, left, scans, chan, txBuf, rx>>

(* ... and, after CUDA_REMOVE_CHANNEL, the count of registered channels.   *)
(* A SET_PARAMETERS that timed out releases its semaphore after that; one  *)
(* that lost its connection does not.                                      *)
EndQuit(c) ==
  /\ MayRun /\ pc[c] = "deregister"
  /\ Deregister(TRUE)
  /\ radarActive' = RadarActiveWithout(c, TRUE)
  /\ swingInvalid' = SwingInvalidWithout(TRUE)
  /\ Goto(c, "gone")
  /\ IF setPar = c THEN Release ELSE UNCHANGED lock
  /\ UNCHANGED <<rhm, swings, channels, activeChannels, newChannels,
                 lastPeriod, pulseTimes, wait, sent, sentTimes, left, scans,
                 chan, drivers>>

(* What a control program and its handler do as long as nothing goes wrong.*)
Serve(c) ==
  \/ SetActive(c) \/ AwaitTriggerEnd(c) \/ StartScan(c) \/ StoreParameters(c)
  \/ TakeParameters(c) \/ Register(c) \/ CompareParameters(c) \/ SetReady(c)
  \/ TriggerSwing(c) \/ GetData(c) \/ SendResults(c) \/ EndGetData(c)
  \/ AwaitTrigger(c) \/ Unlist(c) \/ EndQuit(c)
  \/ (pc[c] = "inactive" /\ SetInactive(c))

Handler(c) == Serve(c) \/ SetInactive(c) \/ Quit(c) \/ LoseConnection(c)

Next == Main \/ \E c \in Channels : Handler(c)

Spec == Init /\ [][Next]_vars

(* The threads are never starved, and a control program goes on with its   *)
(* scans.                                                                  *)
Fairness == WF_vars(Main) /\ \A c \in Channels : WF_vars(Serve(c))

FairSpec == Spec /\ Fairness
----------------------------------------------------------------------------
(* Type correctness: every variable holds what the code keeps in it.       *)
MainPoint ==
  {"loop", "awaitActive", "initialize", "initSend", "check", "armed", "setup",
   "fire", "collect", "finish", "add", "ready", "readyStore", "switch",
   "autotrigger", "end", "crashed"}

HandlerPoint ==
  {"idle", "activate", "newscan", "setpar", "parwait", "ready", "readywait",
   "getdata", "datawait", "sending", "inactive", "quit", "remove",
   "deregister", "gone", "dead"}

TypeRhm ==
  /\ main \in MainPoint /\ fire \in BOOLEAN
  /\ transmitting \in [Radars -> BOOLEAN]
  /\ todo \subseteq Channels /\ adding \in Channels \cup {"none"}
  /\ triggerRunning \in BOOLEAN

TypeSwings == activeSwing \in Swing /\ nextSwing \in Swing

TypeLists ==
  /\ channels \subseteq Channels /\ activeChannels \subseteq Channels
  /\ newChannels \subseteq Channels
  /\ nRegistered \in Nat /\ commonPar \in Nat \cup {None}

TypeFlags ==
  /\ radarActive \in [Radars -> BOOLEAN]
  /\ lastPeriod \in [Radars -> BOOLEAN]
  /\ swingInvalid \in [Radars -> BOOLEAN]

TypeLock ==
  setPar \in Channels \cup {"free", "main", "lost"} /\ nSetPar \in Int

TypeTimes == pulseTimes \in [Radars -> Swing \cup {None}]

TypeHandler ==
  /\ pc \in [Channels -> HandlerPoint] /\ wait \in [Channels -> Swing]
  /\ sent \in [Channels -> Result]
  /\ sentTimes \in [Channels -> Swing \cup {None}]
  /\ left \in [Channels -> Int] /\ scans \in [Channels -> Nat]

TypeChan ==
  /\ state \in [Channels -> [Swing -> ChannelState]]
  /\ nextState \in [Channels -> [Swing -> ChannelState]]
  /\ triggered \in [Channels -> Seq(Swing)]
  /\ results \in [Channels -> Seq(Result)]
  /\ scan \in [Channels -> Scan]
  /\ payload \in [Channels -> Label]
  /\ active \in [Channels -> BOOLEAN]

TypeDrivers ==
  /\ cudaSeq \in [Swing -> [Channels -> Label]]
  /\ txBuf \in [Swing -> [Channels -> Label]]
  /\ rx \in [Swing -> [Channels -> Label]]

TypeOK ==
  /\ TypeRhm /\ TypeSwings /\ TypeLists /\ TypeFlags /\ TypeLock /\ TypeTimes
  /\ TypeHandler /\ TypeChan /\ TypeDrivers

(* What GET_DATA returns is the period the control program asks for: the   *)
(* result made for it, of the swing it waited for, with the parameters of  *)
(* that period and, when it is valid, with samples of that period.  The    *)
(* result, the parameters, the samples and the swing take separate ways    *)
(* through the server (resultDict_list, the control program's structure,   *)
(* the two drivers and triggered_swing_list).                              *)
DeliveredPeriod ==
  \A c \in Channels : pc[c] = "sending" =>
    LET d == sent[c] IN
      /\ d.swing = wait[c]
      /\ d.label = Expected(c)
      /\ d.valid => d.data = d.label

(* Samples of a swing that was not transmitted, for lack of time, never    *)
(* reach a control program as valid ones.                                  *)
UntriggeredIsInvalid ==
  \A c \in Channels : pc[c] = "sending" /\ sent[c].valid => sent[c].fired

(* The pulse times sent with a result are those of its own swing.          *)
PulseTimesMatch ==
  \A c \in Channels :
    pc[c] = "sending" /\ sent[c].fired => sentTimes[c] = sent[c].swing

(* When the samples of a swing are collected, the result they go into has  *)
(* not been filled before: no swing comes round again before GET_DATA took *)
(* its result.                                                             *)
NoOverwrite ==
  main = "collect" =>
    \A c \in Processing : radarActive[Rnum[c]] /\ results[c] # <<>> =>
      /\ Last(results[c]).swing = processingSwing
      /\ Last(results[c]).label = None

(* Between two triggers the swing SET_READY triggers is the active one.    *)
SwingAgreement ==
  ~triggerRunning => nextSwing = activeSwing

(* What is put on the air for a channel is the period its scan is at, and  *)
(* not the period of a transmit buffer that was not generated again.       *)
GeneratedForSwing ==
  main = "fire" /\ fire =>
    \A c \in OnAir :
      transmitting[Rnum[c]] /\ ~IsLastPeriod(scan[c])
        /\ state[c][activeSwing] = TRIGGER
      => txBuf[activeSwing][c] = Upcoming(c)

(* nRegisteredChannels counts the channels that passed the compatibility   *)
(* check and have not been removed since, one in between two steps of its  *)
(* removal included.                                                       *)
RegisteredCount ==
  nRegistered = Cardinality(channels \cup newChannels
                            \cup {c \in Channels : pc[c] = "deregister"})

(* Channels share the hardware only with equal common parameters.          *)
CommonParameters ==
  \A c \in channels \cup newChannels : Par[c] = commonPar

(* The swings a channel has in flight, triggered and not yet fetched, are  *)
(* those whose state says so: none is fetched twice and none is forgotten. *)
(* Only the swing of the last SET_READY of a scan, which transmits nothing,*)
(* stays in triggered_swing_list when the scan is over.                    *)
InFlight(c) == {s \in Swing :
                  state[c][s] \in {TRIGGER, PROCESSING, SAMPLES_READY}}

Queued(c) == ToSet(triggered[c]) \cup
               (IF pc[c] \in {"datawait", "sending"} THEN {wait[c]} ELSE {})

TriggeredMatchesState ==
  \A c \in Channels :
    pc[c] \in {"setpar", "parwait", "ready", "readywait", "getdata",
              "datawait", "sending"} =>
      /\ InFlight(c) \subseteq Queued(c)
      /\ ~scan[c].post => Queued(c) = InFlight(c)

(* A radar with a registered channel is active whenever a trigger starts.  *)
RadarsOfChannelsActive ==
  main = "armed" => \A c \in channels : radarActive[Rnum[c]]

(* The semaphore of the parameters keeps SET_PARAMETERS handlers and       *)
(* initialize_channel apart; n_SetParameterHandlers_active counts the      *)
(* handlers inside, those included that never come back because their      *)
(* connection was lost; and a handler that holds the semaphore outside of  *)
(* SET_PARAMETERS is one that is being removed after its timeout, or has   *)
(* died.                                                                   *)
Holding == {"parwait", "quit", "remove", "deregister", "dead"}

SetParExclusion ==
  /\ \A c \in Channels : pc[c] = "parwait" => setPar = c
  /\ main = "initSend" => setPar = "main"
  /\ setPar = "main" => main \in {"initSend", "crashed"}
  /\ \A c \in Channels : setPar = c => pc[c] \in Holding
  /\ nSetPar = IF setPar \in Channels \cup {"lost"} THEN 1 ELSE 0

(* Between two triggers, a SET_READY waits for the swing that is next to   *)
(* be triggered, and not for one it read before nextSwingToTrigger moved.  *)
WaitsForNextSwing ==
  ~triggerRunning =>
    \A c \in Channels : pc[c] = "readywait" => wait[c] = nextSwing

(* SET_READY only triggers a swing that has been prepared.                 *)
TriggerOnlyWhenReady ==
  [][\A c \in Channels : TriggerSwing(c) =>
       state[c][nextSwing] \in {READY, LAST_SWING}]_vars

(* A channel is not taken out of RHM.channels by a quitting program while  *)
(* trigger_next_swing runs.                                                *)
NoUnlistDuringTrigger ==
  [][\A c \in Channels : Unlist(c) => ~triggerRunning]_vars

(* A sequence sent to the CUDA driver for the next period describes that   *)
(* period.                                                                 *)
SequenceIsNext ==
  [][\A c \in Channels : AddSend(c) =>
       cudaSeq'[processingSwing][c] = NextPeriod(scan[c])]_vars

(* No thread ends with an exception, but for a handler that is overtaken   *)
(* while it sends: one whose radar already has the pulse times of the other*)
(* swing, and fewer of them than its result has sequences.                 *)
Overtaken(c) ==
  /\ SendResults(c) /\ results[c] # <<>>
  /\ sent'[c].fired /\ sent'[c].label # None
  /\ sentTimes'[c] = 1 - sent'[c].swing

DiesOnlyOvertaken ==
  [][/\ main' # "crashed"
     /\ \A c \in Channels : pc'[c] = "dead" => pc[c] = "dead" \/ Overtaken(c)]_vars

(* The states of a swing follow the life of a period: nothing skips the    *)
(* transmission, and samples are replaced only after they were sent.       *)
StateChanges ==
  {<<INACTIVE, READY>>, <<READY, TRIGGER>>, <<LAST_SWING, TRIGGER>>,
   <<TRIGGER, PROCESSING>>, <<PROCESSING, SAMPLES_READY>>,
   <<SAMPLES_READY, READY>>, <<SAMPLES_READY, LAST_SWING>>,
   <<SAMPLES_READY, INACTIVE>>, <<TRIGGER, INACTIVE>>}

SwingLife ==
  [][\A c \in Channels, s \in Swing :
       state[c][s] # state'[c][s] =>
         <<state[c][s], state'[c][s]>> \in StateChanges]_vars

(* Every GET_DATA is answered, unless its handler dies.                    *)
GetDataAnswered ==
  \A c \in Channels : pc[c] = "datawait" ~> pc[c] \in {"sending", "dead"}
============================================================================
