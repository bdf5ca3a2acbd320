----------------------------- MODULE CudaDriver -----------------------------
(***************************************************************************)
(* cuda_driver.py: one thread, one command at a time.  It keeps, per       *)
(* swing, the sequences of the channels and the mixing frequency, makes    *)
(* the transmit waveforms of them, and filters the received samples.       *)
(*                                                                         *)
(* The two swings have sequences, frequencies and shared memory of their   *)
(* own, but there is one buffer of filtered samples, which GET_DATA sends  *)
(* whatever swing it is asked for.                                         *)
(*                                                                         *)
(* Samples and waveforms are known by what they were made of; filters and  *)
(* kernels are pure functions of that.  There are as many slots as         *)
(* channels, so a channel number stands for its slot.                      *)
(***************************************************************************)
EXTENDS SwingMemory

Ops == {"NONE", "ADD_CHANNEL", "REMOVE_CHANNEL", "GENERATE_PULSE", "PROCESS",
        "GET_DATA", "SETUP"}

(* A command: the fields its operation has no use for are empty.           *)
Request == [op : Ops, swing : Swing, channels : SUBSET Channels,
            sequence : Number, mix : Freqs \cup {None}]
NoRequest == [op |-> "NONE", swing |-> 0, channels |-> {}, sequence |-> None,
              mix |-> None]

VARIABLES
  request,     \* the command in the socket, until it is answered
  replied,     \* whether an answer is waiting for the server
  cuda,        \* what the driver does
  job,         \* the swing it works on
  sequences,   \* gpu.sequences and gpu.channelNumbers
  mixing,      \* gpu.usrp_mixing_freq
  filters,     \* the taps and phase increments of the last PROCESS
  bb,          \* the samples filtered last
  data         \* what GET_DATA sent

cudaVars == <<request, replied, cuda, job, sequences, mixing, filters, bb,
              data>>

Filtered == [taps : Waveform, samples : [Usrps -> Number]]
NoData   == [taps |-> Silence, samples |-> [u \in Usrps |-> None]]

TypeCuda ==
  /\ request \in Request /\ replied \in BOOLEAN
  /\ cuda \in {"ready", "generate", "process", "lost"} /\ job \in Swing
  /\ sequences \in [Swing -> [Channels -> Number]]
  /\ mixing \in [Swing -> Freqs \cup {None}]
  /\ filters \in Waveform /\ bb \in Filtered /\ data \in Filtered

InitCuda ==
  /\ request = NoRequest /\ replied = FALSE
  /\ cuda = "ready" /\ job = 0
  /\ sequences = [s \in Swing |-> NoSequence]
  /\ mixing = [s \in Swing |-> None]
  /\ filters = Silence /\ bb = NoData /\ data = NoData
----------------------------------------------------------------------------
(* The main loop takes the next command when the last one is done.         *)
Taken(op) == cuda = "ready" /\ request.op = op

Respond == replied' = TRUE /\ request' = NoRequest

(* CUDA_SETUP sets the mixing frequency of both swings.                    *)
SetupCuda ==
  /\ Taken("SETUP")
  /\ mixing' = [s \in Swing |-> request.mix]
  /\ Respond
  /\ UNCHANGED <<cuda, job, sequences, filters, bb, data, shmTx, shmRx>>

AddChannel ==
  /\ Taken("ADD_CHANNEL")
  /\ sequences' = [sequences EXCEPT ![request.swing] =
       [c \in Channels |-> IF c \in request.channels THEN request.sequence
                                                     ELSE @[c]]]
  /\ Respond
  /\ UNCHANGED <<cuda, job, mixing, filters, bb, data, shmTx, shmRx>>

(* Mutant: the sequence of the other swing stays.                          *)
BugRemoved(s) == s = 0 /\ request.swing = 0

(* Mutant: the channel is taken off both swings.                           *)
BugRemovedBoth(s) == TRUE

(* The swing a channel is taken off.                                       *)
Removed(s) == s = request.swing

RemoveChannel ==
  /\ Taken("REMOVE_CHANNEL")
  /\ sequences' = [s \in Swing |-> [c \in Channels |->
       IF Removed(s) /\ c \in request.channels THEN None
                                               ELSE sequences[s][c]]]
  /\ Respond
  /\ UNCHANGED <<cuda, job, mixing, filters, bb, data, shmTx, shmRx>>
----------------------------------------------------------------------------
(* What the sequences of swing s and its mixing frequency give: the        *)
(* waveform of GENERATE_PULSE (tx_init, synth_tx_rf_pulses with            *)
(* _set_tx_mixerfreq and _set_tx_phasedelay), and the filters of PROCESS   *)
(* (rx_init, _set_rx_phaseIncrement).                                      *)
Made(s) == [seq |-> sequences[s], mix |-> mixing[s]]
Taps(s) == Made(s)

(* GENERATE_PULSE stores the frequency first, even if there is no sequence *)
(* to make a waveform of.  The segments are written one antenna after the  *)
(* other; the answer comes when all are.                                   *)
StartGenerate ==
  /\ Taken("GENERATE_PULSE")
  /\ mixing' = [mixing EXCEPT ![request.swing] = request.mix]
  /\ IF sequences[request.swing] = NoSequence
     THEN Respond /\ UNCHANGED <<cuda, job>>
     ELSE /\ cuda' = "generate" /\ job' = request.swing
          /\ UNCHANGED <<request, replied>>
  /\ UNCHANGED <<sequences, filters, bb, data, shmTx, shmRx>>

EndGenerate ==
  /\ cuda = "generate" /\ cuda' = "ready"
  /\ shmTx' = [u \in Usrps |-> [shmTx[u] EXCEPT ![job] = Made(job)]]
  /\ Respond
  /\ UNCHANGED <<job, sequences, mixing, filters, bb, data, shmRx>>

(* PROCESS answers first, then makes the filters, copies the samples and   *)
(* starts the kernels.                                                     *)
StartProcess ==
  /\ Taken("PROCESS")
  /\ cuda' = "process" /\ job' = request.swing
  /\ filters' = Taps(request.swing)
  /\ Respond
  /\ UNCHANGED <<sequences, mixing, bb, data, shmTx, shmRx>>

(* Mutant: always the segments of swing 0.                                 *)
BugSource(s) == 0

(* The list of segments PROCESS reads: rx_shm_list[swing].                 *)
Source(s) == s

EndProcess ==
  /\ cuda = "process" /\ cuda' = "ready"
  /\ bb' = [taps |-> filters,
            samples |-> [u \in Usrps |-> shmRx[u][Source(job)]]]
  /\ UNCHANGED <<request, replied, job, sequences, mixing, filters, data,
                 shmTx, shmRx>>

(* GET_DATA looks every channel it is asked for up in the table of the     *)
(* swing; one that is not there is a ValueError in the middle of the       *)
(* transfer, and what the server sends next is taken for commands.         *)
GetData ==
  /\ Taken("GET_DATA")
  /\ IF \A c \in request.channels : sequences[request.swing][c] # None
     THEN data' = bb /\ Respond /\ UNCHANGED cuda
     ELSE cuda' = "lost" /\ UNCHANGED <<data, request, replied>>
  /\ UNCHANGED <<job, sequences, mixing, filters, bb, shmTx, shmRx>>

Cuda ==
  \/ SetupCuda \/ AddChannel \/ RemoveChannel \/ StartGenerate \/ EndGenerate
  \/ StartProcess \/ EndProcess \/ GetData
=============================================================================
