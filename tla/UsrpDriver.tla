----------------------------- MODULE UsrpDriver -----------------------------
(***************************************************************************)
(* usrp_driver.cpp: one process per USRP, one command at a time, taken     *)
(* from its socket in the order they were sent.  SETUP copies the waveform *)
(* of a swing out of the shared memory, TRIGGER_PULSE transmits the copy   *)
(* and records, READY_DATA copies the recording into the shared memory.    *)
(* The copies exist once, the state once per swing.                        *)
(*                                                                         *)
(* A driver that hangs goes on later with what is in its socket, even if   *)
(* the server has closed it meanwhile.  Whether it can be reached again is *)
(* the subject of UsrpFleet.                                               *)
(***************************************************************************)
EXTENDS SwingMemory, Sequences

CONSTANT MaxFaults   \* bound: hangs, receive errors and exits

ASSUME FaultsAssumption == MaxFaults \in Nat

(* The commands of an integration period.  "number" is the period; the     *)
(* driver does not know it, it is what the recording will be called.       *)
Command == [op : {"SETUP", "TRIGGER_PULSE", "READY_DATA"}, swing : Swing,
            mix : Freqs \cup {None}, number : Number]

VARIABLES
  queue,       \* the commands in the socket; the first is being done
  at,          \* what the driver does
  state,       \* state_vec
  txSamples,   \* tx_samples, with the frequency the USRP is tuned to
  rxBuffer,    \* rx_data_buffer
  rxError,     \* rx_worker_status
  answer,      \* the answer the server will read
  stopped,     \* whether it hangs, or has ended
  faults       \* failures so far

driverVars == <<queue, at, state, txSamples, rxBuffer, rxError, answer,
                stopped, faults>>

Answer == {"none", "ok", "error"}
OnAir  == [wave : Waveform, tuned : Freqs \cup {None}]

TypeDriver ==
  /\ queue \in [Usrps -> Seq(Command)]
  /\ at \in [Usrps -> {"wait", "setup", "pulse", "ready"}]
  /\ state \in [Usrps -> [Swing -> {"ST_INIT", "ST_READY", "ST_PULSE"}]]
  /\ txSamples \in [Usrps -> OnAir]
  /\ rxBuffer \in [Usrps -> Number]
  /\ rxError \in [Usrps -> BOOLEAN]
  /\ answer \in [Usrps -> Answer]
  /\ stopped \in [Usrps -> {"no", "hung", "gone"}]
  /\ faults \in 0 .. MaxFaults

InitDriver ==
  /\ queue = [u \in Usrps |-> <<>>]
  /\ at = [u \in Usrps |-> "wait"]
  /\ state = [u \in Usrps |-> [s \in Swing |-> "ST_INIT"]]
  /\ txSamples = [u \in Usrps |-> [wave |-> Silence, tuned |-> None]]
  /\ rxBuffer = [u \in Usrps |-> None]
  /\ rxError = [u \in Usrps |-> FALSE]
  /\ answer = [u \in Usrps |-> "none"]
  /\ stopped = [u \in Usrps |-> "no"]
  /\ faults = 0
----------------------------------------------------------------------------
Doing(u) == Head(queue[u])

Begin(u, op, place) ==
  /\ stopped[u] = "no" /\ at[u] = "wait"
  /\ queue[u] # <<>> /\ Doing(u).op = op
  /\ at' = [at EXCEPT ![u] = place]

End(u, place) ==
  /\ stopped[u] = "no" /\ at[u] = place
  /\ at' = [at EXCEPT ![u] = "wait"]
  /\ queue' = [queue EXCEPT ![u] = Tail(@)]

Reply(u, a) == answer' = [answer EXCEPT ![u] = a]

StartSetup(u) ==
  /\ Begin(u, "SETUP", "setup")
  /\ UNCHANGED <<queue, state, txSamples, rxBuffer, rxError, answer, stopped,
                 faults, shmTx, shmRx>>

EndSetup(u) ==
  LET s == Doing(u).swing IN
  /\ End(u, "setup")
  /\ txSamples' = [txSamples EXCEPT ![u] = [wave  |-> shmTx[u][s],
                                            tuned |-> Doing(u).mix]]
  /\ state' = [state EXCEPT ![u][s] = "ST_READY"]
  /\ Reply(u, "ok")
  /\ UNCHANGED <<rxBuffer, rxError, stopped, faults, shmTx, shmRx>>

(* A swing that is not ready is refused with TRIGGER_BUSY, and the rest of *)
(* the command is left to be read as commands, the first of which ends the *)
(* driver; for the server, which expects the command byte, that is a lost  *)
(* connection and not an answer.  Otherwise the workers are started and the*)
(* answer is sent; the next command is read when the workers have finished.*)
StartPulse(u) ==
  LET s == Doing(u).swing IN
  /\ Begin(u, "TRIGGER_PULSE", "pulse")
  /\ IF state[u][s] = "ST_READY"
     THEN /\ state' = [state EXCEPT ![u][s] = "ST_PULSE"]
          /\ Reply(u, "ok") /\ UNCHANGED stopped
     ELSE /\ stopped' = [stopped EXCEPT ![u] = "gone"]
          /\ UNCHANGED <<state, answer>>
  /\ UNCHANGED <<queue, txSamples, rxBuffer, rxError, faults, shmTx, shmRx>>

(* The receive worker has filled the buffer or left an error status.       *)
EndPulse(u) ==
  /\ End(u, "pulse")
  /\ \/ rxBuffer' = [rxBuffer EXCEPT ![u] = Doing(u).number]
        /\ UNCHANGED <<rxError, faults>>
     \/ /\ faults < MaxFaults /\ faults' = faults + 1
        /\ rxError' = [rxError EXCEPT ![u] = TRUE]
        /\ UNCHANGED rxBuffer
  /\ UNCHANGED <<state, txSamples, answer, stopped, shmTx, shmRx>>

StartReady(u) ==
  /\ Begin(u, "READY_DATA", "ready")
  /\ UNCHANGED <<queue, state, txSamples, rxBuffer, rxError, answer, stopped,
                 faults, shmTx, shmRx>>

(* Mutant: after an error the buffer is copied all the same.               *)
BugRecording(u) == rxBuffer[u]

(* What READY_DATA writes: the recording, or zeros after an error.         *)
Recording(u) == IF rxError[u] THEN None ELSE rxBuffer[u]

EndReady(u) ==
  LET s == Doing(u).swing IN
  /\ End(u, "ready")
  /\ shmRx' = [shmRx EXCEPT ![u][s] = Recording(u)]
  /\ rxError' = [rxError EXCEPT ![u] = FALSE]
  /\ state' = [state EXCEPT ![u][s] = "ST_READY"]
  /\ Reply(u, IF rxError[u] THEN "error" ELSE "ok")
  /\ UNCHANGED <<txSamples, rxBuffer, stopped, faults, shmTx>>
----------------------------------------------------------------------------
Hang(u) ==
  /\ stopped[u] = "no" /\ faults < MaxFaults
  /\ stopped' = [stopped EXCEPT ![u] = "hung"] /\ faults' = faults + 1
  /\ UNCHANGED <<queue, at, state, txSamples, rxBuffer, rxError, answer,
                 shmTx, shmRx>>

Resume(u) ==
  /\ stopped[u] = "hung"
  /\ stopped' = [stopped EXCEPT ![u] = "no"]
  /\ UNCHANGED <<queue, at, state, txSamples, rxBuffer, rxError, answer,
                 faults, shmTx, shmRx>>

(* The clean exit, after a command that found the clock without its        *)
(* reference: all segments of its antennas are filled with zeros.          *)
ExitDriver(u) ==
  /\ stopped[u] = "no" /\ at[u] = "wait" /\ faults < MaxFaults
  /\ stopped' = [stopped EXCEPT ![u] = "gone"] /\ faults' = faults + 1
  /\ shmTx' = [shmTx EXCEPT ![u] = [s \in Swing |-> Silence]]
  /\ shmRx' = [shmRx EXCEPT ![u] = [s \in Swing |-> None]]
  /\ UNCHANGED <<queue, at, state, txSamples, rxBuffer, rxError, answer>>

Work(u) == \/ StartSetup(u) \/ EndSetup(u) \/ StartPulse(u) \/ EndPulse(u)
           \/ StartReady(u) \/ EndReady(u)
=============================================================================
