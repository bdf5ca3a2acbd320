---------------------------- MODULE SwingMemory ----------------------------
(***************************************************************************)
(* The shared memory through which the CUDA driver and the USRP drivers    *)
(* exchange samples: per antenna, direction and swing one segment          *)
(* (create_shm of cuda_driver.py, open_sample_shm of usrp_driver.cpp).     *)
(*                                                                         *)
(* A segment has a semaphore too, and both sides lock it, but it excludes  *)
(* nobody: the USRP driver passes its sem_t by value and so waits on a     *)
(* copy, and the CUDA driver is a single thread.  What keeps the two sides *)
(* apart is the order in which the server sends its commands, and the      *)
(* models of the drivers leave the semaphores out.                         *)
(***************************************************************************)
EXTENDS Integers

CONSTANTS
  Usrps,       \* the USRPs of a radar, each with its antennas
  Channels,    \* the channels that may share the radar
  Freqs,       \* mixing frequencies, in kHz
  MaxPeriods   \* bound: integration periods

ASSUME FreqsAssumption   == Freqs \subseteq Nat \ {0} /\ Freqs # {}
ASSUME PeriodsAssumption == MaxPeriods \in Nat

Swing   == {0, 1}
None    == 0                    \* no sequence, no samples, not tuned
Number  == Nat                  \* of an integration period, from 1

(* A sequence is known by the period it was made for.  A waveform is made  *)
(* of the sequences of a swing and of the frequency the USRPs will add.    *)
NoSequence == [c \in Channels |-> None]
Waveform   == [seq : [Channels -> Number], mix : Freqs \cup {None}]
Silence    == [seq |-> NoSequence, mix |-> None]

VARIABLES
  shmTx,       \* per USRP and swing, the waveform to transmit
  shmRx        \* per USRP and swing, the period the samples are from

TypeMemory ==
  /\ shmTx \in [Usrps -> [Swing -> Waveform]]
  /\ shmRx \in [Usrps -> [Swing -> Number]]

InitMemory ==
  /\ shmTx = [u \in Usrps |-> [s \in Swing |-> Silence]]
  /\ shmRx = [u \in Usrps |-> [s \in Swing |-> None]]
=============================================================================
