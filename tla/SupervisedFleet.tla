-------------------------- MODULE SupervisedFleet --------------------------
(***************************************************************************)
(* UsrpFleet together with what keeps it alive: the status file the server *)
(* writes, the watchdog that reads it (srr_watchdog.py, started with the   *)
(* argument "server"), the scripts of srr.py it calls, and the CUDA driver *)
(* as a process that may be missing.                                       *)
(***************************************************************************)
EXTENDS UsrpFleet

VARIABLES
  fresh,  \* the status file is younger than file_age_limit
  wd,     \* what the watchdog does next
  cuda    \* whether the process of the CUDA driver runs

watch   == <<fresh, wd, cuda>>
allVars == <<vars, watch>>

SupervisedTypeOK ==
  /\ TypeOK
  /\ fresh \in BOOLEAN /\ cuda \in BOOLEAN
  /\ wd \in {"check", "drivers", "server", "wait"}

(* new_start makes the first pass of the watchdog start everything.        *)
SupervisedInit ==
  /\ Init
  /\ fresh = FALSE /\ wd = "check" /\ cuda = FALSE
----------------------------------------------------------------------------
(* The server.                                                             *)

(* cuda_init of the constructor, or a command of a period, finds no CUDA   *)
(* driver.  Later the connection may be closed (an endless read) or reset. *)
MissCuda ==
  /\ ~cuda
  /\ IF booting THEN main = "setup" /\ Exit
     ELSE main = "loop" /\ scanning # {} /\ (Die \/ Stuck)
  /\ UNCHANGED watch

(* Every pass of the main loop starts with the status file, which is       *)
(* written if the last time was more than 5 s ago.                         *)
Serve ==
  /\ main = "setup" /\ booting => cuda
  /\ main = "loop" => fresh
  /\ Server
  /\ UNCHANGED watch

(* statusUpdater.update_advanced, at the top of the main loop.             *)
Heartbeat ==
  /\ main = "loop" /\ ~fresh
  /\ fresh' = TRUE
  /\ UNCHANGED <<vars, wd, cuda>>

(* Nobody has written the file for file_age_limit.                         *)
Age ==
  /\ main \in {"down", "dead", "stuck"} /\ fresh
  /\ fresh' = FALSE
  /\ UNCHANGED <<vars, wd, cuda>>
----------------------------------------------------------------------------
(* The watchdog.                                                           *)

(* restart_all -> restart_driver: stop the server, the USRP drivers of this*)
(* computer and the CUDA driver, first by command and then by SIGTERM ...  *)
StopAll ==
  /\ wd = "check" /\ (~fresh \/ ~cuda)
  /\ wd' = "drivers" /\ cuda' = FALSE
  /\ main' = "down" /\ booting' = TRUE /\ scanning' = {}
  /\ proc' = [u \in Usrps |-> IF u \in Local THEN "down" ELSE proc[u]]
  /\ link' = [u \in Usrps |-> "none"]
  /\ synced' = [u \in Usrps |-> u \notin Local /\ synced[u]]
  /\ Abandoned
  /\ UNCHANGED <<cmd, lists, status, away, faults, fresh>>

(* ... start the drivers ...                                               *)
StartAllDrivers ==
  /\ wd = "drivers" /\ wd' = "server" /\ cuda' = TRUE
  /\ StartDrivers(Local)
  /\ UNCHANGED fresh

(* ... and delay_between_driver_and_server later the server.  Assumed      *)
(* (DriversInTime): the drivers listen by then.                            *)
DriversInTime == \A u \in Local : proc[u] # "starting"

StartAgain ==
  /\ wd = "server" /\ wd' = "wait"
  /\ DriversInTime
  /\ StartServer
  /\ UNCHANGED <<fresh, cuda>>

(* Mutant: no wait_after_restart_all.                                      *)
BugBootInTime == TRUE

(* The end of wait_after_restart_all.  Assumed (BootInTime; the code has a *)
(* TODO there): a server that boots has written the file by then.          *)
BootInTime == main \in {"down", "dead", "stuck"} \/ fresh

EndWait ==
  /\ wd = "wait" /\ BootInTime /\ wd' = "check"
  /\ UNCHANGED <<vars, fresh, cuda>>

(* Mutant: check_processes does not set the pid of a USRP to None.         *)
BugWatched == {}

(* The USRPs of this computer whose drivers check_processes does not find. *)
Watched == Missing \cap Local

(* usrpDriverWatcher.restart_usrps.                                        *)
RestartUsrps ==
  /\ wd = "check" /\ fresh /\ cuda
  /\ StartDrivers(Watched)
  /\ UNCHANGED watch

Watchdog == StopAll \/ StartAllDrivers \/ StartAgain \/ EndWait \/ RestartUsrps
----------------------------------------------------------------------------
KillCuda ==
  /\ cuda /\ faults < MaxFaults
  /\ cuda' = FALSE /\ faults' = faults + 1
  /\ UNCHANGED <<main, cmd, booting, cursor, lists, status, scanning, hosts,
                 link, synced, fresh, wd>>

Program == fresh /\ (StartPeriod \/ Scan) /\ UNCHANGED watch

Driver(u) ==
  /\ \/ StartRemote(u) \/ Listen(u) \/ Hang(u) \/ Kill(u) \/ Recover(u)
     \/ Leave(u) \/ Return(u)
  /\ UNCHANGED watch

SupervisedNext ==
  \/ MissCuda \/ Serve \/ Heartbeat \/ Age
  \/ Watchdog
  \/ KillCuda \/ Program
  \/ \E u \in Usrps : Driver(u)

(* The threads run and time passes; control programs, faults and the       *)
(* recovery of a driver that hangs need not come.                          *)
Fairness ==
  /\ WF_allVars(MissCuda) /\ WF_allVars(Serve)
  /\ WF_allVars(Heartbeat) /\ WF_allVars(Age)
  /\ WF_allVars(Watchdog)
  /\ \A u \in Usrps : WF_allVars(Listen(u) /\ UNCHANGED watch)

SupervisedSpec == SupervisedInit /\ [][SupervisedNext]_allVars /\ Fairness
----------------------------------------------------------------------------
(* A server that is not there, has lost its main thread or reads from a    *)
(* closed connection for ever serves again in the end, unless a host stays *)
(* away: the heartbeat, the watchdog, the order of the restart and the boot*)
(* work together.                                                          *)
ServerRecovers ==
  <>[](away = {}) => (main \in {"down", "dead", "stuck"} ~> main = "loop")

(* Control programs scan on a radar, and its USRPs are used; and they pause*)
(* on all radars for longer than the 60 s between two attempts to get lost *)
(* USRPs back.                                                             *)
Transmits(r) == main = "setup" /\ ~booting /\ r \in period

LongPauses ==
  []<>(main = "loop" /\ scanning = {}) /\ SF_allVars(Restore /\ UNCHANGED watch)

(* A USRP that can be used: its driver does not hang and its host can be   *)
(* reached; on another computer the driver has to run as well.             *)
Usable(u) ==
  proc[u] # "hung" /\ u \notin away /\ (u \notin Local => proc[u] = "up")

(* When control programs scan on all radars again and again, with long     *)
(* pauses, every USRP that stays usable is used again in the end: it is on *)
(* the list of its radar, and it answers.  The driver that is gone is      *)
(* started again, the connection that is dead is noticed, the server that  *)
(* fell over it is restarted, and the connection is made anew.             *)
UsrpsReturn ==
  LongPauses /\ (\A r \in Radars : []<>Transmits(r)) =>
    \A u \in Usrps : <>[]Usable(u) => <>[](InService(u) /\ Answers(u))
=============================================================================
