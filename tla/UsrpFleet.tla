----------------------------- MODULE UsrpFleet -----------------------------
(***************************************************************************)
(* usrpSockManager of usrp_server.py and the commands of the server to the *)
(* USRP drivers, one process per USRP.                                     *)
(*                                                                         *)
(* The server connects to all configured drivers when it starts, sets      *)
(* their clocks together, and then sends each command of an integration    *)
(* period to all drivers of a radar before it reads their answers one      *)
(* after the other.  A driver that does not answer in time is taken off    *)
(* the lists; the server tries to get it back while no radar is active.    *)
(*                                                                         *)
(* A read ends in one of three ways: with an answer; with an exception,    *)
(* when nothing came within the timeout or the connection was reset; or    *)
(* never, because recv_dtype goes on asking a socket the other side has    *)
(* closed (recv returns no bytes, and the loop counts bytes).              *)
(*                                                                         *)
(* A connection is refused when the driver does not listen; the attempt    *)
(* times out, or finds no route, when its host cannot be reached, which    *)
(* happens to drivers on other computers only.                             *)
(***************************************************************************)
EXTENDS Integers, Sequences, SequencesExt

CONSTANTS
  N_RADARs,    \* the number of radars
  Usrps,       \* the USRPs
  Local,       \* those whose driver_hostname is localhost
  Config,      \* per radar, its USRPs in the order of usrp_config.ini
  ErrorLimit,  \* error_limit of the watchdog
  MaxFaults    \* bound: failures of drivers

Radars == 0 .. N_RADARs - 1

ASSUME RadarsAssumption == N_RADARs \in Nat \ {0}
ASSUME ConfigAssumption ==
  /\ Config \in [Radars -> Seq(Usrps)]
  /\ \A u \in Usrps : \E r \in Radars : \E i \in DOMAIN Config[r] :
       /\ Config[r][i] = u
       /\ \A q \in Radars : \A k \in DOMAIN Config[q] :
            Config[q][k] = u => q = r /\ k = i
ASSUME LocalAssumption == Local \subseteq Usrps
ASSUME BoundAssumption == ErrorLimit \in Nat \ {0} /\ MaxFaults \in Nat

NoRadar == -1

(* The commands to the drivers, by what the server reads next.  "STALE" is *)
(* the command byte of GET_TIME in _resync_usrps, "RETRY" the same after    *)
(* times that do not agree, "META" the metadata and "READY" the command    *)
(* byte of USRP_READY_DATA.                                                *)
Commands == {"SYNC", "TIME", "STALE", "RETRY", "RXFE", "SETUP", "TRIGGER",
             "META", "READY"}

(* Those sent to the USRPs of all radars, eval_client_return with None.    *)
ToAll == {"SYNC", "TIME", "STALE", "RETRY"}

VARIABLES
  \* the server
  main,        \* what the main thread does
  cmd,         \* the command it is at
  booting,     \* whether the constructor is still running
  todo,        \* the radars whose answers have not been read
  period,      \* the radars triggered in this period
  clients,     \* cmd.clients of a command to all radars
  errs,        \* the CONNECTION_ERRORs still to be dealt with
  offset,      \* those dealt with
  jrad,        \* the radar they are looked for on, or NoRadar
  lost,        \* history: the USRPs whose read raised an exception
  socks,       \* socks and the four ..._active lists, per radar
  inactive,    \* the four ..._inactive lists, per radar
  allFailed,   \* all_usrps_report_failure
  errorsInARow,\* errors_in_a_row
  scanning,    \* the radars that are active
  \* the drivers
  proc,        \* the process of a driver
  away,        \* the USRPs whose host cannot be reached
  link,        \* its connection to the server
  synced,      \* whether its clock was set by the last USRP_SYNC
  faults       \* failures so far

cursor  == <<todo, period, clients, errs, offset, jrad, lost>>
lists   == <<socks, inactive>>
status  == <<allFailed, errorsInARow>>
hosts   == <<proc, away>>
drivers == <<hosts, link, synced, faults>>
vars    == <<main, cmd, booting, cursor, lists, status, scanning, drivers>>

TypeOK ==
  /\ main \in {"down", "connect", "loop", "send", "receive", "remove",
               "setup", "dead", "stuck"}
  /\ cmd \in Commands /\ booting \in BOOLEAN
  /\ todo \subseteq Radars /\ period \subseteq Radars
  /\ clients \in Seq(Usrps) /\ errs \in Seq(Nat) /\ offset \in Nat
  /\ jrad \in Radars \cup {NoRadar} /\ lost \subseteq Usrps
  /\ socks \in [Radars -> Seq(Usrps)] /\ inactive \in [Radars -> Seq(Usrps)]
  /\ allFailed \in BOOLEAN /\ errorsInARow \in Nat
  /\ scanning \subseteq Radars
  /\ proc \in [Usrps -> {"down", "starting", "up", "hung"}]
  /\ away \subseteq Usrps \ Local
  /\ link \in [Usrps -> {"none", "open", "closed", "reset"}]
  /\ synced \in [Usrps -> BOOLEAN] /\ faults \in Nat

Init ==
  /\ main = "down" /\ cmd = "SYNC" /\ booting = TRUE
  /\ todo = {} /\ period = {} /\ clients = <<>>
  /\ errs = <<>> /\ offset = 0 /\ jrad = NoRadar /\ lost = {}
  /\ socks = [r \in Radars |-> <<>>] /\ inactive = [r \in Radars |-> <<>>]
  /\ allFailed = FALSE /\ errorsInARow = 0 /\ scanning = {}
  /\ proc = [u \in Usrps |-> "down"] /\ away = {}
  /\ link = [u \in Usrps |-> "none"]
  /\ synced = [u \in Usrps |-> FALSE] /\ faults = 0
----------------------------------------------------------------------------
(* Lists.                                                                  *)

(* s without its element k.                                                *)
Without(s, k) == [i \in 1 .. Len(s) - 1 |-> IF i < k THEN s[i] ELSE s[i + 1]]

(* The elements of s that are in S, in their order.                        *)
Those(s, S) ==
  LET keep[n \in 0 .. Len(s)] ==
        IF n = 0 THEN <<>>
        ELSE IF s[n] \in S THEN Append(keep[n - 1], s[n]) ELSE keep[n - 1]
  IN  keep[Len(s)]

(* np.concatenate(self.socks): the sockets of all radars.                  *)
AllSocks ==
  LET below[n \in 0 .. N_RADARs] ==
        IF n = 0 THEN <<>> ELSE below[n - 1] \o socks[n - 1]
  IN  below[N_RADARs]

InService(u) == \E r \in Radars : u \in ToSet(socks[r])
Listed(s, u) == \E r \in Radars : u \in ToSet(s[r])

(* The loops over the radars run upwards.                                  *)
First(R) == CHOOSE r \in R : \A q \in R : r <= q

(* A listening port accepts a connection even if nobody serves it.         *)
Reachable == {u \in Usrps : proc[u] \in {"up", "hung"}} \ away
----------------------------------------------------------------------------
(* How a read from a driver ends.                                          *)

Answers(u) == link[u] = "open" /\ proc[u] = "up" /\ u \notin away
Endless(u) == link[u] = "closed"

(* The exception tells of a reset once: later the connection reads as      *)
(* closed.                                                                 *)
Drained(L) ==
  [u \in Usrps |-> IF u \in L /\ link[u] = "reset" THEN "closed" ELSE link[u]]

Clients == IF cmd \in ToAll THEN clients ELSE socks[First(todo)]

(* The positions of a list at which the read raised an exception.          *)
Errors(list) ==
  Those([i \in 1 .. Len(list) |-> i], {i \in DOMAIN list : ~Answers(list[i])})

(* The local variables of a call are gone when it ends.                    *)
Returned ==
  clients' = <<>> /\ errs' = <<>> /\ offset' = 0 /\ jrad' = NoRadar /\ lost' = {}

Abandoned == Returned /\ todo' = {} /\ period' = {}

(* The server process ends, and with it its connections.                   *)
Exit ==
  /\ main' = "down" /\ booting' = TRUE /\ scanning' = {}
  /\ link' = [u \in Usrps |-> "none"]
  /\ Abandoned
  /\ UNCHANGED <<cmd, lists, status, hosts, synced, faults>>

(* An exception nobody catches ends the constructor, and with it the       *)
(* process, or later the thread of the main loop, which leaves a process   *)
(* behind that serves nobody.                                              *)
Die ==
  \/ booting /\ Exit
  \/ /\ ~booting /\ main' = "dead"
     /\ Abandoned
     /\ UNCHANGED <<cmd, booting, lists, status, scanning, drivers>>

Stuck ==
  /\ main' = "stuck"
  /\ Abandoned
  /\ UNCHANGED <<cmd, booting, lists, status, scanning, drivers>>
----------------------------------------------------------------------------
(* The start of _resync_usrps.                                             *)
Resync == main' = "send" /\ cmd' = "SYNC"

(* srr.start_usrp_server.                                                  *)
StartServer ==
  /\ main = "down" /\ main' = "connect"
  /\ UNCHANGED <<cmd, booting, cursor, lists, status, scanning, drivers>>

(* usrpSockManager.__init__: one attempt per configured USRP.  A connection*)
(* that is refused is tried again later; any other error ends the          *)
(* constructor.                                                            *)
ConnectAll ==
  /\ main = "connect" /\ away = {}
  /\ socks' = [r \in Radars |-> Those(Config[r], Reachable)]
  /\ inactive' = [r \in Radars |-> Those(Config[r], Usrps \ Reachable)]
  /\ link' = [u \in Usrps |-> IF u \in Reachable THEN "open" ELSE "none"]
  /\ IF Reachable # {}
     THEN Resync
     ELSE main' = "down" /\ UNCHANGED cmd
  /\ errorsInARow' = 0
  /\ UNCHANGED <<booting, cursor, allFailed, scanning, hosts, synced, faults>>

NoRoute == main = "connect" /\ away # {} /\ Exit

Connect == ConnectAll \/ NoRoute

(* restore_lost_connections, which the main loop calls while no radar is   *)
(* active; when one came back all clocks are set again.                    *)
Restore ==
  /\ main = "loop" /\ scanning = {} /\ \E r \in Radars : inactive[r] # <<>>
  /\ socks' = [r \in Radars |-> socks[r] \o Those(inactive[r], Reachable)]
  /\ inactive' = [r \in Radars |-> Those(inactive[r], Usrps \ Reachable)]
  /\ link' = [u \in Usrps |->
                IF u \in Reachable /\ Listed(inactive, u) THEN "open"
                ELSE link[u]]
  /\ \E u \in Reachable : Listed(inactive, u)
  /\ Resync
  /\ UNCHANGED <<booting, cursor, status, scanning, hosts, synced, faults>>
----------------------------------------------------------------------------
(* driver_command.transmit, for all radars concerned.  An error while      *)
(* sending is logged and forgotten: what is left of a connection that was  *)
(* reset reads like a closed one.                                          *)
Send ==
  /\ main = "send"
  /\ main' = "receive"
  /\ clients' = IF cmd \in {"SYNC", "TIME"} THEN AllSocks ELSE clients
  /\ todo' = IF cmd = "RXFE" THEN Radars ELSE period
  /\ errs' = <<>> /\ offset' = 0
  /\ allFailed' = TRUE
  /\ UNCHANGED <<cmd, booting, period, jrad, lost, lists, errorsInARow,
                 scanning, drivers>>

(* USRP_SYNC sets the clocks of those that answer; with one of them it may *)
(* fail ("why does USRP synchronization fail?").                           *)
SetClocks ==
  LET set == {u \in ToSet(clients) : Answers(u)} IN
  \/ synced' = [u \in Usrps |-> u \in set] /\ UNCHANGED faults
  \/ /\ faults < MaxFaults /\ faults' = faults + 1
     /\ \E f \in set : synced' = [u \in Usrps |-> u \in set \ {f}]

(* client_return, or receive_all_metadata, of one command: the answers are *)
(* read in the order of the list.  What a driver does with the command is  *)
(* done when it answers.                                                   *)
Receive ==
  /\ main = "receive" /\ cmd # "TIME"
  /\ IF \E i \in DOMAIN Clients : Endless(Clients[i])
     THEN Stuck
     ELSE /\ main' = "remove"
          /\ errs' = Errors(Clients) /\ offset' = 0
          /\ lost' = {Clients[i] : i \in ToSet(errs')}
          /\ jrad' = IF cmd \in ToAll THEN NoRadar ELSE First(todo)
          /\ link' = Drained(lost')
          /\ IF cmd = "SYNC" THEN SetClocks ELSE UNCHANGED <<synced, faults>>
          /\ UNCHANGED <<cmd, booting, todo, period, clients, lists, status,
                         scanning, hosts>>

(* Mutant: the times are only logged.                                      *)
BugTimesAgree == TRUE

(* The check of _resync_usrps that the times it got are the same.          *)
TimesAgree ==
  LET timed == {u \in ToSet(clients) : Answers(u)} IN
  \A u, v \in timed : u # v => synced[u] /\ synced[v]

(* The loop over recv_time in _resync_usrps, which removes the USRPs it    *)
(* gets an exception for; "TIME" then goes on to read the command byte of  *)
(* all the sockets it started with.                                        *)
ReceiveTimes ==
  /\ main = "receive" /\ cmd = "TIME"
  /\ IF \E i \in DOMAIN clients : Endless(clients[i])
     THEN Stuck
     ELSE /\ lost' = {u \in ToSet(clients) : ~Answers(u)}
          /\ socks' = [r \in Radars |-> Those(socks[r], Usrps \ lost')]
          /\ inactive' = [r \in Radars |->
                            inactive[r] \o Those(socks[r], lost')]
          /\ link' = Drained(lost')
          /\ cmd' = IF TimesAgree THEN "STALE" ELSE "RETRY"
          /\ UNCHANGED <<main, booting, todo, period, clients, errs, offset,
                         jrad, status, scanning, hosts, synced, faults>>
----------------------------------------------------------------------------
(* eval_client_return.                                                     *)

(* Mutant: one socket too few is counted as removed.                       *)
BugBadPosition == Head(errs) - offset + 1

(* The radar and the index of the next socket to remove.  Without a radar  *)
(* the error is looked for in the sockets of all radars, and the radar it  *)
(* is found on is kept for the errors that follow.                         *)
BadPosition == Head(errs) - offset

BadRadar ==
  IF jrad # NoRadar THEN jrad
  ELSE CHOOSE r \in Radars : AllSocks[BadPosition] \in ToSet(socks[r])

BadIndex ==
  IF jrad # NoRadar THEN BadPosition
  ELSE CHOOSE i \in DOMAIN socks[BadRadar] :
         socks[BadRadar][i] = AllSocks[BadPosition]

(* Whether the index is one of the list, or an IndexError.                 *)
BadExists ==
  BadPosition <= Len(IF jrad # NoRadar THEN socks[jrad] ELSE AllSocks)

(* Mutant: remove_sock forgets the USRP.                                   *)
BugRemoveSock(r, k) ==
  /\ socks' = [socks EXCEPT ![r] = Without(@, k)]
  /\ UNCHANGED inactive

(* Mutant: the index is kept, not the address.                             *)
BugKept(r, k) ==
  /\ socks' = [socks EXCEPT ![r] = Without(@, k)]
  /\ inactive' = [inactive EXCEPT ![r] = Append(@, k)]

(* remove_sock.                                                            *)
RemoveSock(r, k) ==
  /\ socks' = [socks EXCEPT ![r] = Without(@, k)]
  /\ inactive' = [inactive EXCEPT ![r] = Append(@, socks[r][k])]

(* The body of its loop, for one error.                                    *)
RemoveLost ==
  /\ main = "remove" /\ errs # <<>>
  /\ IF BadExists
     THEN /\ RemoveSock(BadRadar, BadIndex)
          /\ jrad' = BadRadar /\ errs' = Tail(errs) /\ offset' = offset + 1
          /\ UNCHANGED <<main, cmd, booting, todo, period, clients, lost,
                         status, scanning, drivers>>
     ELSE Die
----------------------------------------------------------------------------
(* The end of eval_client_return: sockets that were removed are closed by  *)
(* now, and the server exits when none is left.  AfterEval is where the    *)
(* caller goes on.                                                         *)
Goto(m, c, R) == main' = m /\ cmd' = c /\ todo' = R

AfterEval ==
  LET more == todo \ {First(todo)} IN
  CASE cmd = "SYNC"    -> Goto("send", "TIME", {})
    [] cmd = "STALE"   -> Goto("send", "RXFE", {})
    [] cmd = "RETRY"   -> Goto("send", "SYNC", {})
    [] cmd = "RXFE"    -> IF more # {} THEN Goto("receive", cmd, more)
                          ELSE IF booting THEN Goto("setup", "SETUP", Radars)
                          ELSE Goto("loop", cmd, {})
    [] cmd = "TRIGGER" -> IF more # {} THEN Goto("receive", cmd, more)
                                       ELSE Goto("send", "META", {})
    [] cmd = "META"    -> Goto("receive", "READY", todo)
    [] cmd = "READY"   -> IF more # {} THEN Goto("receive", "META", more)
                                       ELSE Goto("loop", cmd, {})

Evaluated ==
  /\ main = "remove" /\ errs = <<>> /\ cmd # "META"
  /\ IF \A r \in Radars : socks[r] = <<>>
     THEN Exit
     ELSE /\ AfterEval
          /\ link' = [u \in Usrps |->
                        IF Listed(socks, u) THEN link[u] ELSE "none"]
          /\ Returned
          /\ UNCHANGED <<booting, period, lists, status, scanning, hosts,
                         synced, faults>>

(* After the metadata of a radar: its USRPs may report that they received  *)
(* no samples, and watchdog() ends the server when all USRPs have done so  *)
(* ErrorLimit times in a row.                                              *)
EvaluatedMetadata ==
  /\ main = "remove" /\ errs = <<>> /\ cmd = "META"
  /\ \E failed \in BOOLEAN :
       LET none == allFailed /\ (failed \/ socks[First(todo)] = <<>>)
           row  == IF none THEN errorsInARow + 1 ELSE 0 IN
       /\ failed => faults < MaxFaults
       /\ IF \/ row >= ErrorLimit
             \/ \A r \in Radars : socks[r] = <<>>
          THEN Exit
          ELSE /\ AfterEval
               /\ allFailed' = none /\ errorsInARow' = row
               /\ link' = [u \in Usrps |->
                             IF Listed(socks, u) THEN link[u] ELSE "none"]
               /\ Returned
               /\ faults' = IF failed THEN faults + 1 ELSE faults
               /\ UNCHANGED <<booting, period, lists, scanning, hosts, synced>>
----------------------------------------------------------------------------
(* Reads outside of eval_client_return: an exception is not caught there.  *)
(* A loop over no socket leaves the names of the results unbound, and      *)
(* socks[r][0] of an empty list is an IndexError.                          *)
Unprotected(list) ==
  IF list = <<>> THEN Die
  ELSE LET first == Head(Errors(list)) IN
       IF Endless(list[first]) THEN Stuck ELSE Die

AllAnswer(list) == list # <<>> /\ \A i \in DOMAIN list : Answers(list[i])

(* USRP_SETUP of one radar, in send_usrp_setup_command and in              *)
(* trigger_next_swing, which then takes the time of the first USRP of the  *)
(* first radar for the trigger time.                                       *)
Setup ==
  /\ main = "setup" /\ todo # {}
  /\ IF AllAnswer(socks[First(todo)])
     THEN /\ todo' = todo \ {First(todo)}
          /\ UNCHANGED <<main, cmd, booting, period, clients, errs, offset,
                         jrad, lost, lists, status, scanning, drivers>>
     ELSE Unprotected(socks[First(todo)])

EndSetup ==
  /\ main = "setup" /\ todo = {}
  /\ IF booting
     THEN /\ main' = "loop" /\ booting' = FALSE
          /\ UNCHANGED <<cmd, cursor, lists, status, scanning, drivers>>
     ELSE LET one == IF socks[0] = <<>> THEN <<>> ELSE <<Head(socks[0])>> IN
          IF AllAnswer(one)
          THEN /\ Goto("send", "TRIGGER", {})
               /\ UNCHANGED <<booting, period, clients, errs, offset, jrad,
                              lost, lists, status, scanning, drivers>>
          ELSE Unprotected(one)

(* trigger_next_swing for the radars that have a channel to transmit.      *)
StartPeriod ==
  /\ main = "loop"
  /\ \E R \in SUBSET scanning :
       /\ R # {} /\ period' = R /\ todo' = R
  /\ main' = "setup" /\ cmd' = "SETUP"
  /\ UNCHANGED <<booting, clients, errs, offset, jrad, lost, lists, status,
                 scanning, drivers>>

(* record_clrfreq_raw_samples for a radar: the time of its first USRP,     *)
(* then samples of all of them.                                            *)
ClearFreq ==
  /\ main = "loop"
  /\ \E r \in scanning : ~AllAnswer(socks[r]) /\ Unprotected(socks[r])

(* Control programs start and end scans.  radar_active may change while    *)
(* the main thread is busy, but is read at the top of its loop.            *)
Scan ==
  /\ main = "loop"
  /\ \E r \in Radars :
       \/ scanning' = scanning \cup {r}
       \/ scanning' = scanning \ {r}
  /\ scanning' # scanning
  /\ UNCHANGED <<main, cmd, booting, cursor, lists, status, drivers>>
----------------------------------------------------------------------------
(* The drivers.  srr.start_usrps_from_config, or the watchdog, starts some *)
(* of this computer; those of others are started there.                    *)
StartDrivers(D) ==
  /\ D # {}
  /\ proc' = [u \in Usrps |-> IF u \in D THEN "starting" ELSE proc[u]]
  /\ UNCHANGED <<main, cmd, booting, cursor, lists, status, scanning, away,
                 link, synced, faults>>

Missing == {u \in Usrps : proc[u] = "down"}

StartRemote(u) == u \in Missing \ Local /\ StartDrivers({u})

(* One that is started opens its USRP and listens; one that hangs does not *)
(* answer in time; one that dies (also by its own exit, after              *)
(* MAX_STREAM_RESETS or without lock of its clock) has its connection      *)
(* closed, or reset if a command was left unread, or if its host could not *)
(* tell of it.                                                             *)
Listen(u) ==
  /\ proc[u] = "starting"
  /\ proc' = [proc EXCEPT ![u] = "up"]
  /\ UNCHANGED <<main, cmd, booting, cursor, lists, status, scanning, away,
                 link, synced, faults>>

Fault ==
  /\ faults < MaxFaults /\ faults' = faults + 1
  /\ UNCHANGED <<main, cmd, booting, cursor, lists, status, scanning>>

Hang(u) ==
  /\ proc[u] = "up" /\ Fault
  /\ proc' = [proc EXCEPT ![u] = "hung"]
  /\ UNCHANGED <<away, link, synced>>

Kill(u) ==
  /\ proc[u] # "down" /\ Fault
  /\ proc' = [proc EXCEPT ![u] = "down"]
  /\ \E l \in {"closed", "reset"} :
       /\ l = "closed" => u \notin away
       /\ l = "reset" => u \in away \/ main = "receive"
       /\ link' = IF link[u] = "open" THEN [link EXCEPT ![u] = l] ELSE link
  /\ synced' = [synced EXCEPT ![u] = FALSE]
  /\ UNCHANGED away

Recover(u) ==
  /\ proc[u] = "hung"
  /\ proc' = [proc EXCEPT ![u] = "up"]
  /\ UNCHANGED <<main, cmd, booting, cursor, lists, status, scanning, away,
                 link, synced, faults>>

(* The host of a driver, or the way to it, fails and comes back.           *)
Leave(u) ==
  /\ u \notin Local \cup away /\ Fault
  /\ away' = away \cup {u}
  /\ UNCHANGED <<proc, link, synced>>

Return(u) ==
  /\ u \in away
  /\ away' = away \ {u}
  /\ UNCHANGED <<main, cmd, booting, cursor, lists, status, scanning, proc,
                 link, synced, faults>>

Server ==
  \/ Connect \/ Restore \/ Send \/ Receive \/ ReceiveTimes \/ RemoveLost
  \/ Evaluated \/ EvaluatedMetadata \/ Setup \/ EndSetup \/ ClearFreq

----------------------------------------------------------------------------
(* Every configured USRP is on one list of its radar, once: in service or  *)
(* waiting for a reconnection.  The lists are changed by the constructor,  *)
(* remove_sock, the loop over recv_time and restore_lost_connections; a    *)
(* USRP that falls between them is never asked for again.                  *)
EachUsrpOnce ==
  main \notin {"connect", "down"} =>
    \A r \in Radars :
      LET all == socks[r] \o inactive[r] IN
      /\ ToSet(all) = ToSet(Config[r])
      /\ Len(all) = Len(Config[r])

(* The USRPs of a period have had their clocks set by the same USRP_SYNC,  *)
(* unless there is one only: the trigger is a time, and a clock that was   *)
(* not set with the others transmits at another moment.  USRPs are lost,   *)
(* come back and fail to set their clocks, and the wrong ones are removed. *)
TriggeredInSync ==
  main = "receive" /\ cmd = "TRIGGER" =>
    LET on == {u \in UNION {ToSet(socks[r]) : r \in period} : Answers(u)} IN
    \A u, v \in on : u # v => synced[u] /\ synced[v]

(* No command to the USRPs of a radar takes one out of service that has    *)
(* answered.  The server works with positions in lists that shrink under   *)
(* its hands; where it looks for them on all radars it goes wrong          *)
(* (OnlyLostRemoved).                                                      *)
KeepsHealthy ==
  [][cmd \notin ToAll /\ main # "connect" =>
       \A u \in Usrps : InService(u) /\ u \notin lost' => InService(u)']_vars

(* "Connection lost to USRP ... Removing it from sock list."               *)
OnlyLostRemoved ==
  [][main # "connect" =>
       \A u \in Usrps : InService(u) /\ u \notin lost' => InService(u)']_vars
=============================================================================
