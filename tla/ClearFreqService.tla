-------------------------- MODULE ClearFreqService --------------------------
(***************************************************************************)
(* The clear frequency service: the exchange between the threads of        *)
(* usrp_server.py (class ClearFrequencyService) and the process            *)
(* clear_frequency_server, through shared memory and nine semaphores.      *)
(*                                                                         *)
(* A client waits for sf_client, writes its data, raises the flags that    *)
(* say which data it wrote, and posts sf_server; the server works on it,   *)
(* writes its answer and posts sf_processed.  The semaphores sl_* guard    *)
(* parts of the shared memory.  There are two kinds of sessions:           *)
(* send_samples, for raw samples, and request_clr_freq, for a clear        *)
(* frequency.  Data is named by the call it belongs to; what the server    *)
(* computes of it is not modelled.  The raw data is that of one radar.     *)
(*                                                                         *)
(* evaluate_clear_freq runs with two semaphores of usrp_server.py taken,   *)
(* select_clear_freq and set_par_semaphore.  The second one belongs to     *)
(* SET_PARAMETERS and initialize_channel, which may themselves ask for a   *)
(* clear frequency; it is not reentrant.                                   *)
(***************************************************************************)
EXTENDS Integers, FiniteSets

CONSTANTS
  Clients,      \* the threads of usrp_server.py that use the service
  Senders,      \* those that send samples on their own account: the main
                \* thread, in record_new_data or update_auto_clear_freq_data
  MayFail,      \* those that may meet an exception, of the USRPs when they
                \* record or of write_data
  MaxCalls,     \* bound: calls of one thread
  MayCrash,     \* whether the server may be stopped
  MayMute       \* whether send_samples may find no antenna to send

ASSUME ClientsAssumption ==
  /\ IsFiniteSet(Clients) /\ {"free"} \cap Clients = {}
  /\ Senders \subseteq Clients /\ MayFail \subseteq Clients
ASSUME BoundAssumption ==
  MaxCalls \in Nat /\ MayCrash \in BOOLEAN /\ MayMute \in BOOLEAN

Flags == {"sf_client", "sf_server", "sf_samples", "sf_init", "sf_clrfreq",
          "sf_processed"}
Locks == {"sl_samples", "sl_init", "sl_clrfreq"}
Semaphores == Flags \cup Locks

(* A call: the client and its number; NoCall is what is in memory that was *)
(* set to zero.                                                            *)
NoCall == <<"free", 0>>
Call == (Clients \X Nat) \cup {NoCall}

VARIABLES
  sem,       \* the semaphores
  \* shared memory
  common,    \* radar id and center frequency: written by both kinds
  meta,      \* whether the antennas and the other meta data are there
  samples, params,       \* the samples and the parameters of a request
  muted, clear,          \* the answers: muted antennas, clear frequency
  \* the server
  server,    \* where the loop is
  known,     \* whether meta_data.num_antennas is set
  cur,       \* cur_radar and usrp_fcenter as read last
  job,       \* the samples or parameters it works on
  \* usrp_server.py
  pc, op,    \* where a thread is, and in which of the two methods
  calls,     \* how many calls it has made
  got,       \* what its last session brought
  dead,      \* threads that ended with an exception
  select,    \* the holder of select_clear_freq
  setPar,    \* the holder of set_par_semaphore
  haveRaw,   \* whether rawData is there
  timed,     \* whether recordTime is set
  mapped     \* whether the shared memory is mapped: premap_shm

memory  == <<common, meta, samples, params, muted, clear>>
loop    == <<server, known, cur, job>>
raw     == <<haveRaw, timed>>
shared  == <<select, setPar, raw, mapped>>
threads == <<pc, op, calls, got, dead, shared>>
vars    == <<sem, memory, loop, threads>>

Init ==
  /\ sem = [s \in Semaphores |-> IF s \in Locks THEN 1 ELSE 0]
  /\ common = NoCall /\ meta = FALSE /\ samples = NoCall /\ params = NoCall
  /\ muted = NoCall /\ clear = NoCall
  /\ server = "offer" /\ known = FALSE /\ cur = NoCall /\ job = NoCall
  /\ pc = [c \in Clients |-> "idle"]
  /\ op = [c \in Clients |-> "send"]
  /\ calls = [c \in Clients |-> 0]
  /\ got = [c \in Clients |-> NoCall]
  /\ dead = {} /\ select = "free" /\ setPar = "free"
  /\ haveRaw = FALSE /\ timed = FALSE /\ mapped = FALSE

(* Mutant: a semaphore is taken without counting it down.                  *)
BugTaken(s) == sem

Taken(s) == [sem EXCEPT ![s] = @ - 1]
Posted(s) == [sem EXCEPT ![s] = @ + 1]

(* A lock is released, and a flag is raised.                               *)
Released(l, s) == [sem EXCEPT ![l] = @ + 1, ![s] = @ + 1]
----------------------------------------------------------------------------
(* The threads of usrp_server.py.                                          *)

MyCall(c) == <<c, calls[c]>>

Goto(c, l) == pc' = [pc EXCEPT ![c] = l]

At(c, l) == pc[c] = l /\ c \notin dead

(* The beginning of a call.                                                *)
Begin(c, to) ==
  /\ At(c, "idle") /\ calls[c] < MaxCalls
  /\ calls' = [calls EXCEPT ![c] = @ + 1]
  /\ Goto(c, to)

(* record_new_data of the main loop, for an outstanding request.           *)
Send(c) ==
  /\ c \in Senders /\ Begin(c, "record")
  /\ UNCHANGED <<sem, memory, loop, op, got, dead, shared>>

(* It takes samples of the USRPs and keeps them before it sends them; when *)
(* they were recorded is set after they were sent.                         *)
Record(c) ==
  /\ At(c, "record")
  /\ haveRaw' = TRUE
  /\ op' = [op EXCEPT ![c] = "send"]
  /\ Goto(c, "premap")
  /\ UNCHANGED <<sem, memory, loop, calls, got, dead, select, setPar, timed,
                 mapped>>

(* update_auto_clear_freq_data sets both, one after the other, and sends.  *)
Update(c) ==
  /\ c \in Senders /\ Begin(c, "stamp")
  /\ haveRaw' = TRUE
  /\ op' = [op EXCEPT ![c] = "send"]
  /\ UNCHANGED <<sem, memory, loop, got, dead, select, setPar, timed, mapped>>

Stamp(c) ==
  /\ At(c, "stamp")
  /\ timed' = TRUE
  /\ Goto(c, "premap")
  /\ UNCHANGED <<sem, memory, loop, op, calls, got, dead, select, setPar,
                 haveRaw, mapped>>

(* SET_PARAMETERS and initialize_channel hold set_par_semaphore until they *)
(* are done; SET_PARAMETERS waits for its control program inside.          *)
SetParameters(c) ==
  /\ Begin(c, "setpar") /\ setPar = "free"
  /\ setPar' = c
  /\ UNCHANGED <<sem, memory, loop, op, got, dead, select, raw, mapped>>

Return(c) ==
  /\ At(c, "setpar")
  /\ setPar' = "free"
  /\ Goto(c, "idle")
  /\ UNCHANGED <<sem, memory, loop, op, calls, got, dead, select, raw, mapped>>

(* evaluate_clear_freq, for GET_DATA, REQUEST_ASSIGNED_FREQ or the trigger,*)
(* or for one of the two that hold set_par_semaphore.                      *)
Evaluate(c) ==
  /\ \/ Begin(c, "select")
     \/ At(c, "setpar") /\ Goto(c, "select") /\ UNCHANGED calls
  /\ UNCHANGED <<sem, memory, loop, op, got, dead, shared>>

(* One thread at a time ...                                                *)
Select(c) ==
  /\ At(c, "select") /\ select = "free"
  /\ select' = c
  /\ Goto(c, "par")
  /\ UNCHANGED <<sem, memory, loop, op, calls, got, dead, setPar, raw, mapped>>

(* ... and none beside SET_PARAMETERS.  A thread that holds the semaphore  *)
(* already never gets it.                                                  *)
TakePar(c) ==
  /\ At(c, "par") /\ setPar = "free"
  /\ setPar' = c
  /\ Goto(c, "raw")
  /\ UNCHANGED <<sem, memory, loop, op, calls, got, dead, select, raw, mapped>>

(* get_raw_data records samples when there are none.                       *)
NoRawData(c) ==
  /\ At(c, "raw") /\ ~haveRaw
  /\ Goto(c, "record")
  /\ UNCHANGED <<sem, memory, loop, op, calls, got, dead, shared>>

(* Of those that are there it computes the age ...                         *)
GetRawData(c) ==
  /\ At(c, "raw") /\ haveRaw /\ timed
  /\ op' = [op EXCEPT ![c] = "request"]
  /\ Goto(c, "enter")
  /\ UNCHANGED <<sem, memory, loop, calls, got, dead, shared>>

(* ... and dies of samples that have no time yet.                          *)
Timeless(c) ==
  /\ At(c, "raw") /\ haveRaw /\ ~timed
  /\ dead' = dead \cup {c}
  /\ UNCHANGED <<sem, memory, loop, pc, op, calls, got, shared>>

(* Mutant: the time of the samples is not kept.                            *)
BugAfterSend(c) ==
  /\ UNCHANGED timed
  /\ IF select = c THEN op' = [op EXCEPT ![c] = "request"] /\ Goto(c, "enter")
                   ELSE Goto(c, "idle") /\ UNCHANGED op

(* After send_samples the time is set; evaluate_clear_freq goes on with its*)
(* request.                                                                *)
AfterSend(c) ==
  /\ timed' = TRUE
  /\ IF select = c THEN op' = [op EXCEPT ![c] = "request"] /\ Goto(c, "enter")
                   ELSE Goto(c, "idle") /\ UNCHANGED op

(* Data that is not too old is not recorded again.                         *)
Fresh(c) ==
  /\ At(c, "record") /\ timed
  /\ AfterSend(c)
  /\ UNCHANGED <<sem, memory, loop, calls, got, dead, select, setPar, haveRaw,
                 mapped>>

NoAntennas(c) ==
  /\ At(c, "premap") /\ MayMute
  /\ AfterSend(c)
  /\ UNCHANGED <<sem, memory, loop, calls, got, dead, select, setPar, haveRaw,
                 mapped>>

Premap(c) ==
  /\ At(c, "premap")
  /\ mapped' = TRUE
  /\ Goto(c, "enter")
  /\ UNCHANGED <<sem, memory, loop, op, calls, got, dead, select, setPar, raw>>

(* Mutant: the turn of the client is not used up.                          *)
BugEntered == sem
Entered == Taken("sf_client")

Enter(c) ==
  /\ At(c, "enter") /\ sem["sf_client"] > 0
  /\ sem' = Entered
  /\ Goto(c, IF op[c] = "send" THEN "initLock" ELSE "paramLock")
  /\ UNCHANGED <<memory, loop, op, calls, got, dead, shared>>

(* The acquisition of a lock.                                              *)
Acquire(c, from, l, to) ==
  /\ At(c, from) /\ sem[l] > 0
  /\ sem' = Taken(l)
  /\ Goto(c, to)
  /\ UNCHANGED <<memory, loop, op, calls, got, dead, shared>>

InitLock(c)   == Acquire(c, "initLock", "sl_init", "initWrite")
SampleLock(c) == Acquire(c, "sampleLock", "sl_samples", "sampleWrite")
ParamLock(c)  == Acquire(c, "paramLock", "sl_clrfreq", "paramWrite")
MutedLock(c)  == op[c] = "send" /\ Acquire(c, "answer", "sl_samples", "read")
ClearLock(c)  == op[c] = "request" /\ Acquire(c, "answer", "sl_clrfreq", "read")

InitWrite(c) ==
  /\ At(c, "initWrite")
  /\ common' = MyCall(c) /\ meta' = TRUE
  /\ sem' = Released("sl_init", "sf_init")
  /\ Goto(c, "sampleLock")
  /\ UNCHANGED <<samples, params, muted, clear, loop, op, calls, got, dead,
                 shared>>

SampleWrite(c) ==
  /\ At(c, "sampleWrite")
  /\ common' = MyCall(c) /\ samples' = MyCall(c)
  /\ sem' = Released("sl_samples", "sf_samples")
  /\ Goto(c, "ask")
  /\ UNCHANGED <<meta, params, muted, clear, loop, op, calls, got, dead, shared>>

(* request_clr_freq: there is no mapping to write to before the first      *)
(* send_samples.                                                           *)
ParamWrite(c) ==
  /\ At(c, "paramWrite") /\ mapped
  /\ common' = MyCall(c) /\ params' = MyCall(c)
  /\ sem' = Released("sl_clrfreq", "sf_clrfreq")
  /\ Goto(c, "ask")
  /\ UNCHANGED <<meta, samples, muted, clear, loop, op, calls, got, dead,
                 shared>>

(* An exception of the USRPs or of write_data passes through all methods:  *)
(* the lock, the turn and the two semaphores stay taken.                   *)
Fail(c) ==
  /\ \/ pc[c] \in {"record", "initWrite", "sampleWrite", "paramWrite"}
        /\ c \in MayFail
     \/ pc[c] = "paramWrite" /\ ~mapped
  /\ c \notin dead
  /\ dead' = dead \cup {c}
  /\ UNCHANGED <<sem, memory, loop, pc, op, calls, got, shared>>

(* Mutant: the turn is given back with the request to the server.          *)
BugAsked == [sem EXCEPT !["sf_server"] = @ + 1, !["sf_client"] = @ + 1]
Asked == Posted("sf_server")

Ask(c) ==
  /\ At(c, "ask")
  /\ sem' = Asked
  /\ Goto(c, "wait")
  /\ UNCHANGED <<memory, loop, op, calls, got, dead, shared>>

Wait(c) == Acquire(c, "wait", "sf_processed", "answer")

ReadMuted(c) ==
  /\ At(c, "read") /\ op[c] = "send"
  /\ got' = [got EXCEPT ![c] = muted]
  /\ sem' = Posted("sl_samples")
  /\ AfterSend(c)
  /\ UNCHANGED <<memory, loop, calls, dead, select, setPar, haveRaw, mapped>>

(* Mutant: set_par_semaphore is not given back.                            *)
BugReadClear(c) ==
  /\ At(c, "read") /\ op[c] = "request"
  /\ got' = [got EXCEPT ![c] = clear]
  /\ sem' = Posted("sl_clrfreq")
  /\ select' = "free"
  /\ Goto(c, "idle")
  /\ UNCHANGED <<memory, loop, op, calls, dead, setPar, raw, mapped>>

(* evaluate_clear_freq ends, and gives both semaphores back.               *)
ReadClear(c) ==
  /\ At(c, "read") /\ op[c] = "request"
  /\ got' = [got EXCEPT ![c] = clear]
  /\ sem' = Posted("sl_clrfreq")
  /\ select' = "free" /\ setPar' = "free"
  /\ Goto(c, "idle")
  /\ UNCHANGED <<memory, loop, op, calls, dead, raw, mapped>>

Recording(c) == Record(c) \/ Fresh(c) \/ Stamp(c) \/ NoAntennas(c) \/ Premap(c)

Evaluation(c) ==
  \/ Evaluate(c) \/ Select(c) \/ TakePar(c) \/ NoRawData(c) \/ GetRawData(c)
  \/ Timeless(c)

Session(c) ==
  \/ Enter(c) \/ InitLock(c) \/ InitWrite(c) \/ SampleLock(c) \/ SampleWrite(c)
  \/ ParamLock(c) \/ ParamWrite(c) \/ Fail(c) \/ Ask(c) \/ Wait(c)
  \/ MutedLock(c) \/ ClearLock(c) \/ ReadMuted(c) \/ ReadClear(c)

Thread(c) ==
  \/ Send(c) \/ Update(c) \/ SetParameters(c) \/ Return(c)
  \/ Recording(c) \/ Evaluation(c) \/ Session(c)
----------------------------------------------------------------------------
(* clear_frequency_server: the loop of main.                               *)

Offer ==
  /\ server = "offer"
  /\ sem' = Posted("sf_client") /\ server' = "await"
  /\ UNCHANGED <<memory, known, cur, job, threads>>

(* sem_wait                                                                *)
Await(from, s, to) ==
  /\ server = from /\ sem[s] > 0
  /\ sem' = Taken(s) /\ server' = to
  /\ UNCHANGED <<memory, known, cur, job, threads>>

(* Mutant: the result of sem_trywait is not looked at.                     *)
BugTry(from, s, yes, no) ==
  /\ server = from
  /\ sem' = Taken(s) /\ server' = IF sem[s] > 0 THEN yes ELSE no
  /\ UNCHANGED <<memory, known, cur, job, threads>>

(* sem_trywait on a flag                                                   *)
Try(from, s, yes, no) ==
  /\ server = from
  /\ IF sem[s] > 0 THEN sem' = Taken(s) /\ server' = yes
                   ELSE UNCHANGED sem /\ server' = no
  /\ UNCHANGED <<memory, known, cur, job, threads>>

(* Mutant: a signal interrupts the wait, and its result is not looked at.  *)
BugAwaitClient ==
  /\ server = "await" /\ server' = "init"
  /\ UNCHANGED <<sem, memory, known, cur, job, threads>>

AwaitClient == Await("await", "sf_server", "init")
TryInit     == Try("init", "sf_init", "initLock", "samples")
LockInit    == Await("initLock", "sl_init", "initRead")

ReadInit ==
  /\ server = "initRead"
  /\ known' = meta
  /\ sem' = Posted("sl_init") /\ server' = "samples"
  /\ UNCHANGED <<memory, cur, job, threads>>

(* Samples of antennas it does not know end the server.                    *)
TrySamples  == Try("samples", "sf_samples",
                   IF known THEN "sampleLock" ELSE "stopped", "clrfreq")
LockSamples == Await("sampleLock", "sl_samples", "sampleRead")

ReadSamples ==
  /\ server = "sampleRead"
  /\ job' = samples /\ cur' = common
  /\ sem' = Posted("sl_samples") /\ server' = "process"
  /\ UNCHANGED <<memory, known, threads>>

(* The muted antennas are written without a lock.                          *)
Process ==
  /\ server = "process"
  /\ muted' = job
  /\ sem' = Posted("sf_processed") /\ server' = "offer"
  /\ UNCHANGED <<common, meta, samples, params, clear, known, cur, job, threads>>

(* So does a session without a flag.                                       *)
TryRequest  == Try("clrfreq", "sf_clrfreq", "searchLock", "stopped")
LockRequest == Await("searchLock", "sl_clrfreq", "searchRead")

ReadRequest ==
  /\ server = "searchRead"
  /\ job' = params /\ cur' = common
  /\ server' = "search"
  /\ UNCHANGED <<sem, memory, known, threads>>

Search ==
  /\ server = "search"
  /\ clear' = job
  /\ sem' = Released("sl_clrfreq", "sf_processed") /\ server' = "offer"
  /\ UNCHANGED <<common, meta, samples, params, muted, known, cur, job, threads>>

Server ==
  \/ Offer \/ AwaitClient \/ TryInit \/ LockInit \/ ReadInit \/ TrySamples
  \/ LockSamples \/ ReadSamples \/ Process \/ TryRequest \/ LockRequest
  \/ ReadRequest \/ Search

(* A signal ends the server.  One that is started again makes semaphores of*)
(* its own: the threads of usrp_server.py keep those they have opened, and *)
(* never meet it.                                                          *)
Crash ==
  /\ MayCrash /\ server \notin {"stopped", "crashed"}
  /\ server' = "crashed"
  /\ UNCHANGED <<sem, memory, known, cur, job, threads>>

Next == Server \/ Crash \/ \E c \in Clients : Thread(c)

Spec == Init /\ [][Next]_vars

(* Both processes are scheduled; a call that was made goes on.  Nothing is *)
(* assumed of a thread in SET_PARAMETERS: its control program may never    *)
(* send what it waits for.                                                 *)
Going(c) == Thread(c) /\ pc[c] \notin {"idle", "setpar"}

FairSpec == Spec /\ WF_vars(Server) /\ \A c \in Clients : WF_vars(Going(c))
----------------------------------------------------------------------------
Point == {"idle", "setpar", "select", "par", "raw", "record", "stamp",
          "premap", "enter", "initLock", "initWrite",
          "sampleLock", "sampleWrite", "paramLock", "paramWrite", "ask", "wait",
          "answer", "read"}
ServerPoint == {"offer", "await", "init", "initLock", "initRead", "samples",
                "sampleLock", "sampleRead", "process", "clrfreq", "searchLock",
                "searchRead", "search", "stopped", "crashed"}

(* Type correctness: no semaphore ever falls below zero.                   *)
TypeOK ==
  /\ sem \in [Semaphores -> Nat]
  /\ common \in Call /\ meta \in BOOLEAN /\ samples \in Call
  /\ params \in Call /\ muted \in Call /\ clear \in Call
  /\ server \in ServerPoint /\ known \in BOOLEAN /\ cur \in Call /\ job \in Call
  /\ pc \in [Clients -> Point] /\ op \in [Clients -> {"send", "request"}]
  /\ calls \in [Clients -> Nat] /\ got \in [Clients -> Call]
  /\ dead \subseteq Clients /\ select \in Clients \cup {"free"}
  /\ setPar \in Clients \cup {"free"}
  /\ haveRaw \in BOOLEAN /\ timed \in BOOLEAN /\ mapped \in BOOLEAN

(* The threads that hold a lock, those that died with it included, and     *)
(* where the server does.                                                  *)
Inside(l) ==
  {c \in Clients :
     \/ l = "sl_init" /\ pc[c] = "initWrite"
     \/ l = "sl_samples" /\ pc[c] = "sampleWrite"
     \/ l = "sl_samples" /\ pc[c] = "read" /\ op[c] = "send"
     \/ l = "sl_clrfreq" /\ pc[c] = "paramWrite"
     \/ l = "sl_clrfreq" /\ pc[c] = "read" /\ op[c] = "request"}

ServerInside(l) ==
  \/ l = "sl_init" /\ server = "initRead"
  \/ l = "sl_samples" /\ server = "sampleRead"
  \/ l = "sl_clrfreq" /\ server \in {"searchRead", "search"}

(* A part of the shared memory that has a lock is used by one thread or by *)
(* the server, and never by two, whatever fails.                           *)
LockExclusion ==
  \A l \in Locks :
    /\ \A c, d \in Inside(l) : c = d
    /\ Inside(l) # {} => ~ServerInside(l)

(* Between sf_client and sf_server a thread has the shared memory, and the *)
(* server, to itself.                                                      *)
InSession == {c \in Clients :
                pc[c] \in {"initLock", "initWrite", "sampleLock", "sampleWrite",
                           "paramLock", "paramWrite", "ask"}}

OneSession ==
  /\ \A c, d \in InSession : c = d
  /\ InSession # {} => server \in {"await", "crashed"}

(* The loop never finds a session without its data: it does not end by one *)
(* of the exits "semaphore leak or error in order of operations".          *)
NeverStopped == server # "stopped"

(* What the server works on comes from one call: the radar and the center  *)
(* frequency, which both kinds of sessions write, are those of the samples *)
(* or of the parameters.                                                   *)
OneSource == server \in {"process", "search"} => job = cur

(* Samples without a time are there only while their first recording is    *)
(* under way, or after it has died: every other thread finds an age.       *)
SendsSamples(c) ==
  \/ pc[c] = "stamp"
  \/ op[c] = "send" /\ pc[c] \in {"premap", "enter", "initLock", "initWrite",
                                  "sampleLock", "sampleWrite", "ask", "wait",
                                  "answer", "read"}

RawHasTime == haveRaw /\ ~timed => \E c \in Clients : SendsSamples(c)

(* What ends the service for good: the server is stopped, or a thread has  *)
(* died between sf_client and sf_server.                                   *)
TurnLost ==
  \/ server \in {"stopped", "crashed"}
  \/ \E c \in dead : pc[c] \in {"initWrite", "sampleWrite", "paramWrite"}

(* What ends the evaluations, with select_clear_freq or set_par_semaphore  *)
(* taken: a thread has died inside; one has asked for a clear frequency    *)
(* with set_par_semaphore already held; or one waits in SET_PARAMETERS for *)
(* its control program.                                                    *)
EvaluationLost ==
  \/ TurnLost \/ select \in dead
  \/ \E c \in Clients : setPar = c /\ pc[c] \in {"setpar", "select", "par"}

(* Every call ends, unless its thread dies.  One that has come as far as   *)
(* the samples or the server is held up by nothing but a turn that is lost,*)
(* whatever becomes of the evaluations of others; an evaluation is held up *)
(* also by a loss of the two semaphores that lasts.                        *)
Ended(c) == pc[c] = "idle" \/ c \in dead

Served(c) == pc[c] \notin {"idle", "setpar", "select", "par", "raw"}

Answered ==
  \A c \in Clients :
    /\ Served(c) ~> Ended(c) \/ TurnLost
    /\ pc[c] # "idle" ~> Ended(c) \/ []EvaluationLost

(* A clear frequency is that of the own request, with its channel, its beam*)
(* and its range.                                                          *)
OwnAnswer ==
  [][\A c \in Clients : ReadClear(c) => got'[c] = MyCall(c)]_vars
============================================================================
