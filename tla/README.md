# Verification of the SuperDARN USRP server

TLA+ models of the control software in `src/`, checked with TLC on small
instances and, where it matters most, proved with TLAPS for every value of the
constants.

## 1. The system

The software runs one or more HF radars. Control programs ("RST" programs of the
site library, not part of the repository) connect over TCP to `usrp_server.py`,
each as one *channel* of one radar. A control program describes a *scan* (a
list of beams, one *integration period* each) and then asks, period after
period, for parameters to be set, a period to be triggered and the samples to
be returned. All channels of all radars share the hardware and are transmitted
and received together.

| component | source | state | operations |
|---|---|---|---|
| main loop, `RadarHardwareManager` | `usrp_server.py` 1811-3395 | lists of channels (new, active, registered), common parameters, per radar flags, the two swings, `trigger_next_function_running` | spawn a handler, `initialize_channel`, `trigger_next_swing`, `unregister_channel_from_HardwareManager`, hardware set-up |
| `RadarChannelHandler`, one thread per control program | 3398-4488 | state and next state of each swing, `triggered_swing_list`, `resultDict_list`, the control program's parameters | SET_RADAR_CHAN, SET_ACTIVE, SET_PARAMETERS, SET_READY, GET_DATA, SET_INACTIVE, clear frequency requests, QUIT |
| `scanManager`, `swingManager` | 1563-1808 | period index, pre/post/first flags, beam and frequency lists | `init_new_scan`, `period_finished`, `isLastPeriod`, `next_beam`, switch of the swings |
| clear frequency service, client | 587-1560 | shared memory, 9 semaphores, raw data and its age | `send_samples`, `request_clr_freq`, `set_data`, `get_raw_data` |
| clear frequency server | `cf_server/` (C) | the same shared memory, table of reserved clear ranges | one loop: receive meta data, samples or a request; search; reply |
| `usrpSockManager` | 162-415 | sockets, addresses, antennas, silent USRPs, pulse times | `eval_client_return`, `remove_sock`, `restore_lost_connections`, `watchdog` |
| `usrpMixingFreqManager` | 417-585 | mixing frequency and bands in use per radar | `add_new_freq_band` |
| integration time, status log | 81-160 | clock offsets | estimates of transfer times, a log line a minute |
| receiver front end (gains, muting) | 3167-3395 | GPIO bits | set from the configuration |
| CUDA driver | `cuda_driver/` | sequences and buffers of both swings, a semaphore per swing | SETUP, ADD_CHANNEL, REMOVE_CHANNEL, GENERATE_PULSE, PROCESS, GET_DATA |
| USRP driver, one process per USRP | `usrp_driver/` (C++) | ST_INIT, ST_READY, ST_PULSE; sample buffers of both swings | SETUP, RXFE_SET, TRIGGER_PULSE, READY_DATA, CLRFREQ, SYNC |
| protocol library | `python_include/` | none | message layouts, blocking sockets |
| operator scripts, watchdog | `srr.py`, `tools/srr_watchdog.py` | processes, age of the status file | start, stop, restart |
| configuration, tests, tools | `config/`, `tools/` | none | |

How they interact. The server sends a command to all CUDA or USRP drivers and
waits for every answer: those are calls. Drivers exchange samples through
shared memory, one segment per *swing*; there are two swings, 0 and 1, and
while the *active* swing is transmitted the *processing* swing, recorded one
period earlier, is filtered, collected and prepared for the period after next.
The main loop and the handlers share Python objects: lists and flags without a
lock, `set_par_semaphore` and `channel_remove_semaphore` for two purposes, and
busy waits on states. The clear frequency server is reached through POSIX
shared memory and nine named semaphores.

What is hard. The handlers and the main loop wait for each other through states
that all of them write. Each swing of a channel goes through six states
(`CS_INACTIVE`, `CS_READY`, `CS_TRIGGER`, `CS_PROCESSING`, `CS_SAMPLES_READY`,
`CS_LAST_SWING`); the first, second and last period of a scan are special cases
(one period is only prepared, one is triggered by the server, one SET_READY
transmits nothing). Control programs join while others are in a scan, leave at
any time, and their scans have different lengths. A period may find no time for
a single sequence, in which case nothing is transmitted and what is collected
later has to be flagged. `PROJECT.json` lists these hazards line by line with
the properties that look after them.

What makes each component correct:

- *swing pipeline*: GET_DATA returns the period that was asked for, with its own
  parameters, samples and pulse times, valid only if it was transmitted; every
  GET_DATA is answered and every scan ends; the states of a swing follow the
  life of a period; only compatible channels share the hardware; counts, lists
  and flags of the channels agree; a thread that fails leaves nothing behind;
- *scan bookkeeping*: periods in order, camping scans never end;
- *clear frequency service*: a client gets the answer to its own request, the
  shared memory is used by one process at a time, nobody waits for ever;
- *clear frequency reservation*: no two channels are given overlapping ranges;
- *socket manager*: every USRP is on one list, the ones removed are those that
  did not answer, a lost one comes back, synchronised;
- *watchdog*: whatever process fails, the system serves again;
- *USRP and CUDA drivers*: a segment is not written by one while the other uses
  it; what is transmitted and what is delivered belong to their period, also
  when drivers lag behind or fail;
- *mixing frequency*: every band in use lies within the bandwidth of the radar.

## 2. Plan

In order of importance, and of what the next module needs:

1. `ScanManager`, `RadarServer`, `ScanService`, `RadarServerRefines`: the swing
   pipeline, its promise to a control program; its safety proved, as far as it
   holds in general (section 5). *Done.*
2. `ClearFreqService`: the semaphore protocol between `usrp_server.py` and the
   clear frequency server, its safety proved. *Done.* Then `ClearFreqReservation`:
   the clear ranges and the reservations of the channels, checked against a
   reference definition of "no two channels overlap".
3. `UsrpFleet` and `SupervisedFleet`: the lists of USRPs, the removal of silent
   ones, reconnection and resynchronisation, the watchdog. *Done.*
4. `SwingMemory`, `CudaDriver`, `UsrpDriver` and their composition
   `SampleChain`, with the commands of the server in the order it sends them;
   types and the exclusion of the buffers proved. *Done.*
5. The channel registry of SET_RADAR_CHAN, `usrpMixingFreqManager` as a pure
   algorithm, the transmit worker, scans that start at their last beam. (The lock
   order of the server, `select_clear_freq` before a `set_par_semaphore` that may
   already be held, is in `ClearFreqService`.)

Abstract specifications worth stating: `ScanService` (done), a set of reserved
intervals (2). Theorems worth proving next: the data properties of `RadarServer`
for several channels of equal scans on one radar, started together;
`SwingAgreement` and `RadarsOfChannelsActive` for such programs; the registry and
the reservations, once there are modules for them.

## 3. Modules and code

| module | models |
|---|---|
| `ScanManager` | `scanManager` as functions on a record: `period_finished`, `init_new_scan`, `isLastPeriod`, `camping`, the next period |
| `RadarServer` | main loop, `trigger_next_swing`, `initialize_channel`, the command handlers, the removal of channels |
| `RadarServerMC` | values of the constants of `RadarServer`, for the runs of it and of the refinement |
| `ScanService`, `ScanServiceMC` | abstract specification of the service to a control program |
| `RadarServerRefines` | the refinement mapping from `RadarServer` to `ScanService` |
| `ClearFreqService`, `ClearFreqServiceMC` | both sides of the clear frequency exchange |
| `UsrpFleet` | `usrpSockManager` and every exchange of the server with the USRP drivers, as far as it can fail |
| `SupervisedFleet`, `SupervisedFleetMC` | `UsrpFleet` with the status file, the watchdog and the start and stop of the processes |
| `SwingMemory` | the segments of shared memory between CUDA driver and USRP drivers |
| `CudaDriver` | the commands of `cuda_driver.py` |
| `UsrpDriver` | SETUP, TRIGGER_PULSE and READY_DATA of `usrp_driver.cpp`, its workers, its failures |
| `SampleChain`, `SampleChainMC` | the two drivers under the commands of the server |
| `ScanServiceProofs`, `ClearFreqServiceProofs` | theorems about the module in their name |
| `RadarServerProofs` | types and locks of `RadarServer` |
| `RadarServerStageProofs` | the stages of a channel in the pipeline, and what follows for lists, counts and states |
| `RadarServerDataProofs` | which parameters, sequences and samples take which way, and the life of a swing |
| `RadarServerServiceProofs` | the refinement of `ScanService`; a control program that is alone on the server |
| `SampleChainProofs` | theorems about `SampleChain`: the order of the commands, then the data |
| `SupervisedFleetProofs` | theorems about `UsrpFleet` and `SupervisedFleet` |

Operators named `Bug...` are mutated forms of the definition that follows them,
the way a plausible mistake would change it. No specification uses them; they
show that the properties notice.

### RadarServer

State. `channels`, `activeChannels`, `newChannels` are the lists of the same
names over all radars; a list is a set, and a loop over one takes its elements
in any order. `state`, `nextState`, `triggered`, `results` are per channel what
a handler keeps (`state`, `next_state`, `triggered_swing_list`,
`resultDict_list`, newest first as in the code). Data is the index of the
period it belongs to: `payload` for the control program's parameter structure,
`cudaSeq` and `txBuf` for the sequences and transmit buffers in the CUDA driver,
`rx` for the samples of a swing, `label` and `data` for the two halves of a
result. So "the right samples with the right parameters" is an equation between
numbers that took different ways through the server.

The number of sequences of a period follows from the time that is left when it
is planned (2478-2492). What matters of it is whether it is zero (`LatePeriods`)
and, if `Uneven`, whether it may be smaller than that of the period before:
then a handler that sends a result with the pulse times of the other swing may
run out of them (`TooFewTimes`) and die of the `IndexError`. Without `Uneven` all
periods that are transmitted have the same number.

Steps. The main thread steps through `main`: `NoticeNew`, `AwaitActive`,
`AwaitSetPar`, `InitStart`, `InitEnd` (`initialize_channel`), `Arm` (all
channels in CS_TRIGGER), and for `trigger_next_swing` `Start`, `Setup`, `Fire`,
`Collect`, `Finish`, `AddLast`/`AddNotActive`/`AddUpdate`/`AddSend` (CUDA_ADD of
the next period, one channel at a time), `Generate`, `ReadyClear`, `ReadyStore`
(USRP_READY_DATA), `Switch`, `AutoTrigger`, `End`. A handler steps through
`pc[c]`, a command being one to three steps, cut where the code waits or where
another thread may come in: `SetActive`, `AwaitTriggerEnd`, `StartScan`,
`StoreParameters`, `TakeParameters`, `Register`, `CompareParameters`,
`SetReady`, `TriggerSwing`, `GetData`, `SendResults`, `EndGetData`,
`SetInactive`, `Quit`, `LoseConnection`, `AwaitTrigger`, `Unlist`, `EndQuit`.

How a handler ends. QUIT, a lost connection and the timeout of a wait all remove
the channel (`Quit`). Of the places at which SET_PARAMETERS can end with
`set_par_semaphore` held, only the timeout gives it back (4031-4038). A
connection that is lost while it receives (3974, 3995, 4018) raises an
`OSError`, which is handled outside of the handler (1878): the channel is
removed, the semaphore and `n_SetParameterHandlers_active` stay as they are
(`LoseConnection`; the holder is then "lost"), and no program registers any
more. A peer that closes its connection in good order raises nothing: the read
goes on for ever (`socket_utils.py` 15), which is a handler that takes no step.
That is why no run with a program that may leave has liveness properties. Any
other exception leaves a handler "dead", and its channel in the lists.

Granularity. Between two steps any thread may run. Within a step of the main
thread the global interpreter lock could be given to a handler as well; the steps
are cut at the commands to the drivers, where it always is, and at the two
updates of shared data that take two statements, which are split when
`Preemptible` is TRUE and taken together otherwise (`MayRun`). Four steps join
more: `InitStart`, `Collect` and `AddLast` send their commands to the CUDA
driver, one after the other, within one step, because no handler changes what
they read in between except by leaving; and `Register` joins the end of the wait
(3986), the test of the state and the reception. No state is lost by that: a
swing the wait has found in CS_INACTIVE only becomes CS_READY through this very
registration, and one found in CS_PROCESSING keeps a state with the same branch
until this handler's own SET_READY. `InTime` says
that every control program sends its parameters within the 100 ms
`initialize_channel` waits for it; *leave* drops it.

Environment. A control program sends SET_ACTIVE, then SET_PARAMETERS, SET_READY,
GET_DATA for each period and SET_INACTIVE; this order is that of the site
library, known here only from how the handlers use it. `MayLeave` programs may
quit, disconnect or run into a timeout between commands and while they wait;
`MayStop` programs may stop within a scan.

### ClearFreqService

State. `sem` has the nine semaphores; `common`, `samples`, `params`, `muted`,
`clear` are the parts of the shared memory, each holding the call that wrote it;
`meta` says whether the antennas were ever sent. `common` is what both kinds of
session write: the radar id (shared memory object 9) and the center frequency
(object 1). On the side of `usrp_server.py` there are `select`, the holder of
`select_clear_freq`, `setPar`, that of `set_par_semaphore`, and the raw data:
`haveRaw` and `timed` say whether `rawData` and `recordTime` are set.

Steps. A thread (`pc`, `op`) and the server (`server`) take one step from one
semaphore operation to the next. A call is one of four: `Send` (the main loop
records for an outstanding request), `Update` (the samples collected with a
period), `SetParameters` and `Evaluate`. `Evaluate` is `evaluate_clear_freq`: it
takes `select_clear_freq` (`Select`) and `set_par_semaphore` (`TakePar`, 1748),
then looks at the raw data (`NoRawData`, `GetRawData`, `Timeless`), and gives both
back at the end (`ReadClear`). It is called from GET_DATA and the trigger, but
also from within SET_PARAMETERS and `initialize_channel`, which hold
`set_par_semaphore` already. The semaphore is not reentrant: such a call stays
at `par` for ever, and `select_clear_freq` with it.

Failures. `Fail` is an exception while samples are recorded or data is written:
the `except` clauses name three exceptions and catch one, and nothing releases
the semaphores. A request that finds the memory unmapped fails too. `Timeless`
is the `TypeError` of 1556: the first recording sets `rawData` (1529) before the
session with the server and `recordTime` (1537) after it, and who asks for the
data in between computes with None. `Crash` is the end of the server by a signal
or by one of its exits for data out of range; one that is started again unlinks
the old semaphores (`cleanup`), so for the threads of `usrp_server.py` it never
comes back. The exits for faulty flags are the state "stopped". The counter of
active clients and `soft_kill` are left out, and the time a recording stays
fresh: a new one is made or not (`Record`, `Fresh`).

### UsrpFleet and SupervisedFleet

State. `socks` stands for `socks` and the four lists that run along with it,
`inactive` for the four of the USRPs without a connection; the code appends to,
deletes from and assigns these lists together. `main` and `cmd` say where the
main thread is: sending a command, reading answers, removing the USRPs that gave
none. `errs`, `offset` and `jrad` are the variables of the loop of
`eval_client_return`: positions in the list as it was, the number removed since,
and the radar, which the loop itself sets when it was called without one.

Steps. `Connect` and `Restore` are the constructor and
`restore_lost_connections`; `Send`, `Receive`, `RemoveLost` (one error),
`Evaluated` are a command, `client_return` and `eval_client_return`;
`ReceiveTimes` is the loop over `recv_time` in `_resync_usrps`, after which the
command byte of the same command is read from the old list ("STALE", or "RETRY" when the
times did not agree and all is done again);
`EvaluatedMetadata` counts the periods no USRP recorded (`watchdog`); `Setup`,
`EndSetup` and `ClearFreq` are the exchanges in which nothing catches an
exception. `Die` is an exception nobody catches: the constructor ends the
process, a later one only the thread of the main loop.

Hosts. The drivers of `Local` run on the computer of the server, which starts
and watches them; the others run elsewhere (`driver_hostname`), are started
there (`StartRemote`), and their host may be out of reach for a while (`away`,
`Leave`, `Return`). The constructor catches a refused connection only (223): it
connects to all (`ConnectAll`) if every host can be reached, and otherwise ends
with the process (`NoRoute`), for one USRP out of reach. `Restore` catches
every exception.

How a read ends. An open connection to a driver that runs gives an answer. A
driver that hangs or whose host is away, or a connection that was reset, gives an
exception, the latter once: afterwards it reads as closed (`Drained`). A connection the driver has closed gives neither: `recv_dtype` counts bytes and
gets none for ever, also past the timeout (`socket_utils.py` 10-24). The main
thread is then `stuck`.

`SupervisedFleet` adds the status file (`fresh`), which the main loop writes,
and the watchdog (`wd`), which reads it: an old file or a missing CUDA driver
makes it stop everything, start the drivers, and after a delay the server
(`StopAll`, `StartAllDrivers`, `StartAgain`), then wait (`EndWait`); a missing
USRP driver is started alone (`RestartUsrps`). All of that acts on the drivers
whose `driver_hostname` is localhost (`Watched`; `srr.py` 564, `srr_watchdog.py`
74). It is the watchdog started with
the argument `server`, as its usage says; `srr.py` starts it without
(section 6).

### SampleChain

State. A sequence, a waveform and the samples are known by the *number* of the
period they belong to. `sequences` and `mixing` are per swing in the CUDA
driver; `filters` and `bb`, the filtered samples, exist once. `shmTx` and
`shmRx` are the segments; `txSamples` and `rxBuffer` are the copies the USRP
driver keeps, and `state` is its ST_INIT, ST_READY, ST_PULSE per swing.

Steps. The server (`srv`) sends a command (`CallCuda`, `CallUsrps`) and goes on
when it was answered. One period is `Trigger`, `Setup`, `TriggerPulse`,
`GetSamples`, `Prepare`, `PrepareChannel`, `EndPrepare`, `Generate`,
`ReadyData`, `Switch`, `Process`: the commands of `trigger_next_swing` in its
order. `StartScan` to `GenerateFirst` are SET_ACTIVE, SET_PARAMETERS and
`initialize_channel`; `Stop` is SET_INACTIVE, `Leave` and `Unregister` are
`unregister_channel_from_HardwareManager`. Answers come before the work is done
where the code sends them so: CUDA_PROCESS answers and then filters,
TRIGGER_PULSE answers and then waits for its workers. What the drivers have
started goes on while the server sends its next commands.

Failures. A receive error, a driver that hangs and goes on later with what is in
its socket (`Resume`), the exit of a driver that lost its clock. The server
takes a USRP that is silent out of service (`Lose`) and clears its segments if
the radar is on its own computer (`Local`).

The semaphores between the drivers are left out because they lock nothing: the
C++ functions take a `sem_t` by value. `NoOverlap` says that nothing is lost by
that.

## 4. Runs

Bounds: `MaxScans` SET_ACTIVE commands per program, `MaxCalls` calls per thread;
scans of three or four beams, the shortest in which the first, an inner, the
last but one and the last period differ (two in *leave*, whose programs leave and
stop anyway); one or two channels and one or two
radars, the numbers that distinguish "one of several" from "the last one".
Two scans in a row show what a scan leaves behind for the next. The swing, the
only modular counter of the server, is modelled as it is. For the USRPs: three on
one radar, the number at which a position may be that of another one after a
removal, and one on the radar before it, which shifts the positions in the list
of all and can lose its last, one of the four on another computer; two failures, so
that one may come while the other is dealt with; an `ErrorLimit` of two, which is
counted and reset. *usrp_fleet*, which checks liveness too, has two USRPs on the
second radar: the smallest fleet in which one radar can lose all its USRPs while
the other goes on, and each kind of host is there beside another USRP of its
radar. Its safety with more of them is proved (section 5). For the
sample chain: a scan of three periods (first, inner, last) within four, or of two
within three, so that a second scan follows one that was stopped or left early;
two channels, of which one may stop and one may leave; two mixing frequencies;
one failure.

| run | instance | what holds |
|---|---|---|
| one_channel | one program, two scans of four beams, started at beam 0 or 1, beams 2 and 3 may find no time | `DeliveredPeriod`: GET_DATA brings the period asked for with its own parameters and samples; `UntriggeredIsInvalid`; `NoOverwrite`: no swing comes round before its result was taken; `DiesOnlyOvertaken`: no thread dies but a handler that sends while the fewer pulse times of the other swing are already there; `SwingLife`; `GetDataAnswered`; 17,055 states |
| pair | two programs on one radar, two scans of three beams | `RegisteredCount`; `GeneratedForSwing`: what is transmitted was generated for it; `WaitsForNextSwing`; `SwingAgreement`; `TriggerOnlyWhenReady`; `KeepsPromise`: the pipeline implements `ScanService` |
| two_radars | a scan of three beams on one radar, a camping program on the other, five activations each; the first may leave at any time, and beam 2 may find no time; 471,197 states | `RadarsOfChannelsActive`, also when a program leaves while the other is in the pipeline; `DeliveredPeriod` (a camping program moves on no period) |
| leave | two programs that want different parameters on one radar, one may leave at any time, one may stop within a scan, parameters may be late; 299,472 states | `TypeOK`; `CommonParameters`: never are both registered; `SetParExclusion`: also when a connection is lost within SET_PARAMETERS, which gives nothing back; `TriggeredMatchesState` |
| pulse_times | one program | `PulseTimesMatch` is violated (section 6) |
| service_order | `ScanService` alone | `InOrder` |
| clear_freq | main thread and handler, two calls each, both may die, the server may be stopped; 62,051 states | `TypeOK`, `LockExclusion`, `OneSession`, `NeverStopped`, `OneSource`; `RawHasTime`: samples without a time belong to a recording under way, or dead; `Answered`: a call ends, unless one of the losses it names keeps it |
| clear_freq_swap | the same without failures | `OwnAnswer` is violated (section 6) |
| usrp_fleet | two radars with one and two USRPs, two failures, the watchdog; 417,061 states | `EachUsrpOnce`: no USRP falls between the lists; `TriggeredInSync`: who transmits had its clock set with the others; `KeepsHealthy`: only a USRP that failed is removed by a command to its radar; `ServerRecovers`: once every host can be reached, the server serves again; `UsrpsReturn`: a USRP that stays usable is in service and answers in the end |
| usrp_lost | two radars with one and three USRPs | `OnlyLostRemoved` is violated (section 6) |
| sample_chain | one local radar, scans of three periods, one failure; 1,163,514 states | `OwnSamples`: GET_DATA brings the samples of its period, filtered for it, or zeros; `TransmitsOwn`: a waveform is of its period and for the frequency tuned; `NoOverlap`; `NoLeftOvers`: no sequence stays behind in a swing; `CudaInStep` |
| sample_chain_live | one remote radar, scans of two periods, one failure; 339,882 states | `PeriodsGoOn`: every period comes to an end; `OwnSamples` where the segments of a lost USRP are not cleared |

Four choices keep the passing runs on ground the code holds. Period 0 is never
late (a first period without time leaves `pulse_times` empty: section 6); scans
do not start at their last beam (its collection unregisters the channel before
its second prepared swing is taken back, and SET_PARAMETERS waits until its
timeout); *pair* is not `Uneven`, because the service it is compared with knows no
handler that dies, while all other runs of the pipeline are; in *two_radars* no
GET_DATA is promised, as a camping program that is
activated no more holds all others up by design of the trigger condition.
Deadlock is checked where programs complete their scans and in *usrp_fleet*;
*two_radars*, *leave* and *clear_freq* say CHECK_DEADLOCK FALSE because threads may die there
or the server be stopped, and then the rest waits; *usrp_lost* because it looks
for one violation only; *sample_chain*
and *sample_chain_live* because the periods are bounded and a server that died
is not started again.

Fairness. `RadarServer`: weak fairness of the main thread and of each handler
that serves a command. They are threads of one process with busy waits and
sleeps, none of them holds the interpreter lock while it waits, and a condition
one of them waits for stays true until that thread moves: weak fairness is
enough. That a control program sends its next command is assumed (it is what it
runs for); that it starts another scan, stops or leaves is not.
`ClearFreqService`: weak fairness of the server and of each thread within a
call, except in SET_PARAMETERS, where it waits for a control program that may
never send. `sem_wait` promises no order among several waiters, but the calls are
finitely many, so no waiter can be passed over for ever. `Answered` assumes
nothing else; it says what may keep a call from its end. A thread that has come to
the samples or the server ends or dies, unless the turn is lost: the server is
stopped, or a thread has died within a session (`TurnLost`). An evaluation that
waits before that may also wait for ever behind a loss of the two semaphores that
lasts (`EvaluationLost`): a holder that died, one that called for an evaluation
with `set_par_semaphore` held, one that stays in SET_PARAMETERS. A holder that is
only slow is not among them.
`SupervisedFleet`: weak fairness of the server, its heartbeat, the watchdog, a
driver of this computer that starts, and of time (a file nobody writes gets old);
none of control programs, failures, the return of a host or the recovery of a
driver that hangs. What the properties need of these is their premise.
`ServerRecovers` assumes that from some time on no host is away: the constructor
fails for each that is. `UsrpsReturn` assumes that control programs scan on every
radar again and again, because a dead connection is noticed by a command and by
nothing else, and that all of them pause again and again for longer than the 60 s
between two attempts to reconnect (`LongPauses`); and it is about USRPs whose
driver hangs no more and, on another computer, has been started there. Its
conclusion is not only that the USRP is listed, but that it answers. Two times of the
scripts are assumptions, stated as guards: the drivers listen before the server
is started (`DriversInTime`), and a server that boots has written its file before
the watchdog looks again (`BootInTime`; the code says "TODO check if if time is
good", `srr_watchdog.py:14`). Without `BootInTime`, `ServerRecovers` fails: a
server is killed while it boots, again and again.
`SampleChain`: weak fairness of the server and both drivers, and of the socket
timeout for a driver that hangs; none for a connection that was closed, which is
read for ever.

## 5. Proofs

| theorem | holds for |
|---|---|
| `RadarServerProofs!TypeCorrect` | `Spec => []TypeOK`, any radars, channels, scans, options |
| `RadarServerProofs!Exclusion` | `Spec => []SetParExclusion`, any programs that leave, within SET_PARAMETERS too |
| `RadarServerStageProofs!StageInvariant` | `Spec => []StageInv`, any radars, channels, scans, start periods, late parameters, programs that leave; `MayStop = {}` |
| `RadarServerStageProofs!ParametersAgree`, `InFlightIsQueued`, `EntriesFilledOnce`, `OnlyPreparedTriggered` | `CommonParameters`, `TriggeredMatchesState`, `NoOverwrite`, `TriggerOnlyWhenReady`; `MayStop = {}` |
| `RadarServerStageProofs!CountedExactly` | `RegisteredCount`; `MayStop = MayLeave = {}` |
| `RadarServerStageProofs!AnsweredInTurn` | GET_DATA answers with the swing waited for and its period; `MayStop = {}` |
| `RadarServerDataProofs!OnAirIsUpcoming` | `GeneratedForSwing`; `MayStop = {}`, `~Preemptible`, `OneEach` |
| `RadarServerDataProofs!RightPeriodDelivered` | `DeliveredPeriod`; the same and `NoLateCamping` |
| `RadarServerDataProofs!UntransmittedIsFlagged` | `UntriggeredIsInvalid`; `MayStop = {}`, `OwnFlags`, `NoLateCamping` |
| `RadarServerDataProofs!SwingsLive` | the action property `SwingLife`; `MayStop = {}`, `OneEach` |
| `RadarServerServiceProofs!ServesScans` | `Spec /\ []Stays => Service!Spec`; `MayStop = {}`, `OwnFlags`, `NoCamping` |
| `RadarServerServiceProofs!AloneDiesOvertaken` | the action property `DiesOnlyOvertaken`; `Regular` |
| `RadarServerServiceProofs!AloneSwingsAgree`, `AloneWaitsRight`, `AloneRadarActive` | `SwingAgreement`, `WaitsForNextSwing`, `RadarsOfChannelsActive`; `Regular` |
| `RadarServerServiceProofs!ServesAlone` | `Spec => Service!Spec`; `Regular`, `NoCamping`, `~Uneven` |
| `ScanServiceProofs!InOrderAlways` | `Spec => []InOrder`, any channels and scan lengths |
| `ClearFreqServiceProofs!TypeCorrect` | `Spec => []TypeOK`: no semaphore falls below zero |
| `ClearFreqServiceProofs!LocksExclude` | `Spec => []LockExclusion` |
| `ClearFreqServiceProofs!SessionsExclude`, `ServerGoesOn`, `DataOfOneCall` | `OneSession`, `NeverStopped`, `OneSource`, any number of threads, any faults |
| `ClearFreqServiceProofs!TimesOfSamples` | `RawHasTime`, any number of threads, any faults |
| `SampleChainProofs!TypeCorrect` | `Spec => []TypeOK`, any USRPs, channels, frequencies, scan length and failures |
| `SampleChainProofs!Exclusion` | `Spec => []NoOverlap`: no segment is used from both sides at once |
| `SampleChainProofs!CudaKnowsChannels`, `NothingLeftOver` | `CudaInStep`, `NoLeftOvers`, whichever channels start, stop and leave |
| `SampleChainProofs!OwnWaveform` | `TransmitsOwn`, whatever USRPs fail or are lost |
| `SampleChainProofs!OwnRecording` | `OwnSamples`: GET_DATA delivers its own period, or zeros |
| `SupervisedFleetProofs!FleetTypes` | `Spec => []SupervisedTypeOK`, any radars, USRPs, limits and faults |
| `SupervisedFleetProofs!NoUsrpForgotten` | `EachUsrpOnce`, also when the wrong socket is removed |
| `SupervisedFleetProofs!ClocksAgree` | `TriggeredInSync` |
| `SupervisedFleetProofs!HealthyStay` | the action property `KeepsHealthy` |

`TypeOK` of `RadarServer` is proved action by action; the lemmas before it say
what the operators on scans, swings and sequences return. `SetParExclusion` is
inductive given the types: all actions but those of SET_PARAMETERS,
`initialize_channel` and the removal leave the semaphore and the places that
hold it alone. A holder is a handler in SET_PARAMETERS, one that left it by its
timeout and is being removed, one that died in it, the main thread, or nobody any
more ("lost"); the counter is one exactly for the holders that are not the main
thread. `InOrder` is inductive with the types; its proof looks at one
channel at a time.

*Stages.* What else is proved of the pipeline rests on one invariant,
`StageInv`. None of the properties is inductive, because each is about two
variables out of a dozen that three threads write. `Stages` lists instead the
stages of a channel: `Waiting` in `newChannelList`; in `RHM.channels` `Fresh`,
`Primed`, `Fired`, `Running` and `Shot`, or after a first trigger that
transmitted nothing `Missed` and `Lost`, and `Leaves` in the trigger that ends
its scan; and on no list `Quiet`, `Ended` or `Stuck`. A stage says at once where
the main thread may be, where the handler may be, the states of both swings,
`triggered_swing_list`, `resultDict_list` and how many periods the program still
expects. `Aligned` relates `nextSwingToTrigger` to the active swing, `Counted`
the counter to the lists. There is one lemma per step of a handler and of the
main thread; what such a step does to the *other* channels is a lemma of its
own. `MayStop` is empty because SET_INACTIVE within a scan leaves entries and
swings behind that break these properties (section 6); a program that leaves
before it is initialised stays counted, hence `MayLeave` in `CountedExactly`.

*Data.* `DataInv` adds where the period a piece of data belongs to comes from:
the sequence and the transmit buffer of the swing that is next (`Prepares`), and
each entry of `resultDict_list` before and after its samples (`Open`, `Sound`).
Its hypotheses are those without which the code is wrong. `~Preemptible`: a
SET_PARAMETERS may write into the structure between its update and its use.
`OneEach`, one channel to a radar: with scans of different lengths a radar
generates nothing for the longer one, and takes back its prepared swing
(section 6). `OwnFlags`: the flag of a swing that was not transmitted is kept
per radar. `NoLateCamping`: SET_ACTIVE of a camping program clears that flag.
`LifeInv` adds for `SwingLife` which swing may be taken back at the end of a
scan. The proofs say nothing about several channels of one radar; for equal
scans *pair* checks them.

*Service.* `ServeInv` says which step of the server is which step of the
service: `StartScan` begins a scan, `Fire` takes the period of every channel
on the air, `SendResults` delivers, the SET_INACTIVE at the end of the scan
closes it, and all else is a stutter. `Stays` is the condition that no handler
has left, be it by QUIT, by a timeout or by an exception: the service knows no
program that goes away in the middle of a scan, and a program with incompatible
parameters is turned away.

*A program alone.* For one program the condition is proved too. `AloneInv` says
that the radar is on while it is needed (`Switched`), that a trigger starts only
for a channel on the list (`InTurn`) and always transmits a first period
(`FirstShot`), that what is read in GET_DATA was stored (`Received`), and that
the two swing indices move together (`SwingsAgree`). One end remains, and
`AloneDiesOvertaken` says that it is the only one: the handler that sends while
the radar already has the pulse times of the other swing, and fewer of them. When
it has died the channel stays in the lists, so the invariant says of a state
either that all threads go on (`GoesOn`) or that this handler is dead
(`AloneDies`). `Regular` is the hypothesis: one channel, which does not leave or
stop, no preemption, and `BeginsWell`, the two choices of section 4 (the first
period finds time, scans do not start at their last beam), without which threads
die in other ways. With periods of equally many sequences (`~Uneven`) nobody dies,
and the program is served (`ServesAlone`). With several programs these are not
theorems of the code: a SET_READY may read the index before another trigger, and
a program that ends its scan switches a radar off that another one was just given
(section 6). For the programs of *pair* and *two_radars* they are checked by TLC.

The locks of the clear frequency service need a stronger invariant: a lock that
is free has nobody inside (`LockInv`), so that who enters was alone and who
leaves leaves nobody behind. The sessions need one that follows the turn:
`sf_client` and `sf_server` are never up together, and each place the turn can
be at (offered, with a client at a certain line, asked for, at a certain line of
the server) has its own combination of `sf_init`, `sf_samples`, `sf_clrfreq` and
its own statement of which data agrees (`SessionInv`). It was checked with TLC
before it was proved. A thread that dies keeps its place, and with it the turn:
that is why the safety survives failures and the liveness does not. `RawHasTime`
needs the types only: who has set `rawData` without a time is in the middle of
`send_samples`, or died there.

The types of the sample chain need two facts more (`TypeInv`): a driver that is
busy has its command at the head of its queue (`BusyOK`, or `Head` has no type),
and no period begins behind the end of the scan (`PositionOK`, or `position`
grows). The exclusion needs the order of the commands (`OrderInv`). `CudaOrder`:
a command waits at the CUDA driver only while the server waits for its answer,
so it generates only within `initGenerate` and `generate`; PROCESS alone is
answered early, and what it filters is over before the server asks for anything
to be written, because each READY_DATA comes after a GET_DATA for the period
before (`Collecting`), which the driver takes when it has finished. `UsrpOrder`:
a driver in service has nothing before it, a SETUP or READY_DATA the server is
waiting for, or a pulse, with at most the READY_DATA behind it (`Shape`). The
lemmas `CudaOrdered`, `UsrpOrdered` and `ServerOrdered` show it, action by
action.

What the sample chain transmits and delivers is proved in three layers on top of
that order, each with the invariant of the one before it in its own.
`SequenceInv` says whose sequences the CUDA driver has for each swing at each
stage of the server, and what the command in its socket asks for: the active
swing holds the period on the air, the other one the period being collected and
then the one after, less the channels whose command is still on its way
(`Waiting`). `TransmitInv` carries that to the waveforms: what the segment of a
swing and the copy in a driver were made of, given whether GENERATE_PULSE and
READY_DATA of the period have been taken. `DeliverInv` carries it back: the
recording in a driver, the segment it is written to and the one buffer of
filtered samples, each of the period the server will ask for next, or zeros
where a USRP was lost. The layers are needed because none of the four properties
is inductive: a waveform is only right because its sequence was.

The fleet has one invariant (`FleetInv`). `Control` says where in its code the
main thread can be with which command. `ErrorsInOrder` and `OwnErrors` are about
the loop that removes silent USRPs while the list it counts in gets shorter:
the positions of the errors ascend, so that each, less the number removed, still
is the position of the socket it was found at; that is what keeps a healthy USRP
in service when one radar is addressed, and it is exactly what does not hold when all
are (section 6). `Whole` counts: the USRPs in service and those without
a connection are the configured ones, and as many, so none is on two lists.
`AllAsked` and `InStep` follow the clocks from USRP_SYNC to the check of the
times, which is the only place that lets the server go on. `Those` and `AllSocks`
are recursive functions, because the operators of the library for them are
defined by recursion tlapm cannot see through; what they return is proved by
induction over the natural numbers, in the form of a smallest counterexample
(`SmallestNat`, `UpTo`).

Assumptions: the named ASSUMEs of the modules, which say that the constants are
of the right kind, no more; and, for the pipeline, the hypotheses in the table,
which are choices of the constants. Instances of them among the runs:
*one_channel* satisfies all (`ScanLen` 4, first periods 0 and 1, periods 2 and 3
late); *pair* those of the stages; *two_radars* these, but for the empty
`MayLeave` of `CountedExactly`, with `OneEach` and `~Preemptible`, but not
`NoLateCamping`; *leave*, where a program stops
within its scan, only the types and the locks, which have none.

Not proved, only model-checked: liveness (`GetDataAnswered`, the liveness of
`KeepsPromise`, `Answered`, `ServerRecovers`, `UsrpsReturn`, `PeriodsGoOn`),
which is out of the prover's reach, `UsrpsReturn` and `LongPauses` with ENABLED in
their fairness included; the properties of the pipeline for instances
outside their hypotheses: `GeneratedForSwing`, `SwingAgreement`,
`WaitsForNextSwing` and `KeepsPromise` for two programs on one radar,
`RadarsOfChannelsActive` and `DeliveredPeriod` with a camping program,
`TriggeredMatchesState` with a program that stops within its scan,
`DiesOnlyOvertaken` for several programs. The three properties of the runs that
expect a violation do not hold.

## 6. Where code and text disagree

Shown by runs that expect a violation (`PROJECT.json`, "findings"):

- *clear_freq_swap* (`OwnAnswer`): a client's answer can be taken by the next
  client, because the server offers a new turn before the old one has read.
- *usrp_lost* (`OnlyLostRemoved`): `eval_client_return`, called for all radars,
  keeps the radar it found the first silent USRP on (292) and uses the positions
  of the others, which count the sockets of all radars, in the list of that one:
  a USRP that answered is removed and a silent one kept, or the position does not
  exist and the `IndexError` ends the main loop.
- *pulse_times* (`PulseTimesMatch`): the pulse times are read from one list per
  radar (4216), which has been replaced when the next period was recorded
  (3065-3068): a program that asks for its samples after that gets the times of
  another period.

Met while modelling, reproduced by the model, without a run of their own:

- `get_next_sequence` fills the structure of the channel with the next period
  (3588) and makes a sequence of it (3590); a GET_DATA in between fills it with
  the current one (4178), which is then transmitted twice. (`Preemptible`,
  `SequenceIsNext`.)
- If the period after has fewer sequences, the handler of *pulse_times* dies
  instead (4268-4273): the number of sequences of one period counts through the
  times of the other. (`Uneven`; *one_channel* reaches it, `DiesOnlyOvertaken`
  says that nothing else kills a handler there.)
- A connection lost while SET_PARAMETERS receives (3974, 3995, 4018) leaves
  `set_par_semaphore` taken and `n_SetParameterHandlers_active` counted: the
  exception is handled outside (1878). No program is registered after that.
  (`LoseConnection`, reached by *leave*.)
- `evaluate_clear_freq` takes `set_par_semaphore` (1748) also when it is called
  from SET_PARAMETERS or `initialize_channel`, which hold it: the call never ends,
  and no other clear frequency is found any more. (`EvaluationLost`, reached by
  *clear_freq*.)
- Who asks for the raw data while the first samples are on their way to the clear
  frequency server computes with a record time of None (1556) and dies with both
  semaphores taken. (`Timeless`, reached by *clear_freq*.)
- A USRP whose host cannot be reached ends every boot of the server: the
  constructor catches a refused connection only (223). (`NoRoute`, reached by
  *usrp_fleet*; the premise of `ServerRecovers`.)

- A first period that finds no time: `pulse_times[0]` of an empty list raises in
  GET_DATA (4244), the handler re-raises before its `self.close()` (3508-3509),
  and the channel stays in the lists although the log says it is removed. (Set
  `LatePeriods` to contain 0.)
- A camping program activated again right after a period without time:
  SET_ACTIVE clears `processing_swing_invalid` (4350), and the swing that was
  not transmitted is delivered as valid. (`ScanLen` 1, `LatePeriods` {0},
  `UntriggeredIsInvalid`.)
- A program that leaves before it is initialised stays counted in
  `nRegisteredChannels` (2379-2380). (`MayLeave`, `RegisteredCount`.)
- Scans of different lengths on one radar: once one is in its last period no
  transmit buffer is generated for the other (2986). (`GeneratedForSwing`.)
- SET_INACTIVE within a scan leaves results behind that the next scan fills a
  second time (4441-4487). (`MayStop`, `NoOverwrite`.)
- A first program that stops before it was initialised and starts again meets a
  misspelt attribute (4009), and dies with `set_par_semaphore` held.
- A program that ends its scan switches its radar off (2945-2956), or all radars
  if it was the last one registered, while another program may be between its
  SET_ACTIVE and its place in `RHM.channels`: that one starts on a radar that is
  not active. (Scans of 2 and 3 beams on one radar; `RadarsOfChannelsActive`,
  `SwingAgreement`.)
- A SET_READY that reads `nextSwingToTrigger` before another channel's trigger
  waits for a swing nobody prepares. (`InTime` FALSE, `WaitsForNextSwing`.)
- The wait for the end of a trigger and the removal of a channel are two steps
  (2368-2372). (`MayLeave`, `NoUnlistDuringTrigger`.)
- `_resync_usrps` removes the USRPs whose time it cannot read and then reads a
  command byte from the sockets it started with (2181): the errors stand at the
  positions of the old list, and a USRP that answered is removed. ("STALE" of
  `Receive`; `OnlyLostRemoved` with one radar of two USRPs.)
- A radar that has lost its last USRP while others are left ends the main thread
  with the next USRP_SETUP (results never bound) or USRP_GET_TIME (`socks[0][0]`).
  (`Unprotected`.)
- A driver that refuses a trigger ends itself: the rest of the command is read as
  commands. Its answer "b" is none to the server, whose `client_return` accepts
  its own command only (`drivermsg_library.py` 120) and takes it for a
  CONNECTION_ERROR; the test for TRIGGER_BUSY compares a byte with a list of
  strings and is never true (2757). (`StartPulse`.)
- On radars other than 0 the last samples of a lost USRP stay in the segments and
  are filtered again in every period (258, 3187-3193). (`Local` FALSE.)
- SET_INACTIVE sends no CUDA_REMOVE_CHANNEL: the sequence stays in its swings
  until it is overwritten. (`MayStop`, `quit` in `NoLeftOvers`.)
- A channel that leaves is still in the waveform that was generated for the
  active swing, and is transmitted once more.
- A receive error is reported with the READY_DATA that follows it, whichever
  swing that is for. (`rxError`.)

Met while reading, not in the model:

- `srr.py` starts the watchdog without its argument (723), so nobody watches the
  server; a driver that runs and hangs is never restarted.
- `get_usrp_driver_processes` looks for `--antennaA` (266): a driver with a B
  side only is never found, not stopped, and started again every five minutes.
- `stop_usrp_driver` uses a variable that is unbound when the driver is not found.
- An exception between acquire and release of `usrp_setup_semaphore` leaves it
  taken.
- A handler of the CUDA driver that raises sends no answer and keeps its
  semaphores (1236); `create_sem` finds the semaphores of an earlier process and
  raises their value to 2.
- SET_INACTIVE may take a channel off the list `trigger_next_swing` is
  enumerating (2806-2850): the results of the others get the wrong numbers.
- SET_RADAR_CHAN compares `[r, c]` with `[[r, c]]` (4311), so two programs may get
  the same channel number.
- With two active radars `trigger_next_swing` uses the loop variable `channel`
  after a loop that may have had no element (2714).
- `initialize_channel` removes the channels it copied from `newChannelList`; one
  that left meanwhile is a `ValueError` in the main thread (2344).
- `rawData` is set before the samples are sent (1530), so a handler may ask for a
  clear frequency before the memory is mapped; `antenna_list` is shortened while
  it is indexed (1158); the muted antennas are written without `sl_samples`
  (`clear_frequency_server.c` 1158).
- `last_period` of an earlier scan is still set when the first period of the next
  is skipped.

## 7. Not modelled

- clear frequency searches within `RadarServer` (`RequestClearFreqSearch`,
  `RequestAssignedFreq`): its programs use fixed frequencies, and the semaphores
  the searches take are those of `ClearFreqService`; raw data requests, retuning
  and rx-only operation;
- in `SampleChain`: more than one radar (the drivers of another one have segments
  and sockets of their own, but the CUDA driver is shared); debug dumps and IF
  data; exceptions in handlers of the CUDA driver. All channels of the radar
  start together with scans of one length, the mixing frequency changes only
  between scans, the last channel stops between periods, `Leave` is between
  periods, and the answers of a driver that does not hang are in time: the
  timeout is longer than a period;
- in `UsrpFleet`: that a handler may change the timeout of the sockets
  (4390-4399) or record clear frequency samples (1549) while the main thread
  uses them;
- of the drivers: CLRFREQ, SYNC and the clock, RXFE and GPIO, the transmit
  worker beyond "on the air"; restart of a driver is in `UsrpFleet`, which has no
  data;
- the mixing frequency manager, the integration time estimates, the table of
  reserved clear ranges: sequential arithmetic, planned (section 2);
- the spectral search, CUDA kernels, filters, beamforming: numerical;
- gains, muting, GPIO, configuration, logging, analysis tools: sequential code or
  pure input and output;
- sockets between server and control program: a message is one step, a
  connection that is lost ends the handler where it is, one that is closed keeps
  it there.
