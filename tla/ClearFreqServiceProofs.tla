----------------------- MODULE ClearFreqServiceProofs -----------------------
(***************************************************************************)
(* What holds of the clear frequency service for any number of threads,    *)
(* whichever of them fail and whether the server is stopped or not: the    *)
(* locks exclude, one session runs at a time, and the server always finds  *)
(* the data of one whole session.                                          *)
(***************************************************************************)
EXTENDS ClearFreqService, TLAPS

USE ClientsAssumption, BoundAssumption

LEMMA NoCallTyped == NoCall \in Call
BY DEF Call

LEMMA MyCallTyped ==
  ASSUME TypeOK, NEW c \in Clients
  PROVE  MyCall(c) \in Call
BY DEF TypeOK, MyCall, Call

----------------------------------------------------------------------------
(* Types.                                                                  *)

LEMMA TypeInit == ASSUME Init PROVE TypeOK
<1>1. sem \in [Semaphores -> Nat]
  <2>1. \A s \in Semaphores : (IF s \in Locks THEN 1 ELSE 0) \in Nat OBVIOUS
  <2>2. QED BY <2>1, Zenon DEF Init
<1>2. /\ pc \in [Clients -> Point] /\ op \in [Clients -> {"send", "request"}]
      /\ calls \in [Clients -> Nat] /\ got \in [Clients -> Call]
  BY NoCallTyped DEF Init, Point
<1>3. QED BY <1>1, <1>2, NoCallTyped DEF Init, TypeOK, ServerPoint

LEMMA PostedTyped ==
  ASSUME TypeOK, NEW s \in Semaphores
  PROVE  Posted(s) \in [Semaphores -> Nat]
BY DEF TypeOK, Posted

LEMMA TakenTyped ==
  ASSUME TypeOK, NEW s \in Semaphores, sem[s] > 0
  PROVE  Taken(s) \in [Semaphores -> Nat]
<1>1. sem[s] - 1 \in Nat BY DEF TypeOK
<1>2. QED BY <1>1 DEF TypeOK, Taken

LEMMA ReleasedTyped ==
  ASSUME TypeOK, NEW l \in Semaphores, NEW s \in Semaphores
  PROVE  Released(l, s) \in [Semaphores -> Nat]
BY DEF TypeOK, Released

(* A step of a thread keeps the types.                                     *)
LEMMA ThreadTyped ==
  ASSUME TypeOK, NEW c \in Clients, Thread(c)
  PROVE  TypeOK'
<1> USE DEF TypeOK, memory, loop, shared, raw, Goto, At, Point
<1>1. ASSUME NEW s \in Semaphores, NEW f, NEW t \in Point, Acquire(c, f, s, t)
      PROVE  TypeOK'
  BY <1>1, TakenTyped DEF Acquire
<1>2. ASSUME NEW t \in Point, Begin(c, t)
      PROVE  /\ calls' \in [Clients -> Nat]
             /\ pc' \in [Clients -> Point]
  BY <1>2 DEF Begin
<1>3. CASE Send(c) \/ Update(c) \/ SetParameters(c) \/ Return(c)
  <2>1. CASE Send(c) BY <2>1, <1>2 DEF Send
  <2>2. CASE Update(c) BY <2>2, <1>2 DEF Update
  <2>3. CASE SetParameters(c) BY <2>3, <1>2 DEF SetParameters
  <2>4. CASE Return(c) BY <2>4 DEF Return
  <2>5. QED BY <1>3, <2>1, <2>2, <2>3, <2>4
<1>4. CASE Recording(c)
  <2>1. CASE Record(c) BY <2>1 DEF Record
  <2>2. CASE Stamp(c) BY <2>2 DEF Stamp
  <2>3. CASE Premap(c) BY <2>3 DEF Premap
  <2>4. CASE Fresh(c) BY <2>4 DEF Fresh, AfterSend
  <2>5. CASE NoAntennas(c) BY <2>5 DEF NoAntennas, AfterSend
  <2>6. QED BY <1>4, <2>1, <2>2, <2>3, <2>4, <2>5 DEF Recording
<1>5. CASE Evaluation(c)
  <2>1. CASE Evaluate(c) BY <2>1, <1>2 DEF Evaluate
  <2>2. CASE Select(c) \/ TakePar(c) BY <2>2 DEF Select, TakePar
  <2>3. CASE NoRawData(c) \/ GetRawData(c) BY <2>3 DEF NoRawData, GetRawData
  <2>4. CASE Timeless(c) BY <2>4 DEF Timeless
  <2>5. QED BY <1>5, <2>1, <2>2, <2>3, <2>4 DEF Evaluation
<1>6. CASE Session(c)
  <2>1. CASE Enter(c)
    BY <2>1, TakenTyped DEF Enter, Entered, Semaphores, Flags
  <2>2. CASE InitLock(c) \/ SampleLock(c) \/ ParamLock(c) \/ MutedLock(c)
             \/ ClearLock(c) \/ Wait(c)
    BY <2>2, <1>1 DEF InitLock, SampleLock, ParamLock, MutedLock, ClearLock,
       Wait, Semaphores, Flags, Locks
  <2>3. CASE InitWrite(c)
    BY <2>3, MyCallTyped, ReleasedTyped DEF InitWrite, Semaphores, Flags, Locks
  <2>4. CASE SampleWrite(c)
    BY <2>4, MyCallTyped, ReleasedTyped DEF SampleWrite, Semaphores, Flags, Locks
  <2>5. CASE ParamWrite(c)
    BY <2>5, MyCallTyped, ReleasedTyped DEF ParamWrite, Semaphores, Flags, Locks
  <2>6. CASE Fail(c) BY <2>6 DEF Fail
  <2>7. CASE Ask(c)
    BY <2>7, PostedTyped DEF Ask, Asked, Semaphores, Flags
  <2>8. CASE ReadMuted(c)
    <3>1. sem' \in [Semaphores -> Nat]
      BY <2>8, PostedTyped DEF ReadMuted, Semaphores, Locks
    <3>2. QED BY <2>8, <3>1 DEF ReadMuted, AfterSend
  <2>9. CASE ReadClear(c)
    <3>1. sem' \in [Semaphores -> Nat]
      BY <2>9, PostedTyped DEF ReadClear, Semaphores, Locks
    <3>2. QED BY <2>9, <3>1 DEF ReadClear
  <2>10. QED
    BY <1>6, <2>1, <2>2, <2>3, <2>4, <2>5, <2>6, <2>7, <2>8, <2>9 DEF Session
<1>7. QED BY <1>3, <1>4, <1>5, <1>6 DEF Thread

(* A step of the server keeps the types.                                   *)
LEMMA ServerTyped ==
  ASSUME TypeOK, Server
  PROVE  TypeOK'
<1> USE DEF TypeOK, memory, threads, shared, raw, ServerPoint
<1>1. ASSUME NEW s \in Semaphores, NEW f, NEW t \in ServerPoint, Await(f, s, t)
      PROVE  TypeOK'
  BY <1>1, TakenTyped DEF Await
<1>2. ASSUME NEW s \in Semaphores, NEW f, NEW t \in ServerPoint,
             NEW u \in ServerPoint, Try(f, s, t, u)
      PROVE  TypeOK'
  BY <1>2, TakenTyped DEF Try
<1>3. CASE AwaitClient \/ LockInit \/ LockSamples \/ LockRequest
  BY <1>3, <1>1 DEF AwaitClient, LockInit, LockSamples, LockRequest,
     Semaphores, Flags, Locks
<1>4. CASE TryInit \/ TrySamples \/ TryRequest
  BY <1>4, <1>2 DEF TryInit, TrySamples, TryRequest, Semaphores, Flags
<1>5. CASE Offer BY <1>5, PostedTyped DEF Offer, Semaphores, Flags
<1>6. CASE ReadInit BY <1>6, PostedTyped DEF ReadInit, Semaphores, Locks
<1>7. CASE ReadSamples BY <1>7, PostedTyped DEF ReadSamples, Semaphores, Locks
<1>8. CASE Process BY <1>8, PostedTyped DEF Process, Semaphores, Flags
<1>9. CASE ReadRequest BY <1>9 DEF ReadRequest
<1>10. CASE Search
  BY <1>10, ReleasedTyped DEF Search, Semaphores, Flags, Locks
<1>11. QED
  BY <1>3, <1>4, <1>5, <1>6, <1>7, <1>8, <1>9, <1>10 DEF Server

LEMMA OtherTyped ==
  ASSUME TypeOK, Crash \/ UNCHANGED vars
  PROVE  TypeOK'
BY DEF TypeOK, Crash, ServerPoint, vars, memory, loop, threads, shared, raw

(* No semaphore falls below zero, and every variable keeps its type.       *)
THEOREM TypeCorrect == Spec => []TypeOK
<1>1. TypeOK /\ [Next]_vars => TypeOK'
  BY ThreadTyped, ServerTyped, OtherTyped DEF Next
<1>2. QED BY TypeInit, <1>1, PTL DEF Spec
----------------------------------------------------------------------------
(* LockExclusion.  A lock that is free has nobody inside, which makes it   *)
(* inductive: who enters finds nobody, and who leaves was alone.           *)

LockFree(l) ==
  /\ sem[l] \in {0, 1}
  /\ sem[l] = 1 => Inside(l) = {} /\ ~ServerInside(l)

LockInv == LockExclusion /\ \A l \in Locks : LockFree(l)

LEMMA LocksInitially == ASSUME Init PROVE LockInv
<1>1. \A l \in Locks : sem[l] = 1 BY DEF Init, Semaphores
<1>2. \A l \in Locks : Inside(l) = {} /\ ~ServerInside(l)
  BY DEF Init, Inside, ServerInside
<1>3. QED BY <1>1, <1>2 DEF LockInv, LockExclusion, LockFree

(* What a thread does at one lock.                                         *)
LEMMA ThreadLocks ==
  ASSUME TypeOK, LockInv, NEW c \in Clients, Thread(c)
  PROVE  LockInv'
<1> USE DEF TypeOK, LockInv, LockExclusion, LockFree, Inside, ServerInside,
            Locks, Semaphores, Flags, loop, Goto, At
<1>1. CASE Send(c) \/ Update(c) BY <1>1 DEF Send, Update, Begin
<1>2. CASE SetParameters(c) \/ Return(c)
  BY <1>2 DEF SetParameters, Begin, Return
<1>3. CASE Recording(c)
  BY <1>3 DEF Recording, Record, Fresh, Stamp, NoAntennas, Premap, AfterSend
<1>4. CASE Evaluation(c)
  BY <1>4 DEF Evaluation, Evaluate, Begin, Select, TakePar, NoRawData, GetRawData,
     Timeless
<1>5. CASE Enter(c) BY <1>5 DEF Enter, Entered, Taken
<1>6. CASE InitLock(c) BY <1>6 DEF InitLock, Acquire, Taken
<1>7. CASE SampleLock(c) BY <1>7 DEF SampleLock, Acquire, Taken
<1>8. CASE ParamLock(c) BY <1>8 DEF ParamLock, Acquire, Taken
<1>9. CASE MutedLock(c) BY <1>9 DEF MutedLock, Acquire, Taken
<1>10. CASE ClearLock(c) BY <1>10 DEF ClearLock, Acquire, Taken
<1>11. CASE Wait(c) BY <1>11 DEF Wait, Acquire, Taken
<1>12. CASE InitWrite(c) BY <1>12 DEF InitWrite, Released
<1>13. CASE SampleWrite(c) BY <1>13 DEF SampleWrite, Released
<1>14. CASE ParamWrite(c) BY <1>14 DEF ParamWrite, Released
<1>15. CASE Fail(c) BY <1>15 DEF Fail
<1>16. CASE Ask(c) BY <1>16 DEF Ask, Asked, Posted
<1>17. CASE ReadMuted(c) BY <1>17 DEF ReadMuted, AfterSend, Posted
<1>18. CASE ReadClear(c) BY <1>18 DEF ReadClear, Posted
<1>19. QED
  BY <1>1, <1>2, <1>3, <1>4, <1>5, <1>6, <1>7, <1>8, <1>9, <1>10, <1>11,
     <1>12, <1>13, <1>14, <1>15, <1>16, <1>17, <1>18 DEF Thread, Session

LEMMA ServerLocks ==
  ASSUME TypeOK, LockInv, Server
  PROVE  LockInv'
<1> USE DEF TypeOK, LockInv, LockExclusion, LockFree, Inside, ServerInside,
            Locks, Semaphores, Flags, threads
<1>1. CASE Offer BY <1>1 DEF Offer, Posted
<1>2. CASE AwaitClient BY <1>2 DEF AwaitClient, Await, Taken
<1>3. CASE TryInit BY <1>3 DEF TryInit, Try, Taken
<1>4. CASE LockInit BY <1>4 DEF LockInit, Await, Taken
<1>5. CASE ReadInit BY <1>5 DEF ReadInit, Posted
<1>6. CASE TrySamples BY <1>6 DEF TrySamples, Try, Taken
<1>7. CASE LockSamples BY <1>7 DEF LockSamples, Await, Taken
<1>8. CASE ReadSamples BY <1>8 DEF ReadSamples, Posted
<1>9. CASE Process BY <1>9 DEF Process, Posted
<1>10. CASE TryRequest BY <1>10 DEF TryRequest, Try, Taken
<1>11. CASE LockRequest BY <1>11 DEF LockRequest, Await, Taken
<1>12. CASE ReadRequest BY <1>12 DEF ReadRequest
<1>13. CASE Search BY <1>13 DEF Search, Released
<1>14. QED
  BY <1>1, <1>2, <1>3, <1>4, <1>5, <1>6, <1>7, <1>8, <1>9, <1>10, <1>11,
     <1>12, <1>13 DEF Server

LEMMA OtherLocks ==
  ASSUME LockInv, Crash \/ UNCHANGED vars
  PROVE  LockInv'
BY DEF LockInv, LockExclusion, LockFree, Inside, ServerInside, Crash, vars,
   threads, loop

(* A part of the shared memory that has a lock is used by one thread or by *)
(* the server, and never by two, for any number of threads and whatever    *)
(* fails: a thread that dies with the lock shuts the others out.           *)
THEOREM LocksExclude == Spec => []LockExclusion
<1>1. TypeOK /\ LockInv /\ [Next]_vars => LockInv'
  BY ThreadLocks, ServerLocks, OtherLocks DEF Next
<1>2. LockInv => LockExclusion BY DEF LockInv
<1>3. QED BY TypeCorrect, LocksInitially, <1>1, <1>2, PTL DEF Spec

----------------------------------------------------------------------------
(* The sessions.  sf_client and sf_server pass one turn between the        *)
(* threads and the server, and the three flags tell at each place of the   *)
(* turn which data is there: nothing, all of the samples or all of a       *)
(* request.                                                                *)

Raised(i, s, r) ==
  sem["sf_init"] = i /\ sem["sf_samples"] = s /\ sem["sf_clrfreq"] = r

NoData        == Raised(0, 0, 0)
SamplesReady  == Raised(1, 1, 0) /\ meta /\ common = samples
RequestReady  == Raised(0, 0, 1) /\ common = params
Ready         == SamplesReady \/ RequestReady
ServerIdle    == server \in {"await", "crashed"}

Turn ==
  /\ sem["sf_client"] \in {0, 1} /\ sem["sf_server"] \in {0, 1}
  /\ sem["sf_client"] = 1 =>
       sem["sf_server"] = 0 /\ InSession = {} /\ ServerIdle /\ NoData
  /\ sem["sf_server"] = 1 => InSession = {} /\ ServerIdle /\ Ready

ClientData(c) ==
  /\ pc[c] \in {"initLock", "initWrite", "paramLock", "paramWrite"} => NoData
  /\ pc[c] \in {"sampleLock", "sampleWrite"} => Raised(1, 0, 0) /\ meta
  /\ pc[c] = "ask" => Ready

ServerData ==
  /\ server = "offer" => NoData
  /\ server = "init" => Ready
  /\ server \in {"initLock", "initRead"} =>
       Raised(0, 1, 0) /\ meta /\ common = samples
  /\ server = "samples" => \/ Raised(0, 1, 0) /\ known /\ common = samples
                           \/ RequestReady
  /\ server \in {"sampleLock", "sampleRead"} => NoData /\ common = samples
  /\ server = "clrfreq" => RequestReady
  /\ server \in {"searchLock", "searchRead"} => NoData /\ common = params
  /\ server \in {"process", "search"} => NoData /\ job = cur
  /\ server # "stopped"

SessionInv ==
  Turn /\ OneSession /\ ServerData /\ \A c \in Clients : ClientData(c)

LEMMA SessionsInitially == ASSUME Init PROVE SessionInv
BY DEF Init, SessionInv, Turn, OneSession, InSession, ServerData, ClientData,
   NoData, Raised, Semaphores, Flags, Locks, ServerIdle

LEMMA ThreadSessions ==
  ASSUME TypeOK, SessionInv, NEW c \in Clients, Thread(c)
  PROVE  SessionInv'
<1> USE DEF TypeOK, SessionInv, Turn, OneSession, InSession, ServerData,
            ClientData, Ready, SamplesReady, RequestReady, NoData, Raised,
            ServerIdle, Locks, Semaphores, Flags, loop, Goto, At
<1>1. CASE Send(c) \/ Update(c) BY <1>1 DEF Send, Update, Begin, memory
<1>2. CASE SetParameters(c) \/ Return(c)
  BY <1>2 DEF SetParameters, Begin, Return, memory
<1>3. CASE Recording(c)
  BY <1>3 DEF Recording, Record, Fresh, Stamp, NoAntennas, Premap, AfterSend, memory
<1>4. CASE Evaluation(c)
  BY <1>4 DEF Evaluation, Evaluate, Begin, Select, TakePar, NoRawData, GetRawData,
     Timeless, memory
<1>5. CASE Enter(c) BY <1>5 DEF Enter, Entered, Taken, memory
<1>6. CASE InitLock(c) BY <1>6 DEF InitLock, Acquire, Taken, memory
<1>7. CASE SampleLock(c) BY <1>7 DEF SampleLock, Acquire, Taken, memory
<1>8. CASE ParamLock(c) BY <1>8 DEF ParamLock, Acquire, Taken, memory
<1>9. CASE MutedLock(c) BY <1>9 DEF MutedLock, Acquire, Taken, memory
<1>10. CASE ClearLock(c) BY <1>10 DEF ClearLock, Acquire, Taken, memory
<1>11. CASE Wait(c) BY <1>11 DEF Wait, Acquire, Taken, memory
<1>12. CASE InitWrite(c) BY <1>12 DEF InitWrite, Released
<1>13. CASE SampleWrite(c) BY <1>13 DEF SampleWrite, Released
<1>14. CASE ParamWrite(c) BY <1>14 DEF ParamWrite, Released
<1>15. CASE Fail(c) BY <1>15 DEF Fail, memory
<1>16. CASE Ask(c) BY <1>16 DEF Ask, Asked, Posted, memory
<1>17. CASE ReadMuted(c) BY <1>17 DEF ReadMuted, AfterSend, Posted, memory
<1>18. CASE ReadClear(c) BY <1>18 DEF ReadClear, Posted, memory
<1>19. QED
  BY <1>1, <1>2, <1>3, <1>4, <1>5, <1>6, <1>7, <1>8, <1>9, <1>10, <1>11,
     <1>12, <1>13, <1>14, <1>15, <1>16, <1>17, <1>18 DEF Thread, Session

LEMMA ServerSessions ==
  ASSUME TypeOK, SessionInv, Server
  PROVE  SessionInv'
<1> USE DEF TypeOK, SessionInv, Turn, OneSession, InSession, ServerData,
            ClientData, Ready, SamplesReady, RequestReady, NoData, Raised,
            ServerIdle, Locks, Semaphores, Flags, threads
<1>1. CASE Offer BY <1>1 DEF Offer, Posted, memory
<1>2. CASE AwaitClient BY <1>2 DEF AwaitClient, Await, Taken, memory
<1>3. CASE TryInit BY <1>3 DEF TryInit, Try, Taken, memory
<1>4. CASE LockInit BY <1>4 DEF LockInit, Await, Taken, memory
<1>5. CASE ReadInit BY <1>5 DEF ReadInit, Posted, memory
<1>6. CASE TrySamples BY <1>6 DEF TrySamples, Try, Taken, memory
<1>7. CASE LockSamples BY <1>7 DEF LockSamples, Await, Taken, memory
<1>8. CASE ReadSamples BY <1>8 DEF ReadSamples, Posted, memory
<1>9. CASE Process BY <1>9 DEF Process, Posted
<1>10. CASE TryRequest BY <1>10 DEF TryRequest, Try, Taken, memory
<1>11. CASE LockRequest BY <1>11 DEF LockRequest, Await, Taken, memory
<1>12. CASE ReadRequest BY <1>12 DEF ReadRequest, memory
<1>13. CASE Search BY <1>13 DEF Search, Released
<1>14. QED
  BY <1>1, <1>2, <1>3, <1>4, <1>5, <1>6, <1>7, <1>8, <1>9, <1>10, <1>11,
     <1>12, <1>13 DEF Server

LEMMA OtherSessions ==
  ASSUME SessionInv, Crash \/ UNCHANGED vars
  PROVE  SessionInv'
BY DEF SessionInv, Turn, OneSession, InSession, ServerData, ClientData, Ready,
   SamplesReady, RequestReady, NoData, Raised, ServerIdle, Crash, vars,
   threads, loop, memory

(* The inductive invariant of the sessions holds in every reachable state. *)
THEOREM TurnsAndData == Spec => []SessionInv
<1>1. TypeOK /\ SessionInv /\ [Next]_vars => SessionInv'
  BY ThreadSessions, ServerSessions, OtherSessions DEF Next
<1>2. QED BY TypeCorrect, SessionsInitially, <1>1, PTL DEF Spec

(* Between sf_client and sf_server one thread at most is in the middle of  *)
(* its call, and the server is idle.                                       *)
THEOREM SessionsExclude == Spec => []OneSession
<1>1. SessionInv => OneSession BY DEF SessionInv
<1>2. QED BY TurnsAndData, <1>1, PTL

(* The server never leaves its loop by an exit for flags it does not       *)
(* expect, whatever threads do and die of.                                 *)
THEOREM ServerGoesOn == Spec => []NeverStopped
<1>1. SessionInv => NeverStopped BY DEF SessionInv, ServerData, NeverStopped
<1>2. QED BY TurnsAndData, <1>1, PTL

(* What the server works on was written by one call.                       *)
THEOREM DataOfOneCall == Spec => []OneSource
<1>1. SessionInv => OneSource BY DEF SessionInv, ServerData, OneSource
<1>2. QED BY TurnsAndData, <1>1, PTL
----------------------------------------------------------------------------
(* The samples without a time are those of a recording that is under way.  *)

LEMMA ThreadTimes ==
  ASSUME TypeOK, RawHasTime, NEW c \in Clients, Thread(c)
  PROVE  RawHasTime'
<1> USE DEF TypeOK, RawHasTime, SendsSamples, raw, shared, Goto, At
<1>1. CASE Send(c) \/ Update(c) BY <1>1 DEF Send, Update, Begin
<1>2. CASE SetParameters(c) \/ Return(c)
  BY <1>2 DEF SetParameters, Begin, Return
<1>3. CASE Recording(c)
  BY <1>3 DEF Recording, Record, Fresh, Stamp, NoAntennas, Premap, AfterSend
<1>4. CASE Evaluation(c)
  BY <1>4 DEF Evaluation, Evaluate, Begin, Select, TakePar, NoRawData, GetRawData,
     Timeless
<1>5. CASE Enter(c) BY <1>5 DEF Enter
<1>6. CASE \/ InitLock(c) \/ SampleLock(c) \/ ParamLock(c) \/ Wait(c)
           \/ MutedLock(c) \/ ClearLock(c)
  BY <1>6 DEF InitLock, SampleLock, ParamLock, Wait, MutedLock, ClearLock, Acquire
<1>7. CASE InitWrite(c) \/ SampleWrite(c) \/ ParamWrite(c)
  BY <1>7 DEF InitWrite, SampleWrite, ParamWrite
<1>8. CASE Fail(c) \/ Ask(c) BY <1>8 DEF Fail, Ask
<1>9. CASE ReadMuted(c) \/ ReadClear(c)
  BY <1>9 DEF ReadMuted, ReadClear, AfterSend
<1>10. QED
  BY <1>1, <1>2, <1>3, <1>4, <1>5, <1>6, <1>7, <1>8, <1>9 DEF Thread, Session

(* Whoever finds samples without a time meets the first recording of them: *)
(* another thread sends them, or has died of it.                           *)
THEOREM TimesOfSamples == Spec => []RawHasTime
<1>1. Init => RawHasTime BY DEF Init, RawHasTime
<1>2. TypeOK /\ RawHasTime /\ [Next]_vars => RawHasTime'
  <2> SUFFICES ASSUME TypeOK, RawHasTime, [Next]_vars PROVE RawHasTime'
    OBVIOUS
  <2>1. CASE Server \/ Crash \/ UNCHANGED vars
    <3>1. UNCHANGED threads
      BY <2>1 DEF Server, Offer, AwaitClient, TryInit, LockInit, ReadInit,
         TrySamples, LockSamples, ReadSamples, Process, TryRequest, LockRequest,
         ReadRequest, Search, Await, Try, Crash, vars
    <3>2. QED BY <3>1 DEF RawHasTime, SendsSamples, threads, shared, raw
  <2>2. QED BY <2>1, ThreadTimes DEF Next
<1>3. QED BY TypeCorrect, <1>1, <1>2, PTL DEF Spec
============================================================================
