----------------------- MODULE RadarServerStageProofs -----------------------
(***************************************************************************)
(* What holds of the swing pipeline for any number of radars and channels, *)
(* any scans and start periods, programs that leave at any time and        *)
(* parameters that come late, as long as no program stops within a scan:   *)
(* the channels share the hardware with equal parameters and are counted   *)
(* exactly, a SET_READY triggers only what was prepared, every swing in    *)
(* flight is in triggered_swing_list once, no result is overwritten, and   *)
(* GET_DATA answers with the period that was asked for.                    *)
(*                                                                         *)
(* All of it follows from one invariant, Stages: where a channel is on its *)
(* way through the two swings, as its handler, its lists and the main      *)
(* thread see it.                                                          *)
(***************************************************************************)
EXTENDS RadarServerProofs, FiniteSetTheorems, SequenceTheorems

----------------------------------------------------------------------------
(* The places of the main thread: between two triggers, transmitting and   *)
(* collecting, preparing the next period.  A thread that crashed stays, for*)
(* the handlers, at the place where it was.                                *)
Rest == {"loop", "awaitActive", "initialize", "initSend", "check"}
Fires == {"fire", "collect", "finish"}
Prep == {"add", "ready", "readyStore", "switch"}
At(M) == main \in M \cup {"crashed"}

lastSwing == 1 - nextSwing          \* the swing triggered before the next

(* The handler has ended, or is on its way out.                            *)
Leaving == {"quit", "remove", "dead"}
Away == Leaving \cup {"deregister", "gone"}
Gone(c) == pc[c] \in Leaving

(* A handler that still has to fetch the results of the swings q, newest   *)
(* first.                                                                  *)
Fetch(c, q) ==
  \/ pc[c] = "getdata" /\ triggered[c] = q
  \/ pc[c] = "datawait" /\ wait[c] = Last(q) /\ triggered[c] = Front(q)

(* The periods the program still expects, k in a scan of several beams.    *)
Owes(c, k) == IF Camping(scan[c]) THEN pc[c] = "idle" \/ left[c] = 1
                                  ELSE left[c] = k
Remaining(c) == scan[c].len - scan[c].period
Previous(c) == IF Camping(scan[c]) THEN scan[c].period ELSE scan[c].period - 1

(* resultDict_list, newest first: for which swings and with what parameters*)
Filled(e, s, k) == e.swing = s /\ e.label = k
One(c, s, k) == Len(results[c]) = 1 /\ Filled(results[c][1], s, k)
Two(c, s, k, t, l) ==
  Len(results[c]) = 2 /\ Filled(results[c][1], s, k)
                      /\ Filled(results[c][2], t, l)
NoResults(c) == results[c] = <<>>

(* A scan that starts with its last beam leaves no result; the main thread *)
(* then ends with an exception when it collects.                           *)
Pending(c, s) ==
  One(c, s, None) \/ (NoResults(c) /\ IsLastPeriod(scan[c]))

Began(c) == scan[c].len = ScanLen[c] /\ scan[c].period < scan[c].len
Start1(c) == Began(c) /\ scan[c].pre /\ scan[c].first /\ ~scan[c].post
First1(c) == Began(c) /\ ~scan[c].pre /\ scan[c].first /\ ~scan[c].post
Going(c)  == Began(c) /\ ~scan[c].pre /\ ~scan[c].first /\ ~scan[c].post
Over(c)   == scan[c].post /\ ~scan[c].pre /\ IsLastPeriod(scan[c])
BothInactive(c) == state[c][0] = INACTIVE /\ state[c][1] = INACTIVE
----------------------------------------------------------------------------
(* The stages of a channel that is on none of the lists.                   *)

(* Before its first trigger, or after its last.                            *)
Quiet(c) ==
  /\ BothInactive(c) /\ NoResults(c)
  /\ \/ /\ pc[c] \in {"idle", "activate", "newscan"} /\ ~Camping(scan[c])
        /\ Over(c) \/ scan[c] = NoScan
        /\ pc[c] # "idle" => active[c]
     \/ /\ pc[c] \in {"setpar", "parwait"} /\ Start1(c) /\ active[c]
        /\ triggered[c] = <<>> /\ Owes(c, Remaining(c))

(* The last period, recorded on swing x, is fetched.                       *)
Ended(c, x) ==
  /\ Over(c) /\ Began(c)
  /\ state[c][1 - x] = INACTIVE /\ nextState[c][x] = INACTIVE
  /\ \/ Gone(c)
     \/ /\ state[c][x] = SAMPLES_READY /\ left[c] = 1
        /\ \/ Fetch(c, <<1 - x, x>>) /\ One(c, x, scan[c].period)
           \/ /\ pc[c] = "sending" /\ wait[c] = x /\ triggered[c] = <<1 - x>>
              /\ NoResults(c) /\ Filled(sent[c], x, scan[c].period)
     \/ state[c][x] = INACTIVE /\ pc[c] = "inactive" /\ NoResults(c)

(* A scan that started with its last beam and was never transmitted: the   *)
(* handler waits for swing x until it times out.                           *)
Stuck(c, x) ==
  /\ Over(c) /\ Began(c)
  /\ state[c][x] = TRIGGER /\ state[c][1 - x] = INACTIVE
  /\ NoResults(c)
  /\ Gone(c) \/ Fetch(c, <<x>>)

Absent(c) ==
  pc[c] \in Away \/ Quiet(c) \/ \E x \in Swing : Ended(c, x) \/ Stuck(c, x)
----------------------------------------------------------------------------
(* In newChannelList: a SET_READY may wait for the wrong swing, but not for*)
(* one the main thread takes for the active one.                           *)
WaitsRight(c) ==
  /\ main \in {"check", "armed", "setup"} => wait[c] = nextSwing
  /\ main \in (Rest \ {"check"}) \cup {"autotrigger", "end"} =>
       (wait[c] = activeSwing => nextSwing = activeSwing)
  /\ main \in Fires \cup Prep =>
       (wait[c] = processingSwing => nextSwing = processingSwing)

Waiting(c) ==
  /\ BothInactive(c) /\ Start1(c) /\ triggered[c] = <<>> /\ NoResults(c)
  /\ \/ pc[c] \in {"quit", "remove"} /\ c \in MayLeave
     \/ pc[c] \in {"ready", "readywait"} /\ Owes(c, Remaining(c))
  /\ pc[c] = "readywait" => WaitsRight(c)
----------------------------------------------------------------------------
(* The stages of a channel in RHM.channels.                                *)

(* Initialised, its first period prepared.                                 *)
Fresh(c) ==
  /\ At(Rest) /\ Start1(c)
  /\ state[c][activeSwing] = READY /\ state[c][processingSwing] = INACTIVE
  /\ triggered[c] = <<>> /\ NoResults(c)
  /\ \/ Gone(c)
     \/ pc[c] \in {"ready", "readywait"} /\ Owes(c, Remaining(c))
  /\ pc[c] = "readywait" /\ wait[c] = activeSwing => nextSwing = activeSwing

(* Its first SET_READY came.                                               *)
Primed(c) ==
  /\ At(Rest \cup {"armed", "setup", "fire"}) /\ Start1(c)
  /\ state[c][activeSwing] = TRIGGER /\ state[c][processingSwing] = INACTIVE
  /\ NoResults(c)
  /\ main \notin {"fire", "crashed"} => nextSwing = activeSwing
  /\ main = "fire" /\ transmitting[Rnum[c]] => radarActive[Rnum[c]]
  /\ Gone(c) \/ (Fetch(c, <<activeSwing>>) /\ Owes(c, Remaining(c)))

(* Its first period is on the air; the second is prepared and triggered.   *)
Fired(c) ==
  /\ At({"collect", "finish", "autotrigger"} \cup Prep)
  /\ main \in {"collect", "finish"} =>
       Start1(c) /\ state[c][nextSwing] = INACTIVE
  /\ main \in Prep \cup {"autotrigger"} => First1(c)
  /\ transmitting[Rnum[c]] /\ radarActive[Rnum[c]]
  /\ state[c][lastSwing] = PROCESSING
  /\ state[c][nextSwing] \in {INACTIVE, READY}
  /\ Pending(c, lastSwing)
  /\ Gone(c) \/ (Fetch(c, <<lastSwing>>) /\ Owes(c, Remaining(c)))

(* Its first trigger, of swing x, transmitted nothing: its radar was not   *)
(* active, or all its channels were at their last beam.                    *)
Missed(c, x) ==
  /\ At({"collect", "finish", "autotrigger"} \cup Prep)
  /\ main \in {"collect", "finish"} =>
       Start1(c) /\ state[c][1 - x] = INACTIVE
  /\ main \in Prep \cup {"autotrigger"} => First1(c)
  /\ ~transmitting[Rnum[c]] /\ NoResults(c)
  /\ main \in {"collect", "finish"} \cup Prep => x = activeSwing
  /\ main = "autotrigger" => x = processingSwing
  /\ state[c][x] = TRIGGER /\ state[c][1 - x] \in {INACTIVE, READY}
  /\ main \in Prep \cup {"autotrigger"} =>
       \/ state[c][1 - x] = READY \/ IsLastPeriod(scan[c])
       \/ main = "add" /\ (c \in todo \/ adding = c)
  /\ Gone(c) \/ Fetch(c, <<x>>)

(* ... and it stays so, with a swing prepared that is never triggered, or  *)
(* with none until the next trigger ends its scan.                         *)
Lost(c) ==
  /\ At(Rest \cup {"end", "armed", "setup"} \cup Fires) /\ First1(c)
  /\ state[c][processingSwing] = TRIGGER /\ NoResults(c)
  /\ \/ state[c][activeSwing] = READY /\ At(Rest \cup {"end"})
     \/ state[c][activeSwing] = INACTIVE /\ IsLastPeriod(scan[c])
  /\ Gone(c) \/ Fetch(c, <<processingSwing>>)

(* In the middle of its scan: one swing is on the air, and the next was    *)
(* triggered, has samples to be fetched, or waits for SET_READY.           *)
Triggered(c) ==
  /\ state[c][nextSwing] = TRIGGER /\ Pending(c, lastSwing)
  /\ Gone(c) \/ (Fetch(c, <<nextSwing, lastSwing>>) /\ Owes(c, Remaining(c)))

Collected(c) ==
  /\ state[c][nextSwing] = SAMPLES_READY
  /\ nextState[c][nextSwing] \in {READY, LAST_SWING}
  /\ \/ Gone(c)
     \/ /\ Owes(c, Remaining(c) + 1) /\ pc[c] # "idle"
        /\ \/ /\ Fetch(c, <<lastSwing, nextSwing>>)
              /\ Two(c, lastSwing, None, nextSwing, Previous(c))
           \/ /\ pc[c] = "sending" /\ wait[c] = nextSwing
              /\ triggered[c] = <<lastSwing>> /\ One(c, lastSwing, None)
              /\ Filled(sent[c], nextSwing, Previous(c))

Prepared(c) ==
  /\ state[c][nextSwing] \in {READY, LAST_SWING} /\ One(c, lastSwing, None)
  /\ \/ Gone(c)
     \/ /\ triggered[c] = <<lastSwing>> /\ Owes(c, Remaining(c))
        /\ \/ pc[c] \in {"setpar", "ready"}
           \/ pc[c] = "idle" /\ Camping(scan[c])
           \/ pc[c] = "parwait" /\ wait[c] = lastSwing
           \/ pc[c] = "readywait" /\ wait[c] = nextSwing

Running(c) ==
  /\ At(Rest \cup {"armed", "setup", "autotrigger", "end"} \cup Prep)
  /\ Going(c) /\ radarActive[Rnum[c]]
  /\ main \in Rest \cup {"armed", "setup", "autotrigger", "end"} =>
       nextSwing = activeSwing
  /\ main \in Prep => nextSwing = processingSwing
  /\ main \in {"armed", "setup"} => state[c][nextSwing] = TRIGGER
  /\ state[c][lastSwing] = PROCESSING
  /\ Triggered(c) \/ Collected(c) \/ Prepared(c)

(* The same while the trigger is carried out.                              *)
Shot(c) ==
  /\ At(Fires) /\ Going(c) /\ radarActive[Rnum[c]]
  /\ nextSwing = processingSwing /\ state[c][processingSwing] = PROCESSING
  /\ state[c][activeSwing] \in {TRIGGER, PROCESSING}
  /\ main = "fire" =>
       /\ state[c][activeSwing] = TRIGGER /\ Pending(c, processingSwing)
       /\ transmitting[Rnum[c]] \/ IsLastPeriod(scan[c])
  /\ main \in {"collect", "finish"} =>
       state[c][activeSwing] = PROCESSING \/ IsLastPeriod(scan[c])
  /\ main = "collect" =>
       IF IsLastPeriod(scan[c]) THEN Pending(c, processingSwing)
       ELSE Two(c, activeSwing, None, processingSwing, None)
  /\ main = "finish" =>
       IF IsLastPeriod(scan[c]) THEN One(c, processingSwing, scan[c].period)
       ELSE Two(c, activeSwing, None, processingSwing, scan[c].period)
  /\ Gone(c) \/ (/\ Fetch(c, <<activeSwing, processingSwing>>)
                 /\ Owes(c, Remaining(c)))

(* Its scan is over, and AddLast takes it out of the list.                 *)
Leaves(c) ==
  /\ At({"add"})
  /\ main = "add" => c \in todo /\ adding # c
  /\ \E x \in Swing : x = processingSwing /\ (Ended(c, x) \/ Stuck(c, x))

Present(c) ==
  \/ Fresh(c) \/ Primed(c) \/ Fired(c) \/ (\E x \in Swing : Missed(c, x))
  \/ Lost(c) \/ Running(c) \/ Shot(c) \/ Leaves(c)
----------------------------------------------------------------------------
(* The inductive invariant.                                                *)

(* A channel the loop of trigger_next_swing still has to prepare after it  *)
(* left: only one whose scan is over, which is passed by.                  *)
PassedBy(c) ==
  main = "add" /\ (c \in todo \/ adding = c) /\ c \notin channels =>
    /\ c \notin newChannels
    /\ \/ pc[c] \in Away
       \/ Over(c) /\ c \in todo /\ adding # c /\ pc[c] \in {"idle", "activate"}

Stage(c) ==
  /\ c \in newChannels => Waiting(c) /\ active[c] /\ c \notin channels
  /\ c \in channels =>
       Present(c) /\ active[c] /\ pc[c] \notin {"deregister", "gone"}
  /\ c \notin channels \cup newChannels => Absent(c)
  /\ PassedBy(c)

Stages == \A c \in Channels : Stage(c)

(* The two swings as the main thread and the handlers see them.            *)
Aligned ==
  /\ main \in {"armed", "setup"} => nextSwing = activeSwing
  /\ main \in Fires \cup Prep /\ (\E r \in Radars : transmitting[r]) =>
       nextSwing = processingSwing
  /\ main = "autotrigger" /\ (\E r \in Radars : transmitting[r]) =>
       nextSwing = activeSwing
  /\ main \in {"setup", "autotrigger", "end"} \cup Fires \cup Prep =>
       triggerRunning
  /\ main = "initSend" => newChannels \subseteq todo
  /\ main \notin {"add", "crashed"} => adding = "none"

(* The channels that are registered, as nRegisteredChannels counts them.   *)
Registered ==
  channels \cup newChannels \cup {c \in Channels : pc[c] = "deregister"}

Counted ==
  /\ nRegistered >= Cardinality(Registered)
  /\ MayLeave = {} => nRegistered = Cardinality(Registered)
  /\ \A c \in Registered : commonPar = Par[c]

StageInv == TypeOK /\ SetParExclusion /\ Stages /\ Aligned /\ Counted
----------------------------------------------------------------------------
(* Sequences of one or two elements.                                      *)

LEMMA FrontAt ==
  ASSUME NEW S, NEW q \in Seq(S), q # <<>>
  PROVE  /\ Len(q) \in Nat \ {0}
         /\ Front(q) \in Seq(S) /\ Len(Front(q)) = Len(q) - 1
         /\ \A i \in 1 .. Len(q) - 1 : Front(q)[i] = q[i]
<1> DEFINE n == Len(q)
<1>1. n \in Nat \ {0} /\ \A i \in 1 .. n : q[i] \in S
  BY LenProperties, EmptySeq
<1>2. \A i \in 1 .. n - 1 : q[i] \in S
  BY <1>1
<1>3. n - 1 \in Int
  BY <1>1
<1> HIDE DEF n
<1>4. /\ SubSeq(q, 1, n - 1) \in Seq(S)
      /\ Len(SubSeq(q, 1, n - 1)) = IF 1 <= n - 1 THEN n - 1 - 1 + 1 ELSE 0
      /\ \A i \in 1 .. n - 1 - 1 + 1 : SubSeq(q, 1, n - 1)[i] = q[1 + i - 1]
  BY <1>2, <1>3, SubSeqProperties
<1>5. Len(SubSeq(q, 1, n - 1)) = n - 1
  BY <1>1, <1>4
<1>6. \A i \in 1 .. n - 1 : SubSeq(q, 1, n - 1)[i] = q[i]
  BY <1>1, <1>4
<1>7. Front(q) = SubSeq(q, 1, n - 1)
  BY DEF Front, n
<1>8. QED BY <1>1, <1>4, <1>5, <1>6, <1>7 DEF n

LEMMA OneElement ==
  ASSUME NEW S, NEW x \in S
  PROVE  <<x>> # <<>> /\ Last(<<x>>) = x /\ Front(<<x>>) = <<>>
<1> DEFINE q == <<x>>
<1>1. q \in Seq(S) /\ q # <<>> /\ Len(q) = 1 /\ q[1] = x
  OBVIOUS
<1> HIDE DEF q
<1>2. Front(q) \in Seq(S) /\ Len(Front(q)) = Len(q) - 1
  BY <1>1, FrontAt
<1>3. Front(q) = <<>>
  BY <1>1, <1>2, EmptySeq
<1>4. Last(q) = x
  BY <1>1 DEF Last
<1>5. QED BY <1>1, <1>3, <1>4 DEF q

LEMMA TwoElements ==
  ASSUME NEW S, NEW x \in S, NEW y \in S
  PROVE  /\ <<x, y>> # <<>> /\ Last(<<x, y>>) = y
         /\ Front(<<x, y>>) = <<x>> /\ <<x>> \o <<y>> = <<x, y>>
<1> DEFINE q == <<x, y>>
           u == <<x>>
           v == <<y>>
<1>1. /\ q \in Seq(S) /\ q # <<>> /\ Len(q) = 2 /\ q[1] = x /\ q[2] = y
      /\ u \in Seq(S) /\ Len(u) = 1 /\ u[1] = x
      /\ v \in Seq(S) /\ Len(v) = 1 /\ v[1] = y /\ y \in S
  OBVIOUS
<1> HIDE DEF q, u, v
<1>2. /\ Front(q) \in Seq(S) /\ Len(Front(q)) = Len(q) - 1
      /\ \A i \in 1 .. Len(q) - 1 : Front(q)[i] = q[i]
  BY <1>1, FrontAt
<1>3. Front(q) = u
  BY <1>1, <1>2, SeqEqual
<1>4. Last(q) = y
  BY <1>1 DEF Last
<1>5. /\ Append(u, y) \in Seq(S) /\ Len(Append(u, y)) = 2
      /\ Append(u, y)[1] = x /\ Append(u, y)[2] = y
  <2>1. /\ Append(u, y) \in Seq(S) /\ Len(Append(u, y)) = Len(u) + 1
        /\ \A i \in 1 .. Len(u) : Append(u, y)[i] = u[i]
        /\ Append(u, y)[Len(u) + 1] = y
    <3>1. u \in Seq(S) /\ y \in S BY <1>1
    <3>2. QED BY <3>1, AppendProperties
  <2>2. QED BY <1>1, <2>1
<1>6. Append(u, y) = u \o v
  BY <1>1, AppendIsConcat DEF v
<1>7. u \o v = q
  BY <1>1, <1>5, <1>6, SeqEqual
<1>8. QED BY <1>1, <1>3, <1>4, <1>7 DEF q, u, v

LEMMA PairEnds ==
  ASSUME NEW S, NEW x \in S, NEW y \in S
  PROVE  Last(<<x, y>>) = y /\ Front(<<x, y>>) = <<x>>
<1>1. /\ <<x, y>> # <<>> /\ Last(<<x, y>>) = y
      /\ Front(<<x, y>>) = <<x>> /\ <<x>> \o <<y>> = <<x, y>>
  BY TwoElements
<1>2. QED BY ONLY <1>1

LEMMA JoinPair ==
  ASSUME NEW S, NEW x \in S, NEW y \in S
  PROVE  <<x>> \o <<y>> = <<x, y>>
<1>1. /\ <<x, y>> # <<>> /\ Last(<<x, y>>) = y
      /\ Front(<<x, y>>) = <<x>> /\ <<x>> \o <<y>> = <<x, y>>
  BY TwoElements
<1>2. QED BY ONLY <1>1

LEMMA PushedResult ==
  ASSUME NEW T, NEW q \in Seq(T), NEW e \in T
  PROVE  /\ Len(<<e>> \o q) = Len(q) + 1 /\ (<<e>> \o q)[1] = e
         /\ Len(q) = 1 => (<<e>> \o q)[2] = q[1]
OBVIOUS

LEMMA PushedOnOne ==
  ASSUME NEW T, NEW q \in Seq(T), NEW e \in T, Len(q) = 1,
         NEW p, p = <<e>> \o q
  PROVE  Len(p) = 2 /\ p[1] = e /\ p[2] = q[1]
<1>1. /\ Len(<<e>> \o q) = Len(q) + 1 /\ (<<e>> \o q)[1] = e
      /\ Len(q) = 1 => (<<e>> \o q)[2] = q[1]
  BY PushedResult
<1>2. QED BY ONLY <1>1, p = <<e>> \o q, Len(q) = 1

LEMMA FilledResult ==
  ASSUME NEW T, NEW q \in Seq(T), NEW e \in T, q # <<>>
  PROVE  /\ Len(Append(Front(q), e)) = Len(q)
         /\ Append(Front(q), e)[Len(q)] = e
         /\ Len(q) = 2 => Append(Front(q), e)[1] = q[1]
<1> DEFINE f == Front(q)
<1>1. /\ Len(q) \in Nat \ {0} /\ f \in Seq(T) /\ Len(f) = Len(q) - 1
      /\ \A i \in 1 .. Len(q) - 1 : f[i] = q[i]
  BY FrontAt
<1> HIDE DEF f
<1>2. /\ Len(Append(f, e)) = Len(f) + 1 /\ Append(f, e)[Len(f) + 1] = e
      /\ \A i \in 1 .. Len(f) : Append(f, e)[i] = f[i]
  BY <1>1, AppendProperties
<1>3. Len(Append(f, e)) = Len(q) /\ Append(f, e)[Len(q)] = e
  BY <1>1, <1>2
<1>4. Len(q) = 2 => Append(f, e)[1] = q[1]
  BY <1>1, <1>2
<1>5. QED BY <1>3, <1>4 DEF f

LEMMA SentResult ==
  ASSUME NEW T, NEW q \in Seq(T), q # <<>>
  PROVE  /\ Len(q) = 1 => Last(q) = q[1] /\ Front(q) = <<>>
         /\ Len(q) = 2 =>
              Last(q) = q[2] /\ Len(Front(q)) = 1 /\ Front(q)[1] = q[1]
<1>1. /\ Front(q) \in Seq(T) /\ Len(Front(q)) = Len(q) - 1
      /\ Len(q) \in Nat \ {0}
      /\ \A i \in 1 .. Len(q) - 1 : Front(q)[i] = q[i]
  BY FrontAt
<1>2. Len(q) = 1 => Front(q) = <<>>
  BY <1>1, EmptySeq
<1>3. QED BY <1>1, <1>2 DEF Last
----------------------------------------------------------------------------
USE RadarsAssumption, ChannelAssumption, ScanAssumption
USE DEF Swing, Label, None, ChannelState, INACTIVE, READY, TRIGGER,
        PROCESSING, SAMPLES_READY, LAST_SWING, Radars, processingSwing

(* The operators of the model, pointwise.                                  *)

LEMMA PutSwingAt ==
  ASSUME NEW f \in [Channels -> [Swing -> ChannelState]], NEW S,
         NEW s \in Swing, NEW v, NEW c \in Channels, NEW t \in Swing
  PROVE  PutSwing(f, S, s, v)[c][t] = IF c \in S /\ t = s THEN v ELSE f[c][t]
BY DEF PutSwing

----------------------------------------------------------------------------
(* What a step leaves alone.                                               *)

Own(c) == <<state[c], nextState[c], pc[c], wait[c], triggered[c], results[c],
            sent[c], scan[c], left[c], active[c]>>
Place == <<main, activeSwing, nextSwing, transmitting>>

(* A channel whose own data, lists and place of the main thread are the    *)
(* same stays at its stage.                                                *)
LEMMA StageKept ==
  ASSUME TypeOK, NEW c \in Channels, Stage(c), UNCHANGED <<Own(c), Place>>,
         c \in todo' <=> c \in todo, adding' = c <=> adding = c,
         c \in channels' <=> c \in channels,
         c \in newChannels' <=> c \in newChannels,
         c \in channels' /\ radarActive[Rnum[c]] => radarActive'[Rnum[c]]
  PROVE  Stage(c)'
<1> USE DEF Own, Place
<1>1. Waiting(c) => Waiting(c)'
  BY DEF Waiting, BothInactive, Start1, Began, NoResults, Owes, Remaining,
         Camping, WaitsRight
<1>2. Quiet(c) => Quiet(c)'
  BY DEF Quiet, BothInactive, Start1, Began, NoResults, Owes, Remaining,
         Camping, Over, IsLastPeriod, NoScan
<1>3. ASSUME NEW x \in Swing PROVE Ended(c, x) => Ended(c, x)'
  BY DEF Ended, Over, Began, IsLastPeriod, Camping, Gone, Fetch, One, Filled,
         NoResults
<1>4. ASSUME NEW x \in Swing PROVE Stuck(c, x) => Stuck(c, x)'
  BY DEF Stuck, Over, Began, IsLastPeriod, Camping, Gone, Fetch, NoResults
<1>5. Absent(c) => Absent(c)'
  BY <1>2, <1>3, <1>4 DEF Absent
<1>6. Fresh(c) => Fresh(c)'
  BY DEF Fresh, At, Start1, Began, NoResults, Gone, Owes, Remaining, Camping
<1>7. Primed(c) /\ c \in channels => Primed(c)'
  BY DEF Primed, At, Start1, Began, NoResults, Gone, Owes, Remaining, Camping,
         Fetch
<1>8. Fired(c) /\ c \in channels => Fired(c)'
  BY DEF Fired, At, Start1, First1, Began, NoResults, Gone, Owes, Remaining,
         Camping, Fetch, Pending, One, Filled, IsLastPeriod, lastSwing
<1>9. ASSUME NEW x \in Swing PROVE Missed(c, x) => Missed(c, x)'
  BY DEF Missed, At, Start1, First1, Began, NoResults, Gone, IsLastPeriod,
         Camping, Fetch
<1>10. Lost(c) => Lost(c)'
  BY DEF Lost, At, First1, Began, NoResults, Gone, IsLastPeriod, Camping, Fetch
<1>11. Triggered(c) => Triggered(c)'
  BY DEF Triggered, Gone, Owes, Remaining, Camping, Fetch, Pending, One,
         Filled, IsLastPeriod, lastSwing, NoResults
<1>12. Collected(c) => Collected(c)'
  BY DEF Collected, Gone, Owes, Remaining, Camping, Fetch, One, Two,
         Filled, Previous, lastSwing
<1>13. Prepared(c) => Prepared(c)'
  BY DEF Prepared, Gone, Owes, Remaining, Camping, One, Filled, lastSwing
<1>14. Running(c) /\ c \in channels => Running(c)'
  BY <1>11, <1>12, <1>13 DEF Running, At, Going, Began, lastSwing
<1>15. Shot(c) /\ c \in channels => Shot(c)'
  BY DEF Shot, At, Going, Began, Gone, Owes, Remaining, Camping, Fetch,
         Pending, One, Two, Filled, IsLastPeriod, NoResults
<1>16. Leaves(c) => Leaves(c)'
  BY <1>3, <1>4 DEF Leaves, At
<1>17. Present(c) /\ c \in channels => Present(c)'
  BY <1>6, <1>7, <1>8, <1>9, <1>10, <1>14, <1>15, <1>16 DEF Present
<1>18. PassedBy(c) => PassedBy(c)'
  BY DEF PassedBy, Over, IsLastPeriod, Camping
<1>19. QED
  BY <1>1, <1>5, <1>17, <1>18 DEF Stage
----------------------------------------------------------------------------
(* What a handler does to the other channels.                              *)

(* Two channels are registered as two.                                     *)
LEMMA TwoRegistered ==
  ASSUME TypeOK, Counted, NEW c \in Registered, NEW d \in Registered, c # d
  PROVE  nRegistered >= 2
<1>1. Registered \subseteq Channels
  BY DEF Registered, TypeOK, TypeLists
<1>2. IsFiniteSet(Registered)
  BY <1>1, FS_Subset
<1>3. /\ IsFiniteSet(Registered \ {c})
      /\ Cardinality(Registered \ {c}) = Cardinality(Registered) - 1
  BY <1>2, FS_RemoveElement
<1>4. /\ IsFiniteSet((Registered \ {c}) \ {d})
      /\ Cardinality((Registered \ {c}) \ {d})
           = Cardinality(Registered \ {c}) - 1
  BY <1>3, FS_RemoveElement
<1>5. /\ Cardinality((Registered \ {c}) \ {d}) \in Nat
      /\ Cardinality(Registered) \in Nat /\ nRegistered \in Nat
  BY <1>2, <1>4, FS_CardinalityType DEF TypeOK, TypeLists
<1>6. nRegistered >= Cardinality(Registered)
  BY DEF Counted
<1> HIDE DEF Registered
<1>7. QED BY <1>3, <1>4, <1>5, <1>6

(* A radar stays active when one of its channels stays.                    *)
LEMMA RadarStays ==
  ASSUME TypeOK, Counted, NEW c \in Channels, NEW gone \in BOOLEAN,
         gone => c \in Registered,
         NEW d \in channels, d # c, radarActive[Rnum[d]]
  PROVE  RadarActiveWithout(c, gone)[Rnum[d]]
<1>1. d \in Registered /\ d \in Channels
  BY DEF Registered, TypeOK, TypeLists
<1>2. nRegistered \in Nat
  BY DEF TypeOK, TypeLists
<1>3. ~(gone /\ nRegistered <= 1)
  BY <1>1, <1>2, TwoRegistered
<1>4. Rnum[d] \in Radars /\ d \in On(Rnum[d]) \ {c}
  BY <1>1 DEF On
<1>5. QED BY <1>3, <1>4 DEF RadarActiveWithout

LEMMA HandlerElsewhere ==
  ASSUME TypeOK, NEW c \in Channels, Handler(c), NEW d \in Channels, d # c
  PROVE  /\ UNCHANGED <<Own(d), Place, todo, adding>>
         /\ d \in channels' <=> d \in channels
         /\ d \in newChannels' <=> d \in newChannels
<1> USE DEF Own, Place, Goto, rhm, swings, lists, handler, chan
<1> DEFINE Same == /\ UNCHANGED <<Own(d), Place, todo, adding>>
                   /\ d \in channels' <=> d \in channels
                   /\ d \in newChannels' <=> d \in newChannels
<1>1. TypeHandler /\ TypeChan
  BY DEF TypeOK
<1> USE <1>1 DEF TypeHandler, TypeChan
<1>2. CASE SetActive(c) \/ AwaitTriggerEnd(c)
  BY <1>2, SMTT(30) DEF SetActive, AwaitTriggerEnd
<1>3. CASE StartScan(c)
  BY <1>3, SMTT(30) DEF StartScan
<1>4. CASE StoreParameters(c) \/ TakeParameters(c)
  BY <1>4, SMTT(30) DEF StoreParameters, TakeParameters
<1>5. CASE Register(c)
  BY <1>5, SMTT(30) DEF Register
<1>6. CASE CompareParameters(c) \/ SetReady(c)
  BY <1>6, SMTT(30) DEF CompareParameters, SetReady
<1>7. CASE TriggerSwing(c) \/ GetData(c)
  BY <1>7, SMTT(30) DEF TriggerSwing, GetData
<1>8. CASE SendResults(c)
  BY <1>8, SMTT(30) DEF SendResults
<1>9. CASE EndGetData(c) \/ AwaitTrigger(c)
  BY <1>9, SMTT(30) DEF EndGetData, AwaitTrigger
<1>10. CASE Unlist(c)
  BY <1>10, SMTT(30) DEF Unlist
<1>11. CASE EndQuit(c)
  BY <1>11, SMTT(30) DEF EndQuit
<1>12. CASE SetInactive(c)
  BY <1>12, SMTT(30) DEF SetInactive
<1>13. CASE Quit(c) \/ LoseConnection(c)
  BY <1>13, SMTT(30) DEF Quit, LoseConnection
<1>14. QED
  BY <1>2, <1>3, <1>4, <1>5, <1>6, <1>7, <1>8, <1>9, <1>10, <1>11, <1>12,
     <1>13 DEF Handler, Serve

LEMMA HandlerRadar ==
  ASSUME TypeOK, Counted, NEW c \in Channels, Handler(c),
         NEW d \in channels, d # c, radarActive[Rnum[d]]
  PROVE  radarActive'[Rnum[d]]
<1> USE DEF flags
<1>1. Rnum[d] \in Radars /\ radarActive \in [Radars -> BOOLEAN]
  BY DEF TypeOK, TypeLists, TypeFlags
<1>2. CASE SetActive(c) BY <1>1, <1>2 DEF SetActive
<1>3. CASE StartScan(c) BY <1>1, <1>3 DEF StartScan
<1>4. CASE SetInactive(c)
  <2>1. PICK gone \in BOOLEAN : gone <=> c \in channels
    OBVIOUS
  <2>2. gone => c \in Registered
    BY <2>1 DEF Registered
  <2>3. RadarActiveWithout(c, gone)[Rnum[d]]
    BY <2>2, RadarStays
  <2>4. QED
    BY <1>1, <1>4, <2>1, <2>3 DEF SetInactive, RadarActiveWithout
<1>5. CASE EndQuit(c)
  <2>1. c \in Registered BY <1>5 DEF Registered, EndQuit
  <2>2. RadarActiveWithout(c, TRUE)[Rnum[d]]
    BY <2>1, RadarStays
  <2>3. QED BY <1>5, <2>2 DEF EndQuit
<1>6. CASE \/ AwaitTriggerEnd(c) \/ StoreParameters(c) \/ TakeParameters(c)
           \/ Register(c) \/ CompareParameters(c) \/ SetReady(c)
           \/ TriggerSwing(c)
  BY <1>6 DEF AwaitTriggerEnd, StoreParameters, TakeParameters, Register,
     CompareParameters, SetReady, TriggerSwing
<1>7. CASE \/ GetData(c) \/ SendResults(c) \/ EndGetData(c)
           \/ AwaitTrigger(c) \/ Unlist(c) \/ Quit(c) \/ LoseConnection(c)
  BY <1>7 DEF GetData, SendResults, EndGetData, AwaitTrigger, Unlist, Quit,
     LoseConnection
<1>8. QED BY <1>2, <1>3, <1>4, <1>5, <1>6, <1>7 DEF Handler, Serve

LEMMA OthersStay ==
  ASSUME TypeOK, Stages, Counted, NEW c \in Channels, Handler(c),
         NEW d \in Channels, d # c
  PROVE  Stage(d)'
<1>1. /\ UNCHANGED <<Own(d), Place, todo, adding>>
      /\ d \in channels' <=> d \in channels
      /\ d \in newChannels' <=> d \in newChannels
  BY HandlerElsewhere
<1>2. d \in channels' /\ radarActive[Rnum[d]] => radarActive'[Rnum[d]]
  BY <1>1, HandlerRadar
<1>3. Stage(d) BY DEF Stages
<1>4. QED BY <1>1, <1>2, <1>3, StageKept
----------------------------------------------------------------------------
(* What a handler does to its own channel, action by action.               *)

(* It leaves, or ends with an exception.                                   *)
LEMMA GoesAway ==
  ASSUME TypeOK, NEW c \in Channels, Stage(c), pc'[c] \in Leaving,
         pc[c] \notin {"deregister", "gone"},
         c \in newChannels => pc'[c] \in {"quit", "remove"} /\ c \in MayLeave,
         UNCHANGED <<Place, todo, adding, channels, newChannels, radarActive>>,
         UNCHANGED <<state[c], nextState[c], triggered[c], results[c],
                     scan[c], active[c]>>
  PROVE  Stage(c)'
<1> USE DEF Place, Leaving, Away
<1>1. Waiting(c) /\ c \in newChannels => Waiting(c)'
  BY DEF Waiting, BothInactive, Start1, Began, NoResults
<1>2. Absent(c)'
  BY DEF Absent
<1>3. ASSUME NEW x \in Swing PROVE Ended(c, x) => Ended(c, x)'
  BY DEF Ended, Over, Began, IsLastPeriod, Camping, Gone
<1>4. ASSUME NEW x \in Swing PROVE Stuck(c, x) => Stuck(c, x)'
  BY DEF Stuck, Over, Began, IsLastPeriod, Camping, Gone, NoResults
<1>5. Fresh(c) => Fresh(c)'
  BY DEF Fresh, At, Start1, Began, NoResults, Gone
<1>6. Primed(c) => Primed(c)'
  BY DEF Primed, At, Start1, Began, NoResults, Gone
<1>7. Fired(c) => Fired(c)'
  BY DEF Fired, At, Start1, First1, Began, NoResults, Gone, Pending, One,
     Filled, IsLastPeriod, Camping, lastSwing
<1>8. ASSUME NEW x \in Swing PROVE Missed(c, x) => Missed(c, x)'
  BY DEF Missed, At, Start1, First1, Began, NoResults, Gone, IsLastPeriod,
     Camping
<1>9. Lost(c) => Lost(c)'
  BY DEF Lost, At, First1, Began, NoResults, Gone, IsLastPeriod, Camping
<1>10. Running(c) => Running(c)'
  <2>1. Triggered(c) => Triggered(c)'
    BY DEF Triggered, Gone, Pending, One, Filled, NoResults, IsLastPeriod,
       Camping, lastSwing
  <2>2. Collected(c) => Collected(c)'
    BY DEF Collected, Gone
  <2>3. Prepared(c) => Prepared(c)'
    BY DEF Prepared, Gone, One, Filled, lastSwing
  <2>4. QED BY <2>1, <2>2, <2>3 DEF Running, At, Going, Began, lastSwing
<1>11. Shot(c) => Shot(c)'
  BY DEF Shot, At, Going, Began, Gone, Pending, One, Two, Filled, NoResults,
     IsLastPeriod, Camping
<1>12. Leaves(c) => Leaves(c)'
  <2>1. \A x \in Swing : x = processingSwing <=> x = processingSwing'
    OBVIOUS
  <2>2. QED BY <1>3, <1>4, <2>1 DEF Leaves, At
<1>13. Present(c) => Present(c)'
  BY <1>5, <1>6, <1>7, <1>8, <1>9, <1>10, <1>11, <1>12 DEF Present
<1>14. PassedBy(c)'
  BY DEF Stage, PassedBy
<1>15. QED BY <1>1, <1>2, <1>13, <1>14 DEF Stage

LEMMA QuitStage ==
  ASSUME TypeOK, NEW c \in Channels, Stage(c),
         Quit(c) \/ LoseConnection(c) \/ AwaitTrigger(c)
  PROVE  Stage(c)'
<1>1. /\ pc'[c] \in {"quit", "remove"}
      /\ pc[c] \notin {"deregister", "gone"}
      /\ pc[c] = "quit" \/ c \in MayLeave
  BY DEF Quit, LoseConnection, AwaitTrigger, Goto, TypeOK, TypeHandler,
     BetweenCommands
<1>2. c \in newChannels => c \in MayLeave
  <2>1. c \in newChannels => Waiting(c) BY DEF Stage
  <2>2. pc[c] = "quit" /\ Waiting(c) => c \in MayLeave BY DEF Waiting
  <2>3. QED BY <1>1, <2>1, <2>2
<1>3. /\ UNCHANGED <<Place, todo, adding, channels, newChannels, radarActive>>
      /\ UNCHANGED <<state[c], nextState[c], triggered[c], results[c],
                     scan[c], active[c]>>
  BY DEF Quit, LoseConnection, AwaitTrigger, Place, rhm, swings, lists,
     flags, chan
<1>4. QED BY <1>1, <1>2, <1>3, GoesAway DEF Leaving

(* What the places of the handler say about the stage of its channel.      *)
LEMMA AtStart ==
  ASSUME NEW c \in Channels, Stage(c),
         pc[c] \in {"idle", "activate", "newscan", "setpar", "parwait"}
  PROVE  \/ /\ c \notin channels \cup newChannels /\ Quiet(c)
         \/ /\ c \in channels /\ c \notin newChannels /\ active[c]
            /\ Running(c) /\ Prepared(c)
<1> USE DEF Leaving, Away, Gone, Fetch
<1>1. c \notin newChannels
  BY DEF Stage, Waiting
<1>2. ASSUME c \in channels PROVE Running(c) /\ Prepared(c) /\ active[c]
  <2>1. Present(c) /\ active[c] BY <1>2 DEF Stage
  <2>2. ~Fresh(c) /\ ~Primed(c) /\ ~Fired(c) /\ ~Lost(c) /\ ~Shot(c)
    BY DEF Fresh, Primed, Fired, Lost, Shot
  <2>3. \A x \in Swing : ~Missed(c, x) /\ ~Ended(c, x) /\ ~Stuck(c, x)
    BY DEF Missed, Ended, Stuck
  <2>4. Running(c)
    BY <2>1, <2>2, <2>3 DEF Present, Leaves
  <2>5. ~Triggered(c) /\ ~Collected(c)
    BY DEF Triggered, Collected
  <2>6. QED BY <2>1, <2>4, <2>5 DEF Running
<1>3. ASSUME c \notin channels PROVE Quiet(c)
  <2>1. \A x \in Swing : ~Ended(c, x) /\ ~Stuck(c, x)
    BY DEF Ended, Stuck
  <2>2. QED BY <1>1, <1>3, <2>1 DEF Stage, Absent
<1>4. QED BY <1>1, <1>2, <1>3

LEMMA AtReady ==
  ASSUME NEW c \in Channels, Stage(c), pc[c] \in {"ready", "readywait"}
  PROVE  \/ c \in newChannels /\ c \notin channels /\ Waiting(c)
         \/ c \in channels /\ c \notin newChannels /\ Fresh(c)
         \/ /\ c \in channels /\ c \notin newChannels
            /\ Running(c) /\ Prepared(c)
<1> USE DEF Leaving, Away, Gone, Fetch
<1>1. \A x \in Swing : ~Missed(c, x) /\ ~Ended(c, x) /\ ~Stuck(c, x)
  BY DEF Missed, Ended, Stuck
<1>2. c \in channels \cup newChannels
  BY <1>1 DEF Stage, Absent, Quiet
<1>3. ASSUME c \in channels PROVE Fresh(c) \/ (Running(c) /\ Prepared(c))
  <2>1. ~Primed(c) /\ ~Fired(c) /\ ~Lost(c) /\ ~Shot(c)
    BY DEF Primed, Fired, Lost, Shot
  <2>2. ~Triggered(c) /\ ~Collected(c)
    BY DEF Triggered, Collected
  <2>3. QED BY <1>1, <1>3, <2>1, <2>2 DEF Stage, Present, Leaves, Running
<1>4. QED BY <1>2, <1>3 DEF Stage

LEMMA AtSending ==
  ASSUME NEW c \in Channels, Stage(c), pc[c] \in {"sending", "inactive"}
  PROVE  /\ c \notin newChannels
         /\ \/ c \in channels /\ Running(c) /\ Collected(c)
            \/ c \in channels /\ Leaves(c)
            \/ c \notin channels /\ \E x \in Swing : Ended(c, x)
         /\ c \notin channels => ~(main = "add" /\ (c \in todo \/ adding = c))
<1> USE DEF Leaving, Away, Gone, Fetch
<1>1. \A x \in Swing : ~Missed(c, x) /\ ~Stuck(c, x)
  BY DEF Missed, Stuck
<1>2. c \notin newChannels
  BY DEF Stage, Waiting
<1>3. ASSUME c \in channels PROVE Leaves(c) \/ (Running(c) /\ Collected(c))
  <2>1. ~Fresh(c) /\ ~Primed(c) /\ ~Fired(c) /\ ~Lost(c) /\ ~Shot(c)
    BY DEF Fresh, Primed, Fired, Lost, Shot
  <2>2. ~Triggered(c) /\ ~Prepared(c)
    BY DEF Triggered, Prepared
  <2>3. QED BY <1>1, <1>3, <2>1, <2>2 DEF Stage, Present, Running
<1>4. ASSUME c \notin channels PROVE \E x \in Swing : Ended(c, x)
  BY <1>1, <1>2, <1>4 DEF Stage, Absent, Quiet
<1>5. c \notin channels => ~(main = "add" /\ (c \in todo \/ adding = c))
  BY DEF Stage, PassedBy
<1>6. QED BY <1>2, <1>3, <1>4, <1>5
----------------------------------------------------------------------------
(* SET_ACTIVE and SET_PARAMETERS.                                          *)

LEMMA SetActiveStage ==
  ASSUME TypeOK, NEW c \in Channels, Stage(c), SetActive(c)
  PROVE  Stage(c)'
<1> USE DEF rhm, swings
<1>1. /\ pc[c] = "idle" /\ active'[c]
      /\ pc'[c] = IF Camping(scan[c]) THEN "setpar" ELSE "activate"
      /\ Camping(scan[c]) => left'[c] = 1
      /\ UNCHANGED <<Place, todo, adding, channels, newChannels>>
      /\ UNCHANGED <<state, triggered, results, scan>>
      /\ ~Camping(scan[c]) => UNCHANGED radarActive
  BY DEF SetActive, Goto, TypeOK, TypeHandler, TypeChan, Place
<1>2. radarActive[Rnum[c]] => radarActive'[Rnum[c]]
  BY DEF SetActive, TypeOK, TypeFlags
<1>3. CASE c \notin channels \cup newChannels /\ Quiet(c)
  <2>1. ~Camping(scan[c]) /\ pc'[c] = "activate"
    BY <1>1, <1>3 DEF Quiet
  <2>2. Quiet(c)'
    BY <1>1, <1>3, <2>1 DEF Quiet, BothInactive, NoResults, Over,
       IsLastPeriod, Camping, NoScan
  <2>3. PassedBy(c)'
    BY <1>1, <1>3, <2>1 DEF Stage, PassedBy, Place, Over, IsLastPeriod,
       Camping, Away, Leaving
  <2>4. QED BY <1>1, <1>3, <2>2, <2>3 DEF Stage, Absent
<1>4. CASE c \in channels /\ c \notin newChannels /\ Running(c) /\ Prepared(c)
  <2>1. Camping(scan[c]) /\ pc'[c] = "setpar" /\ left'[c] = 1
    BY <1>1, <1>4 DEF Prepared, Gone, Leaving
  <2>2. Prepared(c)'
    BY <1>1, <1>4, <2>1 DEF Prepared, Place, Gone, Leaving, Owes, Camping,
       One, Filled, lastSwing
  <2>3. Running(c)'
    BY <1>1, <1>2, <1>4, <2>2 DEF Running, At, Place, Going, Began, lastSwing
  <2>4. QED BY <1>1, <1>4, <2>1, <2>3 DEF Stage, Present, PassedBy
<1>5. QED BY <1>1, <1>3, <1>4, AtStart

LEMMA AwaitTriggerEndStage ==
  ASSUME TypeOK, Aligned, NEW c \in Channels, Stage(c), AwaitTriggerEnd(c)
  PROVE  Stage(c)'
<1> USE DEF rhm, swings, lists, flags, handler, chan
<1>1. /\ pc[c] = "activate" /\ pc'[c] = "newscan" /\ ~triggerRunning
      /\ UNCHANGED <<Place, todo, adding, channels, newChannels>>
      /\ UNCHANGED <<state, triggered, results, scan, active>>
  BY DEF AwaitTriggerEnd, Goto, TypeOK, TypeHandler, Place
<1>2. c \notin channels \cup newChannels /\ Quiet(c)
  BY <1>1, AtStart DEF Prepared, Gone, Leaving
<1>3. Quiet(c)'
  BY <1>1, <1>2 DEF Quiet, BothInactive, NoResults, Over, IsLastPeriod,
     Camping, NoScan
<1>4. PassedBy(c)'
  BY <1>1 DEF Aligned, PassedBy, Place, Prep
<1>5. QED BY <1>1, <1>2, <1>3, <1>4 DEF Stage, Absent

LEMMA StartScanStage ==
  ASSUME TypeOK, NEW c \in Channels, Stage(c), StartScan(c)
  PROVE  Stage(c)'
<1> USE DEF rhm, swings, lists, handler, chan
<1>1. /\ pc[c] = "newscan" /\ pc'[c] = "setpar" /\ triggered'[c] = <<>>
      /\ UNCHANGED <<Place, todo, adding, channels, newChannels>>
      /\ UNCHANGED <<state, results, active>>
  BY DEF StartScan, Goto, TypeOK, TypeHandler, TypeChan, Place
<1>2. PICK p \in StartPeriods[c] :
        /\ scan'[c] = InitNewScan(ScanLen[c], p)
        /\ left'[c] = ScanLen[c] - p
  BY DEF StartScan, TypeOK, TypeChan, TypeHandler
<1>3. p \in Nat /\ ScanLen[c] \in Nat \ {0} /\ p < ScanLen[c]
  OBVIOUS
<1>4. c \notin channels \cup newChannels /\ Quiet(c)
  BY <1>1, AtStart DEF Prepared, Gone, Leaving
<1>5. Start1(c)'
  BY <1>2, <1>3 DEF Start1, Began, InitNewScan
<1>6. Owes(c, Remaining(c))'
  BY <1>2, <1>3 DEF Owes, Remaining, Camping, InitNewScan
<1>7. Quiet(c)'
  BY <1>1, <1>4, <1>5, <1>6 DEF Quiet, BothInactive, NoResults
<1>8. PassedBy(c)'
  BY <1>1, <1>4 DEF Stage, PassedBy, Place, Away, Leaving
<1>9. QED BY <1>1, <1>4, <1>7, <1>8 DEF Stage, Absent

LEMMA StoreParametersStage ==
  ASSUME TypeOK, NEW c \in Channels, Stage(c), StoreParameters(c)
  PROVE  Stage(c)'
<1> USE DEF rhm, swings, lists, flags, handler, chan
<1>1. /\ pc[c] = "parwait" /\ pc'[c] = "setpar"
      /\ UNCHANGED <<Place, todo, adding, channels, newChannels, radarActive>>
      /\ UNCHANGED <<wait, left, state, triggered, results, active>>
      /\ scan'[c].len = scan[c].len /\ scan'[c].period = scan[c].period
      /\ scan'[c].pre = scan[c].pre /\ scan'[c].post = scan[c].post
      /\ scan'[c].first = scan[c].first
  BY DEF StoreParameters, Goto, TypeOK, TypeHandler, TypeChan, Scan, Place
<1>2. CASE c \notin channels \cup newChannels /\ Quiet(c)
  <2>1. Quiet(c)'
    BY <1>1, <1>2 DEF Quiet, BothInactive, NoResults, Start1, Began, Owes,
       Remaining, Camping
  <2>2. PassedBy(c)'
    BY <1>1, <1>2 DEF Stage, PassedBy, Place, Away, Leaving
  <2>3. QED BY <1>1, <1>2, <2>1, <2>2 DEF Stage, Absent
<1>3. CASE c \in channels /\ c \notin newChannels /\ Running(c) /\ Prepared(c)
  <2>1. Prepared(c)'
    BY <1>1, <1>3 DEF Prepared, Place, Gone, Leaving, Owes, Remaining, Camping,
       One, Filled, lastSwing
  <2>2. Running(c)'
    BY <1>1, <1>3, <2>1 DEF Running, At, Place, Going, Began, lastSwing
  <2>3. QED BY <1>1, <1>3, <2>2 DEF Stage, Present, PassedBy
<1>4. QED BY <1>1, <1>2, <1>3, AtStart

LEMMA TakeParametersStage ==
  ASSUME TypeOK, NEW c \in Channels, Stage(c), TakeParameters(c)
  PROVE  Stage(c)'
<1> USE DEF rhm, swings, lists, flags, handler, chan
<1>1. /\ pc[c] = "setpar" /\ pc'[c] = "parwait"
      /\ wait'[c] = IF scan[c].pre THEN nextSwing ELSE 1 - nextSwing
      /\ UNCHANGED <<Place, todo, adding, channels, newChannels, radarActive>>
      /\ UNCHANGED <<left, state, triggered, results, active, scan>>
  BY DEF TakeParameters, Goto, TypeOK, TypeHandler, Place
<1>2. CASE c \notin channels \cup newChannels /\ Quiet(c)
  <2>1. Quiet(c)'
    BY <1>1, <1>2 DEF Quiet, BothInactive, NoResults, Start1, Began, Owes,
       Remaining, Camping
  <2>2. PassedBy(c)'
    BY <1>1, <1>2 DEF Stage, PassedBy, Place, Away, Leaving
  <2>3. QED BY <1>1, <1>2, <2>1, <2>2 DEF Stage, Absent
<1>3. CASE c \in channels /\ c \notin newChannels /\ Running(c) /\ Prepared(c)
  <2>1. wait'[c] = lastSwing
    BY <1>1, <1>3 DEF Running, Going, lastSwing
  <2>2. Prepared(c)'
    BY <1>1, <1>3, <2>1 DEF Prepared, Place, Gone, Leaving, Owes, Remaining,
       Camping, One, Filled, lastSwing
  <2>3. Running(c)'
    BY <1>1, <1>3, <2>2 DEF Running, At, Place, Going, Began, lastSwing
  <2>4. QED BY <1>1, <1>3, <2>3 DEF Stage, Present, PassedBy
<1>4. QED BY <1>1, <1>2, <1>3, AtStart

LEMMA RegisterStage ==
  ASSUME TypeOK, NEW c \in Channels, Stage(c), Register(c)
  PROVE  c \notin channels \cup newChannels /\ Stage(c)'
<1> USE DEF rhm, swings, lists, flags, handler, chan
<1>1. /\ pc[c] = "parwait" /\ state[c][wait[c]] = INACTIVE
      /\ UNCHANGED <<Place, todo, adding, channels>>
      /\ UNCHANGED <<wait, left, state, triggered, results, active, scan>>
      /\ \/ /\ newChannels' = newChannels \cup {c}
            /\ c \notin newChannels => pc'[c] = "ready"
         \/ newChannels' = newChannels /\ pc'[c] = "quit"
  BY DEF Register, Goto, TypeOK, TypeHandler, Place
<1>2. c \notin channels \cup newChannels /\ Quiet(c)
  <2>1. c \in channels /\ Running(c) /\ Prepared(c) => FALSE
    BY <1>1 DEF Running, Prepared, Gone, Leaving
  <2>2. QED BY <1>1, <2>1, AtStart
<1>3. PassedBy(c)'
  BY <1>1, <1>2 DEF Stage, PassedBy, Place, Away, Leaving
<1>4. CASE newChannels' = newChannels \cup {c} /\ pc'[c] = "ready"
  <2>1. Waiting(c)'
    BY <1>1, <1>2, <1>4 DEF Quiet, Waiting, BothInactive, NoResults, Start1,
       Began, Owes, Remaining, Camping
  <2>2. active[c]
    BY <1>1, <1>2 DEF Quiet
  <2>3. QED BY <1>1, <1>2, <1>3, <1>4, <2>1, <2>2 DEF Stage
<1>5. CASE newChannels' = newChannels /\ pc'[c] = "quit"
  BY <1>1, <1>2, <1>3, <1>5 DEF Stage, Absent, Away, Leaving
<1>6. QED BY <1>1, <1>2, <1>4, <1>5

LEMMA CompareParametersStage ==
  ASSUME TypeOK, NEW c \in Channels, Stage(c), CompareParameters(c)
  PROVE  Stage(c)'
<1> USE DEF rhm, swings, lists, flags, handler, chan
<1>1. /\ pc[c] = "parwait" /\ pc'[c] = "ready"
      /\ state[c][wait[c]] \in {PROCESSING, LAST_SWING} /\ wait[c] \in Swing
      /\ UNCHANGED <<Place, todo, adding, channels, newChannels, radarActive>>
      /\ UNCHANGED <<left, state, triggered, results, active, scan>>
  BY DEF CompareParameters, Goto, TypeOK, TypeHandler, Place
<1>2. ~Quiet(c)
  BY <1>1 DEF Quiet, BothInactive
<1>3. c \in channels /\ c \notin newChannels /\ Running(c) /\ Prepared(c)
  BY <1>1, <1>2, AtStart
<1>4. Prepared(c)'
  BY <1>1, <1>3 DEF Prepared, Place, Gone, Leaving, Owes, Remaining, Camping,
     One, Filled, lastSwing
<1>5. Running(c)'
  BY <1>1, <1>3, <1>4 DEF Running, At, Place, Going, Began, lastSwing
<1>6. QED BY <1>1, <1>3, <1>5 DEF Stage, Present, PassedBy
----------------------------------------------------------------------------
(* SET_READY.                                                              *)

LEMMA SetReadyStage ==
  ASSUME TypeOK, NEW c \in Channels, Stage(c), SetReady(c)
  PROVE  Stage(c)'
<1> USE DEF rhm, swings, lists, flags, handler, chan
<1>1. /\ pc[c] = "ready" /\ pc'[c] = "readywait" /\ wait'[c] = nextSwing
      /\ UNCHANGED <<Place, todo, adding, channels, newChannels, radarActive>>
      /\ UNCHANGED <<left, state, triggered, results, active, scan>>
  BY DEF SetReady, Goto, TypeOK, TypeHandler, Place
<1>2. CASE c \in newChannels /\ c \notin channels /\ Waiting(c)
  <2>1. WaitsRight(c)'
    BY <1>1 DEF WaitsRight, Place
  <2>2. Waiting(c)'
    BY <1>1, <1>2, <2>1 DEF Waiting, BothInactive, NoResults, Start1, Began,
       Owes, Remaining, Camping
  <2>3. PassedBy(c)'
    BY <1>1, <1>2 DEF Stage, PassedBy, Place, Away, Leaving
  <2>4. QED BY <1>1, <1>2, <2>2, <2>3 DEF Stage
<1>3. CASE c \in channels /\ c \notin newChannels /\ Fresh(c)
  <2>1. Fresh(c)'
    BY <1>1, <1>3 DEF Fresh, Place, At, Start1, Began, NoResults, Gone,
       Leaving, Owes, Remaining, Camping
  <2>2. QED BY <1>1, <1>3, <2>1 DEF Stage, Present, PassedBy
<1>4. CASE c \in channels /\ c \notin newChannels /\ Running(c) /\ Prepared(c)
  <2>1. Prepared(c)'
    BY <1>1, <1>4 DEF Prepared, Place, Gone, Leaving, Owes, Remaining,
       Camping, One, Filled, lastSwing
  <2>2. Running(c)'
    BY <1>1, <1>4, <2>1 DEF Running, At, Place, Going, Began, lastSwing
  <2>3. QED BY <1>1, <1>4, <2>2 DEF Stage, Present, PassedBy
<1>5. QED BY <1>1, <1>2, <1>3, <1>4, AtReady

LEMMA TriggerSwingStage ==
  ASSUME TypeOK, NEW c \in Channels, Stage(c), TriggerSwing(c)
  PROVE  /\ state[c][nextSwing] \in {READY, LAST_SWING}
         /\ Stage(c)'
<1> USE DEF rhm, swings, lists, flags, handler, chan
<1>1. /\ pc[c] = "readywait" /\ pc'[c] = "getdata"
      /\ state[c][wait[c]] \in {READY, LAST_SWING} /\ wait[c] \in Swing
      /\ state'[c] = [state[c] EXCEPT ![nextSwing] = TRIGGER]
      /\ triggered'[c] = <<nextSwing>> \o triggered[c]
      /\ UNCHANGED <<Place, todo, adding, channels, newChannels, radarActive>>
      /\ UNCHANGED <<left, results, active, scan>>
  BY DEF TriggerSwing, Goto, TypeOK, TypeHandler, TypeChan, Place
<1>2. /\ activeSwing \in Swing /\ nextSwing \in Swing /\ lastSwing \in Swing
      /\ DOMAIN state[c] = Swing
  BY DEF TypeOK, TypeSwings, TypeChan, lastSwing
<1>3. ~Waiting(c)
  BY <1>1 DEF Waiting, BothInactive
<1>4. CASE c \in channels /\ c \notin newChannels /\ Fresh(c)
  <2>1. wait[c] = activeSwing /\ nextSwing = activeSwing
    BY <1>1, <1>2, <1>4 DEF Fresh
  <2>2. triggered'[c] = <<activeSwing>>
    BY <1>1, <1>2, <1>4, <2>1 DEF Fresh
  <2>3. Primed(c)'
    BY <1>1, <1>2, <1>4, <2>1, <2>2 DEF Fresh, Primed, Place, At, Rest,
       Start1, Began, NoResults, Gone, Leaving, Fetch, Owes, Remaining,
       Camping
  <2>4. QED
    BY <1>1, <1>4, <2>1, <2>3 DEF Stage, Present, PassedBy, Fresh
<1>5. CASE c \in channels /\ c \notin newChannels /\ Running(c) /\ Prepared(c)
  <2>1. wait[c] = nextSwing /\ triggered[c] = <<lastSwing>>
    BY <1>1, <1>5 DEF Prepared, Gone, Leaving
  <2>2. triggered'[c] = <<nextSwing, lastSwing>>
    <3>1. nextSwing \in Swing /\ lastSwing \in Swing
      BY <1>2 DEF lastSwing
    <3>2. <<nextSwing>> \o <<lastSwing>> = <<nextSwing, lastSwing>>
      BY ONLY <3>1, JoinPair
    <3>3. QED BY <1>1, <2>1, <3>2
  <2>3. UNCHANGED lastSwing /\ lastSwing # nextSwing
    BY <1>1, <1>2 DEF lastSwing, Place
  <2>4. /\ state'[c][nextSwing] = TRIGGER
        /\ state'[c][lastSwing] = state[c][lastSwing]
    BY <1>1, <1>2, <2>3
  <2>5. Triggered(c)'
    BY <1>1, <1>5, <2>2, <2>3, <2>4 DEF Prepared, Triggered, Place, Gone,
       Leaving, Fetch, Pending, One, Filled, Owes, Remaining, Camping
  <2>6. Running(c)'
    BY <1>1, <1>5, <2>3, <2>4, <2>5 DEF Running, At, Place, Going, Began
  <2>7. QED BY <1>1, <1>5, <2>1, <2>6 DEF Stage, Present, PassedBy
<1>6. QED BY <1>1, <1>3, <1>4, <1>5, AtReady
----------------------------------------------------------------------------
(* GET_DATA.                                                               *)

LEMMA FetchTaken ==
  ASSUME TypeOK, NEW c \in Channels, pc[c] = "getdata", GetData(c),
         NEW x \in Swing, NEW y \in Swing
  PROVE  /\ triggered[c] = <<x>> =>
              /\ pc'[c] = "datawait" /\ wait'[c] = Last(<<x>>)
              /\ triggered'[c] = Front(<<x>>)
         /\ triggered[c] = <<x, y>> =>
              /\ pc'[c] = "datawait" /\ wait'[c] = Last(<<x, y>>)
              /\ triggered'[c] = Front(<<x, y>>)
<1>1. <<x>> # <<>> /\ <<x, y>> # <<>>
  OBVIOUS
<1>2. triggered[c] # <<>> =>
        /\ pc'[c] = "datawait" /\ wait'[c] = Last(triggered[c])
        /\ triggered'[c] = Front(triggered[c])
  BY DEF GetData, Goto, TypeOK, TypeHandler, TypeChan
<1>3. QED BY <1>1, <1>2

LEMMA GetDataStage ==
  ASSUME TypeOK, NEW c \in Channels, Stage(c), GetData(c)
  PROVE  Stage(c)'
<1> USE DEF rhm, swings, lists, flags, handler, chan
<1>1. /\ pc[c] = "getdata"
      /\ UNCHANGED <<Place, todo, adding, channels, newChannels, radarActive>>
      /\ UNCHANGED <<left, state, nextState, results, active, scan>>
  BY DEF GetData, Place
<1>2. activeSwing \in Swing /\ nextSwing \in Swing
  BY DEF TypeOK, TypeSwings
<1>3. \A x, y \in Swing :
         /\ Fetch(c, <<x>>) =>
              /\ pc'[c] = "datawait" /\ wait'[c] = Last(<<x>>)
              /\ triggered'[c] = Front(<<x>>)
         /\ Fetch(c, <<x, y>>) =>
              /\ pc'[c] = "datawait" /\ wait'[c] = Last(<<x, y>>)
              /\ triggered'[c] = Front(<<x, y>>)
  BY <1>1, FetchTaken DEF Fetch
<1> USE DEF Place, Gone, Leaving
<1>4. c \notin newChannels
  BY <1>1 DEF Stage, Waiting
<1>5. ASSUME NEW x \in Swing PROVE Ended(c, x) => Ended(c, x)'
  <2>1. 1 - x \in Swing OBVIOUS
  <2>2. Fetch(c, <<1 - x, x>>) => Fetch(c, <<1 - x, x>>)'
    BY <1>3, <2>1 DEF Fetch
  <2>3. QED
    BY <1>1, <2>2 DEF Ended, Over, Began, IsLastPeriod, Camping, One, Filled,
       NoResults
<1>6. ASSUME NEW x \in Swing PROVE Stuck(c, x) => Stuck(c, x)'
  <2>1. Fetch(c, <<x>>) => Fetch(c, <<x>>)'
    BY <1>3 DEF Fetch
  <2>2. QED
    BY <1>1, <2>1 DEF Stuck, Over, Began, IsLastPeriod, Camping, NoResults
<1>7. Fresh(c) => Fresh(c)'
  BY <1>1 DEF Fresh
<1>8. Primed(c) => Primed(c)'
  <2>1. Fetch(c, <<activeSwing>>) => Fetch(c, <<activeSwing>>)'
    BY <1>1, <1>2, <1>3 DEF Fetch
  <2>2. QED
    BY <1>1, <2>1 DEF Primed, At, Start1, Began, NoResults, Owes, Remaining,
       Camping
<1>9. Fired(c) /\ c \in channels => Fired(c)'
  <2>1. Fetch(c, <<lastSwing>>) => Fetch(c, <<lastSwing>>)'
    BY <1>1, <1>2, <1>3 DEF Fetch, lastSwing
  <2>2. QED
    BY <1>1, <2>1 DEF Fired, At, Start1, First1, Began, NoResults, Owes,
       Remaining, Camping, Pending, One, Filled, IsLastPeriod, lastSwing
<1>10. ASSUME NEW x \in Swing PROVE Missed(c, x) => Missed(c, x)'
  <2>1. Fetch(c, <<x>>) => Fetch(c, <<x>>)'
    BY <1>3 DEF Fetch
  <2>2. QED
    BY <1>1, <2>1 DEF Missed, At, Start1, First1, Began, NoResults,
       IsLastPeriod, Camping
<1>11. Lost(c) => Lost(c)'
  <2>1. Fetch(c, <<processingSwing>>) => Fetch(c, <<processingSwing>>)'
    BY <1>1, <1>2, <1>3 DEF Fetch
  <2>2. QED
    BY <1>1, <2>1 DEF Lost, At, First1, Began, NoResults, IsLastPeriod,
       Camping
<1>12. Running(c) => Running(c)'
  <2>1. /\ Fetch(c, <<nextSwing, lastSwing>>) =>
             Fetch(c, <<nextSwing, lastSwing>>)'
        /\ Fetch(c, <<lastSwing, nextSwing>>) =>
             Fetch(c, <<lastSwing, nextSwing>>)'
    BY <1>1, <1>2, <1>3 DEF Fetch, lastSwing
  <2>2. Triggered(c) => Triggered(c)'
    BY <1>1, <2>1 DEF Triggered, Owes, Remaining, Camping, Pending, One,
       Filled, IsLastPeriod, lastSwing, NoResults, Fetch
  <2>3. Collected(c) => Collected(c)'
    BY <1>1, <2>1 DEF Collected, Owes, Remaining, Camping, One, Two, Filled,
       Previous, lastSwing, Fetch
  <2>4. ~Prepared(c)
    BY <1>1 DEF Prepared
  <2>5. QED BY <1>1, <2>2, <2>3, <2>4 DEF Running, At, Going, Began, lastSwing
<1>13. Shot(c) => Shot(c)'
  <2>1. Fetch(c, <<activeSwing, processingSwing>>) =>
          Fetch(c, <<activeSwing, processingSwing>>)'
    BY <1>1, <1>2, <1>3 DEF Fetch
  <2>2. QED
    BY <1>1, <2>1 DEF Shot, At, Going, Began, Owes, Remaining, Camping,
       Pending, One, Two, Filled, IsLastPeriod, NoResults
<1>14. Leaves(c) => Leaves(c)'
  <2>1. \A x \in Swing : x = processingSwing <=> x = processingSwing'
    BY <1>1
  <2>2. QED BY <1>1, <1>5, <1>6, <2>1 DEF Leaves, At
<1>15. c \in channels => Present(c)'
  BY <1>7, <1>8, <1>9, <1>10, <1>11, <1>12, <1>13, <1>14 DEF Stage, Present
<1>16. c \notin channels => Absent(c)'
  <2>1. ~Quiet(c) /\ pc[c] \notin Away
    BY <1>1 DEF Quiet, Away
  <2>2. QED BY <1>4, <1>5, <1>6, <2>1 DEF Stage, Absent
<1>17. PassedBy(c)'
  BY <1>1 DEF Stage, PassedBy, Away
<1>18. c \in channels => pc'[c] \notin {"deregister", "gone"}
  BY DEF GetData, Goto, TypeOK, TypeHandler
<1>19. QED BY <1>1, <1>4, <1>15, <1>16, <1>17, <1>18 DEF Stage

(* The samples go out, with the oldest result.                             *)
LEMMA SendResultsStage ==
  ASSUME TypeOK, NEW c \in Channels, Stage(c), SendResults(c)
  PROVE  Stage(c)'
<1> USE DEF rhm, swings, lists, flags, handler, chan
<1>1. /\ pc[c] = "datawait" /\ state[c][wait[c]] = SAMPLES_READY
      /\ wait[c] \in Swing
      /\ UNCHANGED <<Place, todo, adding, channels, newChannels, radarActive>>
      /\ UNCHANGED <<wait, left, state, nextState, triggered, active, scan>>
      /\ pc'[c] \in {"dead", "sending"}
      /\ results[c] # <<>> =>
           sent'[c] = Last(results[c]) /\ results'[c] = Front(results[c])
      /\ pc'[c] = "sending" => results[c] # <<>>
  BY DEF SendResults, Goto, TypeOK, TypeHandler, TypeChan, Place
<1>2. /\ activeSwing \in Swing /\ nextSwing \in Swing /\ lastSwing \in Swing
      /\ results[c] \in Seq(Result)
  BY DEF TypeOK, TypeSwings, TypeChan, lastSwing
<1>3. /\ Len(results[c]) = 1 =>
           Last(results[c]) = results[c][1] /\ Front(results[c]) = <<>>
      /\ Len(results[c]) = 2 =>
           /\ Last(results[c]) = results[c][2]
           /\ Len(Front(results[c])) = 1
           /\ Front(results[c])[1] = results[c][1]
  <2> DEFINE q == results[c]
  <2>1. q = <<>> => Len(q) = 0
    OBVIOUS
  <2>2. q \in Seq(Result)
    BY <1>2
  <2> HIDE DEF q
  <2>3. q # <<>> =>
          /\ Len(q) = 1 => Last(q) = q[1] /\ Front(q) = <<>>
          /\ Len(q) = 2 =>
               Last(q) = q[2] /\ Len(Front(q)) = 1 /\ Front(q)[1] = q[1]
    BY <2>2, SentResult
  <2>4. QED BY <2>1, <2>3 DEF q
<1>4. \A x, y \in Swing : Last(<<x>>) = x /\ Last(<<x, y>>) = y
                          /\ Front(<<x, y>>) = <<x>>
  <2>1. \A x \in Swing : Last(<<x>>) = x
    BY OneElement
  <2>2. ASSUME NEW x \in Swing, NEW y \in Swing
        PROVE  Last(<<x, y>>) = y /\ Front(<<x, y>>) = <<x>>
    BY PairEnds
  <2>3. QED BY <2>1, <2>2
<1> USE DEF Place, Gone, Leaving
<1>5. c \notin newChannels
  BY <1>1 DEF Stage, Waiting
<1>6. ASSUME NEW x \in Swing PROVE Ended(c, x) => Ended(c, x)'
  <2>1. CASE pc'[c] = "dead"
    BY <1>1, <2>1 DEF Ended, Over, Began, IsLastPeriod, Camping
  <2>2. CASE pc'[c] = "sending"
    <3>1. SUFFICES ASSUME Ended(c, x) PROVE Ended(c, x)'
      OBVIOUS
    <3>2. 1 - x \in Swing OBVIOUS
    <3>3. /\ Fetch(c, <<1 - x, x>>) /\ One(c, x, scan[c].period)
          /\ state[c][x] = SAMPLES_READY /\ left[c] = 1
      BY <1>1, <3>1 DEF Ended
    <3>4. wait[c] = x /\ triggered[c] = <<1 - x>>
      BY <1>1, <1>4, <3>2, <3>3 DEF Fetch
    <3>5. results'[c] = <<>> /\ Filled(sent'[c], x, scan[c].period)
      BY <1>1, <1>3, <2>2, <3>3 DEF One
    <3>6. QED
      BY <1>1, <2>2, <3>1, <3>3, <3>4, <3>5 DEF Ended, Over, Began,
         IsLastPeriod, Camping, NoResults, Filled
  <2>3. QED BY <1>1, <2>1, <2>2
<1>7. \A x \in Swing : ~Stuck(c, x)
  BY <1>1, <1>4 DEF Stuck, Fetch
<1>8. ~Fresh(c) /\ ~Primed(c) /\ ~Fired(c) /\ ~Lost(c) /\ ~Shot(c)
  <2>1. ~Fresh(c)
    BY <1>1 DEF Fresh
  <2>2. ~Primed(c)
    BY <1>1, <1>2, <1>4 DEF Primed, Fetch
  <2>3. ~Fired(c)
    BY <1>1, <1>2, <1>4 DEF Fired, Fetch
  <2>4. ~Lost(c)
    BY <1>1, <1>2, <1>4 DEF Lost, Fetch
  <2>5. ~Shot(c)
    BY <1>1, <1>2, <1>4 DEF Shot, Fetch
  <2>6. QED BY <2>1, <2>2, <2>3, <2>4, <2>5
<1>9. \A x \in Swing : ~Missed(c, x)
  BY <1>1, <1>4 DEF Missed, Fetch
<1>10. Running(c) => Running(c)'
  <2>1. SUFFICES ASSUME Running(c) PROVE Running(c)'
    OBVIOUS
  <2>2. ~Prepared(c)
    BY <1>1 DEF Prepared
  <2>3. ~Triggered(c)
    BY <1>1, <1>2, <1>4, <2>1 DEF Running, Triggered, Fetch
  <2>4. Collected(c)
    BY <2>1, <2>2, <2>3 DEF Running
  <2>5. Collected(c)'
    <3>1. CASE pc'[c] = "dead"
      BY <1>1, <2>4, <3>1 DEF Collected
    <3>2. CASE pc'[c] = "sending"
      <4>1. /\ Fetch(c, <<lastSwing, nextSwing>>)
            /\ Two(c, lastSwing, None, nextSwing, Previous(c))
            /\ Owes(c, Remaining(c) + 1)
        BY <1>1, <2>4 DEF Collected
      <4>2. wait[c] = nextSwing /\ triggered[c] = <<lastSwing>>
        BY <1>1, <1>2, <1>4, <4>1 DEF Fetch
      <4>3. /\ One(c, lastSwing, None)'
            /\ Filled(sent'[c], nextSwing, Previous(c))
        BY <1>1, <1>3, <3>2, <4>1 DEF One, Two, Filled, lastSwing
      <4>4. QED
        BY <1>1, <2>4, <3>2, <4>1, <4>2, <4>3 DEF Collected, Owes, Remaining,
           Camping, Previous, Filled, lastSwing
    <3>3. QED BY <1>1, <3>1, <3>2
  <2>6. QED BY <1>1, <2>1, <2>5 DEF Running, At, Going, Began, lastSwing
<1>11. Leaves(c) => Leaves(c)'
  <2>1. \A x \in Swing : x = processingSwing <=> x = processingSwing'
    BY <1>1
  <2>2. QED BY <1>1, <1>6, <1>7, <2>1 DEF Leaves, At
<1>12. c \in channels => Present(c)'
  BY <1>8, <1>9, <1>10, <1>11 DEF Stage, Present
<1>13. c \notin channels => Absent(c)'
  <2>1. ~Quiet(c) /\ pc[c] \notin Away
    BY <1>1 DEF Quiet, Away
  <2>2. QED BY <1>5, <1>6, <1>7, <2>1 DEF Stage, Absent
<1>14. PassedBy(c)'
  BY <1>1 DEF Stage, PassedBy, Away
<1>15. QED BY <1>1, <1>5, <1>12, <1>13, <1>14 DEF Stage

LEMMA EndGetDataStage ==
  ASSUME TypeOK, NEW c \in Channels, Stage(c), EndGetData(c)
  PROVE  Stage(c)'
<1> USE DEF rhm, swings, lists, flags, handler, chan
<1>1. /\ pc[c] = "sending" /\ wait[c] \in Swing
      /\ state'[c] = [state[c] EXCEPT ![wait[c]] = nextState[c][wait[c]]]
      /\ left'[c] = left[c] - 1 /\ left[c] \in Int
      /\ pc'[c] = CASE left[c] > 1 -> "setpar"
                    [] left[c] = 1 /\ ScanLen[c] = 1 -> "idle"
                    [] OTHER -> "inactive"
      /\ UNCHANGED <<Place, todo, adding, channels, newChannels, radarActive>>
      /\ UNCHANGED <<wait, nextState, triggered, results, active, scan>>
  BY DEF EndGetData, Goto, TypeOK, TypeHandler, TypeChan, Place
<1>2. /\ activeSwing \in Swing /\ nextSwing \in Swing /\ lastSwing \in Swing
      /\ DOMAIN state[c] = Swing
      /\ scan[c].len \in Nat /\ scan[c].period \in Nat
      /\ ScanLen[c] \in Nat \ {0}
  BY DEF TypeOK, TypeSwings, TypeChan, Scan, lastSwing
<1> USE DEF Place, Gone, Leaving
<1>3. ASSUME NEW x \in Swing, Ended(c, x)
      PROVE  Ended(c, x)' /\ pc'[c] = "inactive"
  <2>1. /\ state[c][x] = SAMPLES_READY /\ left[c] = 1 /\ wait[c] = x
        /\ NoResults(c) /\ Over(c) /\ Began(c)
        /\ state[c][1 - x] = INACTIVE /\ nextState[c][x] = INACTIVE
    BY <1>1, <1>3 DEF Ended, Fetch
  <2>2. pc'[c] = "inactive"
    BY <1>1, <1>2, <2>1 DEF Over, Began, IsLastPeriod, Camping
  <2>3. state'[c][x] = INACTIVE /\ state'[c][1 - x] = INACTIVE
    BY <1>1, <1>2, <2>1
  <2>4. QED
    BY <1>1, <2>1, <2>2, <2>3 DEF Ended, Over, Began, IsLastPeriod, Camping,
       NoResults
<1>4. ASSUME Running(c), Collected(c)
      PROVE  Running(c)' /\ pc'[c] \in {"setpar", "idle"}
  <2>1. /\ state[c][nextSwing] = SAMPLES_READY /\ wait[c] = nextSwing
        /\ nextState[c][nextSwing] \in {READY, LAST_SWING}
        /\ triggered[c] = <<lastSwing>> /\ One(c, lastSwing, None)
        /\ Owes(c, Remaining(c) + 1)
    BY <1>1, <1>4 DEF Collected, Fetch
  <2>2. /\ state'[c][nextSwing] \in {READY, LAST_SWING}
        /\ state'[c][lastSwing] = state[c][lastSwing]
    BY <1>1, <1>2, <2>1 DEF lastSwing
  <2>3. scan[c].len = ScanLen[c] /\ scan[c].period < scan[c].len
    BY <1>4 DEF Running, Going, Began
  <2>4. CASE Camping(scan[c])
    <3>1. left[c] = 1 /\ ScanLen[c] = 1 /\ pc'[c] = "idle"
      BY <1>1, <2>1, <2>3, <2>4 DEF Owes, Camping
    <3>2. Prepared(c)'
      BY <1>1, <2>1, <2>2, <2>4, <3>1 DEF Prepared, Owes, Camping, One,
         Filled, lastSwing
    <3>3. Running(c)'
      BY <1>1, <1>4, <2>1, <2>2, <3>2 DEF Running, At, Going, Began, lastSwing
    <3>4. QED BY <3>1, <3>3
  <2>5. CASE ~Camping(scan[c])
    <3>1. left[c] = Remaining(c) + 1 /\ pc'[c] = "setpar"
          /\ left'[c] = Remaining(c)
      BY <1>1, <1>2, <2>1, <2>3, <2>5 DEF Owes, Remaining
    <3>2. Prepared(c)'
      BY <1>1, <2>1, <2>2, <2>5, <3>1 DEF Prepared, Owes, Camping, One,
         Filled, lastSwing, Remaining
    <3>3. Running(c)'
      BY <1>1, <1>4, <2>1, <2>2, <3>2 DEF Running, At, Going, Began, lastSwing
    <3>4. QED BY <3>1, <3>3
  <2>6. QED BY <2>4, <2>5
<1>5. ASSUME Leaves(c) PROVE Leaves(c)' /\ pc'[c] = "inactive"
  <2>1. \A x \in Swing : x = processingSwing <=> x = processingSwing'
    BY <1>1
  <2>2. \A x \in Swing : ~Stuck(c, x)
    BY <1>1 DEF Stuck, Fetch
  <2>3. QED BY <1>1, <1>3, <1>5, <2>1, <2>2 DEF Leaves, At
<1>6. /\ c \notin newChannels
      /\ \/ c \in channels /\ Running(c) /\ Collected(c)
         \/ c \in channels /\ Leaves(c)
         \/ c \notin channels /\ \E x \in Swing : Ended(c, x)
      /\ c \notin channels => ~(main = "add" /\ (c \in todo \/ adding = c))
  BY <1>1, AtSending
<1>7. PassedBy(c)'
  BY <1>1, <1>6 DEF PassedBy
<1>8. c \in channels => Present(c)' /\ pc'[c] \notin {"deregister", "gone"}
  BY <1>4, <1>5, <1>6 DEF Present
<1>9. c \notin channels => Absent(c)'
  BY <1>3, <1>6 DEF Absent
<1>10. c \in channels => active[c]
  BY DEF Stage
<1>11. QED BY <1>1, <1>6, <1>7, <1>8, <1>9, <1>10 DEF Stage
----------------------------------------------------------------------------
(* SET_INACTIVE and the removal of a channel.                              *)

LEMMA SetInactiveStage ==
  ASSUME MayStop = {}, TypeOK, NEW c \in Channels, Stage(c), SetInactive(c)
  PROVE  Stage(c)'
<1> USE DEF rhm, swings, flags, handler, chan
<1>1. /\ pc[c] = "inactive" /\ pc'[c] = "idle"
      /\ channels' = channels \ {c} /\ newChannels' = newChannels
      /\ UNCHANGED <<Place, todo, adding>>
      /\ UNCHANGED <<state, nextState, results, scan>>
  BY DEF SetInactive, Goto, TypeOK, TypeHandler, TypeChan, Place
<1> USE DEF Place, Gone, Leaving
<1>2. /\ c \notin newChannels
      /\ \/ c \in channels /\ Running(c) /\ Collected(c)
         \/ c \in channels /\ Leaves(c)
         \/ c \notin channels /\ \E x \in Swing : Ended(c, x)
      /\ c \notin channels => ~(main = "add" /\ (c \in todo \/ adding = c))
  BY <1>1, AtSending
<1>3. ~Collected(c) /\ \A x \in Swing : ~Stuck(c, x)
  BY <1>1 DEF Collected, Stuck, Fetch
<1>4. PICK x \in Swing : Ended(c, x)
  BY <1>2, <1>3 DEF Leaves
<1>5. Over(c) /\ BothInactive(c) /\ NoResults(c)
  BY <1>1, <1>4 DEF Ended, Fetch, BothInactive
<1>6. Quiet(c)'
  BY <1>1, <1>5 DEF Quiet, BothInactive, NoResults, Over, IsLastPeriod,
     Camping
<1>7. PassedBy(c)'
  BY <1>1, <1>2, <1>3, <1>5 DEF PassedBy, Leaves, Over, IsLastPeriod, Camping
<1>8. QED BY <1>1, <1>2, <1>6, <1>7 DEF Stage, Absent

LEMMA UnlistStage ==
  ASSUME TypeOK, NEW c \in Channels, Unlist(c)
  PROVE  Stage(c)'
<1>1. /\ pc'[c] \in {"deregister", "gone"}
      /\ channels' = channels \ {c} /\ newChannels' = newChannels \ {c}
  BY DEF Unlist, Goto, TypeOK, TypeHandler
<1>2. QED BY <1>1 DEF Stage, Absent, PassedBy, Away

LEMMA EndQuitStage ==
  ASSUME TypeOK, NEW c \in Channels, Stage(c), EndQuit(c)
  PROVE  c \notin channels \cup newChannels /\ Stage(c)'
<1>1. /\ pc[c] = "deregister" /\ pc'[c] = "gone"
      /\ UNCHANGED <<channels, newChannels>>
  BY DEF EndQuit, Goto, TypeOK, TypeHandler
<1>2. c \notin channels \cup newChannels
  BY <1>1 DEF Stage, Waiting
<1>3. QED BY <1>1, <1>2 DEF Stage, Absent, PassedBy, Away

(* So every handler keeps every channel at a stage.                        *)
LEMMA HandlerStages ==
  ASSUME MayStop = {}, TypeOK, Stages, Aligned, Counted,
         NEW c \in Channels, Handler(c)
  PROVE  Stages'
<1>1. Stage(c) BY DEF Stages
<1>2. Stage(c)'
  BY <1>1, SetActiveStage, AwaitTriggerEndStage, StartScanStage,
     StoreParametersStage, TakeParametersStage, RegisterStage,
     CompareParametersStage, SetReadyStage, TriggerSwingStage, GetDataStage,
     SendResultsStage, EndGetDataStage, SetInactiveStage, QuitStage,
     UnlistStage, EndQuitStage DEF Handler, Serve
<1>3. \A d \in Channels : d # c => Stage(d)'
  BY OthersStay
<1>4. QED BY <1>2, <1>3 DEF Stages
----------------------------------------------------------------------------
(* What the main thread does to the channels, action by action.            *)

(* The parts of a stage that do not depend on where the main thread is.    *)
LEMMA OwnKept ==
  ASSUME NEW c \in Channels, UNCHANGED Own(c)
  PROVE  /\ \A x \in Swing : /\ Ended(c, x) => Ended(c, x)'
                             /\ Stuck(c, x) => Stuck(c, x)'
         /\ Absent(c) => Absent(c)'
         /\ Waiting(c) /\ (pc[c] = "readywait" => WaitsRight(c)')
              => Waiting(c)'
<1> USE DEF Own
<1>1. Quiet(c) => Quiet(c)'
  BY DEF Quiet, BothInactive, Start1, Began, NoResults, Owes, Remaining,
         Camping, Over, IsLastPeriod, NoScan
<1>2. ASSUME NEW x \in Swing PROVE Ended(c, x) => Ended(c, x)'
  BY DEF Ended, Over, Began, IsLastPeriod, Camping, Gone, Fetch, One, Filled,
         NoResults
<1>3. ASSUME NEW x \in Swing PROVE Stuck(c, x) => Stuck(c, x)'
  BY DEF Stuck, Over, Began, IsLastPeriod, Camping, Gone, Fetch, NoResults
<1>4. Absent(c) => Absent(c)'
  BY <1>1, <1>2, <1>3 DEF Absent
<1>5. Waiting(c) /\ (pc[c] = "readywait" => WaitsRight(c)') => Waiting(c)'
  BY DEF Waiting, BothInactive, Start1, Began, NoResults, Owes, Remaining,
         Camping
<1>6. QED BY <1>2, <1>3, <1>4, <1>5

(* And those that depend only on which swing was triggered last.           *)
LEMMA TurnKept ==
  ASSUME NEW c \in Channels, UNCHANGED <<Own(c), nextSwing>>
  PROVE  /\ Triggered(c) => Triggered(c)'
         /\ Collected(c) => Collected(c)'
         /\ Prepared(c) => Prepared(c)'
<1> USE DEF Own
<1>1. Triggered(c) => Triggered(c)'
  BY DEF Triggered, Gone, Owes, Remaining, Camping, Fetch, Pending, One,
         Filled, IsLastPeriod, lastSwing, NoResults
<1>2. Collected(c) => Collected(c)'
  BY DEF Collected, Gone, Owes, Remaining, Camping, Fetch, One, Two,
         Filled, Previous, lastSwing
<1>3. Prepared(c) => Prepared(c)'
  BY DEF Prepared, Gone, Owes, Remaining, Camping, One, Filled, lastSwing
<1>4. QED BY <1>1, <1>2, <1>3

Lists == <<channels, newChannels, active>>

(* The steps between two triggers.                                         *)
LEMMA RestMoves ==
  ASSUME TypeOK, NEW c \in Channels, Stage(c), main \in Rest, main' \in Rest,
         main' = "check" => c \notin newChannels,
         c \in channels' <=> c \in channels,
         c \in newChannels' <=> c \in newChannels,
         UNCHANGED <<Own(c), radarActive>>,
         UNCHANGED <<activeSwing, nextSwing, transmitting>>
  PROVE  Stage(c)'
<1> USE DEF Own
<1>1. ASSUME c \in newChannels PROVE Waiting(c)'
  <2>1. Waiting(c) BY <1>1 DEF Stage
  <2>2. pc[c] = "readywait" => WaitsRight(c)'
    BY <1>1, <2>1 DEF Waiting, WaitsRight, Rest, Fires, Prep
  <2>3. QED BY <2>1, <2>2, OwnKept
<1>2. c \notin channels \cup newChannels => Absent(c)'
  BY OwnKept DEF Stage
<1>3. PassedBy(c)'
  BY DEF PassedBy, Rest
<1>4. ASSUME c \in channels PROVE Present(c)'
  <2>1. ~Fired(c) /\ (\A x \in Swing : ~Missed(c, x)) /\ ~Shot(c) /\ ~Leaves(c)
    BY DEF Fired, Missed, Shot, Leaves, At, Rest, Fires, Prep
  <2>2. Fresh(c) => Fresh(c)'
    BY DEF Fresh, At, Start1, Began, NoResults, Gone, Owes, Remaining, Camping
  <2>3. Primed(c) => Primed(c)'
    BY DEF Primed, At, Rest, Start1, Began, NoResults, Gone, Owes, Remaining,
       Camping, Fetch
  <2>4. Lost(c) => Lost(c)'
    BY DEF Lost, At, First1, Began, NoResults, Gone, IsLastPeriod, Camping,
       Fetch
  <2>5. Running(c) => Running(c)'
    BY TurnKept DEF Running, At, Rest, Prep, Going, Began, lastSwing
  <2>6. QED BY <1>4, <2>1, <2>2, <2>3, <2>4, <2>5 DEF Stage, Present
<1>5. QED BY <1>1, <1>2, <1>3, <1>4 DEF Stage

(* The main thread ends with an exception.                                 *)
LEMMA CrashMoves ==
  ASSUME TypeOK, NEW c \in Channels, Stage(c), main' = "crashed",
         UNCHANGED <<Own(c), Lists, radarActive>>,
         UNCHANGED <<activeSwing, nextSwing, transmitting>>
  PROVE  Stage(c)'
<1> USE DEF Own, Lists
<1>1. ASSUME c \in newChannels PROVE Waiting(c)'
  <2>1. Waiting(c) BY <1>1 DEF Stage
  <2>2. WaitsRight(c)'
    BY DEF WaitsRight, Rest, Fires, Prep
  <2>3. QED BY <2>1, <2>2, OwnKept
<1>2. c \notin channels \cup newChannels => Absent(c)'
  BY OwnKept DEF Stage
<1>3. PassedBy(c)'
  BY DEF PassedBy
<1>4. ASSUME c \in channels PROVE Present(c)'
  <2> USE DEF At, Rest, Fires, Prep
  <2>1. Fresh(c) => Fresh(c)'
    BY DEF Fresh, Start1, Began, NoResults, Gone, Owes, Remaining, Camping
  <2>2. Primed(c) => Primed(c)'
    BY DEF Primed, Start1, Began, NoResults, Gone, Owes, Remaining, Camping,
       Fetch
  <2>3. Fired(c) => Fired(c)'
    BY DEF Fired, NoResults, Gone, Owes, Remaining, Camping, Fetch, Pending,
       One, Filled, IsLastPeriod, lastSwing
  <2>4. \A x \in Swing : Missed(c, x) => Missed(c, x)'
    BY DEF Missed, NoResults, Gone, Fetch
  <2>5. Lost(c) => Lost(c)'
    BY DEF Lost, First1, Began, NoResults, Gone, IsLastPeriod, Camping, Fetch
  <2>6. Running(c) => Running(c)'
    BY TurnKept DEF Running, Going, Began, lastSwing
  <2>7. Shot(c) => Shot(c)'
    BY DEF Shot, Going, Began, Gone, Owes, Remaining, Camping, Fetch
  <2>8. Leaves(c) => Leaves(c)'
    <3>1. \A x \in Swing : x = processingSwing <=> x = processingSwing'
      OBVIOUS
    <3>2. QED BY <3>1, OwnKept DEF Leaves
  <2>9. QED
    BY <1>4, <2>1, <2>2, <2>3, <2>4, <2>5, <2>6, <2>7, <2>8 DEF Stage, Present
<1>5. QED BY <1>1, <1>2, <1>3, <1>4 DEF Stage

(* The trigger is started when every channel is in CS_TRIGGER: none is     *)
(* only prepared, and none has samples that were not fetched.              *)
LEMMA ArmMoves ==
  ASSUME TypeOK, Stages, Arm
  PROVE  Stages' /\ nextSwing = activeSwing
<1> USE DEF swings, lists, flags, handler, chan, Stages
<1>1. /\ main = "check" /\ main' = "armed"
      /\ UNCHANGED <<state, nextState, pc, wait, triggered, results, sent,
                     scan, left, Lists, radarActive>>
      /\ UNCHANGED <<activeSwing, nextSwing, transmitting, todo, adding>>
  BY DEF Arm, Lists
<1>2. /\ \A c \in channels : state[c][activeSwing] \in {TRIGGER, INACTIVE}
      /\ \E c \in channels : state[c][activeSwing] = TRIGGER
  BY DEF Arm, AllTriggered, ActiveStates
<1>3. /\ channels \subseteq Channels
      /\ activeSwing \in Swing /\ nextSwing \in Swing
  BY DEF TypeOK, TypeLists, TypeSwings
<1>4. ASSUME NEW c \in channels
      PROVE  /\ Primed(c) \/ Lost(c) \/ Running(c)
             /\ ~Fresh(c)
  <2>1. ~Fired(c) /\ (\A x \in Swing : ~Missed(c, x)) /\ ~Shot(c) /\ ~Leaves(c)
    BY <1>1 DEF Fired, Missed, Shot, Leaves, At, Fires, Prep
  <2>2. ~Fresh(c)
    BY <1>2 DEF Fresh
  <2>3. QED BY <1>3, <2>1, <2>2 DEF Stage, Present
<1>5. nextSwing = activeSwing
  <2>1. PICK c \in channels : state[c][activeSwing] = TRIGGER
    BY <1>2
  <2>2. Primed(c) => nextSwing = activeSwing
    BY <1>1 DEF Primed
  <2>3. ~Lost(c)
    BY <2>1 DEF Lost
  <2>4. Running(c) => nextSwing = activeSwing
    BY <1>1 DEF Running, Rest
  <2>5. QED BY <1>4, <2>2, <2>3, <2>4
<1>6. ASSUME NEW c \in Channels PROVE Stage(c)'
  <2> USE DEF Own, Lists
  <2>1. ASSUME c \in newChannels PROVE Waiting(c)'
    <3>1. Waiting(c) BY <2>1 DEF Stage
    <3>2. pc[c] = "readywait" => WaitsRight(c)'
      BY <1>1, <3>1 DEF Waiting, WaitsRight, Rest, Fires, Prep
    <3>3. QED BY <1>1, <3>1, <3>2, OwnKept
  <2>2. c \notin channels \cup newChannels => Absent(c)'
    BY <1>1, OwnKept DEF Stage
  <2>3. PassedBy(c)'
    BY <1>1 DEF PassedBy
  <2>4. ASSUME c \in channels PROVE Present(c)'
    <3>1. Primed(c) => Primed(c)'
      BY <1>1 DEF Primed, At, Start1, Began, NoResults, Gone, Owes, Remaining,
         Camping, Fetch
    <3>2. Lost(c) => Lost(c)'
      BY <1>1, <1>2, <2>4 DEF Lost, At, First1, Began, NoResults, Gone,
         IsLastPeriod, Camping, Fetch
    <3>3. ASSUME Running(c) PROVE Running(c)'
      <4>1. nextSwing = activeSwing /\ state[c][nextSwing] # INACTIVE
        BY <1>1, <3>3 DEF Running, Rest, Triggered, Collected, Prepared
      <4>2. state[c][nextSwing] = TRIGGER
        BY <1>2, <2>4, <4>1
      <4>3. QED
        BY <1>1, <3>3, <4>1, <4>2, TurnKept DEF Running, At, Prep, Going,
           Began, lastSwing
    <3>4. QED BY <1>4, <2>4, <3>1, <3>2, <3>3 DEF Present
  <2>5. QED BY <1>1, <2>1, <2>2, <2>3, <2>4 DEF Stage
<1>7. QED BY <1>5, <1>6

LEMMA StartMoves ==
  ASSUME TypeOK, NEW c \in Channels, Stage(c), Start
  PROVE  Stage(c)'
<1> USE DEF swings, lists, flags, handler, chan, Own, Lists
<1>1. /\ main = "armed" /\ main' \in {"setup", "crashed"}
      /\ UNCHANGED <<Own(c), Lists, radarActive, activeSwing, nextSwing,
                     transmitting, todo, adding>>
  BY DEF Start
<1>2. CASE main' = "crashed"
  BY <1>1, <1>2, CrashMoves
<1>3. CASE main' = "setup"
  <2>1. ASSUME c \in newChannels PROVE Waiting(c)'
    <3>1. Waiting(c) BY <2>1 DEF Stage
    <3>2. pc[c] = "readywait" => WaitsRight(c)'
      BY <1>1, <1>3, <3>1 DEF Waiting, WaitsRight, Rest, Fires, Prep
    <3>3. QED BY <1>1, <3>1, <3>2, OwnKept
  <2>2. c \notin channels \cup newChannels => Absent(c)'
    BY <1>1, OwnKept DEF Stage
  <2>3. PassedBy(c)'
    BY <1>3 DEF PassedBy
  <2>4. ASSUME c \in channels PROVE Present(c)'
    <3>1. /\ ~Fresh(c) /\ ~Fired(c) /\ (\A x \in Swing : ~Missed(c, x))
          /\ ~Shot(c) /\ ~Leaves(c)
      BY <1>1 DEF Fresh, Fired, Missed, Shot, Leaves, At, Rest, Fires, Prep
    <3>2. Primed(c) => Primed(c)'
      BY <1>1, <1>3 DEF Primed, At, Start1, Began, NoResults, Gone, Owes,
         Remaining, Camping, Fetch
    <3>3. Lost(c) => Lost(c)'
      BY <1>1, <1>3 DEF Lost, At, Rest, First1, Began, NoResults, Gone,
         IsLastPeriod, Camping, Fetch
    <3>4. Running(c) => Running(c)'
      BY <1>1, <1>3, TurnKept DEF Running, At, Prep, Going, Began, lastSwing
    <3>5. QED BY <2>4, <3>1, <3>2, <3>3, <3>4 DEF Stage, Present
  <2>5. QED BY <1>1, <2>1, <2>2, <2>3, <2>4 DEF Stage
<1>4. QED BY <1>1, <1>2, <1>3

(* The hardware is set up, and the other swing is the next one.            *)
LEMMA SetupMoves ==
  ASSUME TypeOK, NEW c \in Channels, Stage(c), Setup
  PROVE  Stage(c)'
<1> USE DEF lists, flags, handler, chan, Own, Lists
<1>1. /\ main = "setup" /\ main' = "fire"
      /\ UNCHANGED <<Own(c), Lists, radarActive, activeSwing, todo, adding>>
  BY DEF Setup
<1>2. /\ activeSwing \in Swing /\ nextSwing \in Swing
      /\ Rnum[c] \in Radars
  BY DEF TypeOK, TypeSwings
<1>3. transmitting'[Rnum[c]] <=>
        /\ radarActive[Rnum[c]]
        /\ \E d \in On(Rnum[c]) : ~IsLastPeriod(scan[d])
  BY <1>2 DEF Setup
<1>4. /\ nextSwing' = nextSwing \/ nextSwing' = processingSwing
      /\ radarActive[Rnum[c]] => nextSwing' = processingSwing
  BY <1>2 DEF Setup, ActiveRadars
<1>5. ASSUME c \in newChannels PROVE Waiting(c)'
  <2>1. Waiting(c) BY <1>5 DEF Stage
  <2>2. pc[c] = "readywait" => WaitsRight(c)'
    <3>1. pc[c] = "readywait" => wait[c] = nextSwing
      BY <1>1, <2>1 DEF Waiting, WaitsRight
    <3>2. pc[c] = "readywait" /\ wait[c] = processingSwing =>
            nextSwing' = processingSwing
      BY <1>4, <3>1
    <3>3. QED BY <1>1, <3>2 DEF WaitsRight, Rest, Fires, Prep
  <2>3. QED BY <1>1, <2>1, <2>2, OwnKept
<1>6. c \notin channels \cup newChannels => Absent(c)'
  BY <1>1, OwnKept DEF Stage
<1>7. PassedBy(c)'
  BY <1>1 DEF PassedBy
<1>8. ASSUME c \in channels PROVE Present(c)'
  <2>1. /\ ~Fresh(c) /\ ~Fired(c) /\ (\A x \in Swing : ~Missed(c, x))
        /\ ~Shot(c) /\ ~Leaves(c)
    BY <1>1 DEF Fresh, Fired, Missed, Shot, Leaves, At, Rest, Fires, Prep
  <2>2. Primed(c) => Primed(c)'
    BY <1>1, <1>3 DEF Primed, At, Start1, Began, NoResults, Gone, Owes,
       Remaining, Camping, Fetch
  <2>3. Lost(c) => Lost(c)'
    BY <1>1 DEF Lost, At, Rest, Fires, First1, Began, NoResults, Gone,
       IsLastPeriod, Camping, Fetch
  <2>4. ASSUME Running(c) PROVE Shot(c)'
    <3>1. /\ radarActive[Rnum[c]] /\ nextSwing = activeSwing
          /\ state[c][nextSwing] = TRIGGER /\ state[c][lastSwing] = PROCESSING
          /\ Triggered(c) /\ Going(c)
      BY <1>1, <2>4 DEF Running, Collected, Prepared
    <3>2. lastSwing = processingSwing
      BY <3>1 DEF lastSwing
    <3>3. c \in On(Rnum[c])
      BY <1>8 DEF On
    <3>4. transmitting'[Rnum[c]] \/ IsLastPeriod(scan[c])
      BY <1>3, <3>1, <3>3
    <3>5. /\ Pending(c, processingSwing)
          /\ Gone(c) \/ (/\ Fetch(c, <<activeSwing, processingSwing>>)
                         /\ Owes(c, Remaining(c)))
      BY <3>1, <3>2 DEF Triggered
    <3>6. QED
      BY <1>1, <1>4, <3>1, <3>2, <3>4, <3>5 DEF Shot, At, Fires, Going, Began,
         Pending, One, Filled, NoResults, IsLastPeriod, Camping, Gone, Fetch,
         Owes, Remaining
  <2>5. QED BY <1>8, <2>1, <2>2, <2>3, <2>4 DEF Stage, Present
<1>9. QED BY <1>1, <1>5, <1>6, <1>7, <1>8 DEF Stage
----------------------------------------------------------------------------
(* USRP_TRIGGER.  The channels it can find, and what it does to one.       *)
LEMMA AtFire ==
  ASSUME NEW c \in Channels, Stage(c), c \in channels, main = "fire"
  PROVE  Primed(c) \/ Lost(c) \/ Shot(c)
<1>1. ~Fresh(c) /\ ~Fired(c) /\ ~Running(c) /\ ~Leaves(c)
  BY DEF Fresh, Fired, Running, Leaves, At, Rest, Prep
<1>2. \A x \in Swing : ~Missed(c, x)
  BY DEF Missed, At, Prep
<1>3. QED BY <1>1, <1>2 DEF Stage, Present

LEMMA FireEffect ==
  ASSUME TypeOK, NEW c \in Channels, Fire, main' # "crashed"
  PROVE  LET on == c \in channels /\ radarActive[Rnum[c]]
                     /\ transmitting[Rnum[c]]
         IN  /\ main' = "collect"
             /\ state'[c][processingSwing] = state[c][processingSwing]
             /\ state'[c][activeSwing] =
                  IF on /\ state[c][activeSwing] = TRIGGER
                  THEN PROCESSING ELSE state[c][activeSwing]
             /\ c \notin channels => state'[c] = state[c]
             /\ on /\ ~IsLastPeriod(scan[c]) =>
                  \E e \in Result : /\ Filled(e, activeSwing, None)
                                    /\ results'[c] = <<e>> \o results[c]
             /\ ~(on /\ ~IsLastPeriod(scan[c])) => results'[c] = results[c]
<1> DEFINE onAir == {d \in OnAir : transmitting[Rnum[d]]}
           on == c \in onAir
           entry(d) == [swing |-> activeSwing, of |-> Upcoming(d),
                        fired |-> fire, valid |-> TRUE, data |-> None,
                        label |-> None]
<1>1. /\ main' = "collect"
      /\ results' = [d \in Channels |->
           IF d \in onAir /\ ~IsLastPeriod(scan[d])
           THEN <<entry(d)>> \o results[d] ELSE results[d]]
      /\ state' = PutSwing(state,
                    {d \in onAir : state[d][activeSwing] = TRIGGER},
                    activeSwing, PROCESSING)
  BY DEF Fire
<1>2. on <=> c \in channels /\ radarActive[Rnum[c]] /\ transmitting[Rnum[c]]
  BY DEF OnAir
<1>3. /\ state \in [Channels -> [Swing -> ChannelState]]
      /\ activeSwing \in Swing /\ processingSwing \in Swing
      /\ processingSwing # activeSwing
  BY DEF TypeOK, TypeChan, TypeSwings
<1>4. entry(c) \in Result /\ Filled(entry(c), activeSwing, None)
  <2>1. Upcoming(c) \in Label
    BY DEF TypeOK, TypeChan, Scan, Upcoming, NextPeriod
  <2>2. QED BY <2>1, <1>3 DEF TypeOK, TypeRhm, Result, Filled
<1>5. results'[c] = IF on /\ ~IsLastPeriod(scan[c])
                    THEN <<entry(c)>> \o results[c] ELSE results[c]
  BY <1>1
<1> DEFINE S == {d \in onAir : state[d][activeSwing] = TRIGGER}
<1>6. c \in S <=> on /\ state[c][activeSwing] = TRIGGER
  OBVIOUS
<1>7. state' = PutSwing(state, S, activeSwing, PROCESSING)
  BY <1>1
<1>10. c \notin channels => state'[c] = state[c]
  BY <1>3, <1>7 DEF PutSwing, OnAir
<1> HIDE DEF S, entry, on
<1>8. /\ state'[c][processingSwing] = state[c][processingSwing]
      /\ state'[c][activeSwing] =
           IF c \in S THEN PROCESSING ELSE state[c][activeSwing]
  <2>1. \A t \in Swing :
          PutSwing(state, S, activeSwing, PROCESSING)[c][t] =
            IF c \in S /\ t = activeSwing THEN PROCESSING ELSE state[c][t]
    BY <1>3 DEF PutSwing
  <2>2. QED BY <1>3, <1>7, <2>1
<1>9. QED BY <1>1, <1>2, <1>4, <1>5, <1>6, <1>8, <1>10

LEMMA FireMoves ==
  ASSUME TypeOK, Aligned, NEW c \in Channels, Stage(c), Fire
  PROVE  Stage(c)'
<1> USE DEF lists, flags, handler, swings
<1>1. /\ main = "fire"
      /\ UNCHANGED <<nextState[c], pc[c], wait[c], triggered[c], sent[c],
                     scan[c], left[c], active[c]>>
      /\ UNCHANGED <<Lists, radarActive, activeSwing, nextSwing,
                     transmitting, todo, adding>>
      /\ main' = "crashed" => UNCHANGED <<state, results>>
  BY DEF Fire, Lists
<1>2. CASE main' = "crashed"
  <2>1. UNCHANGED Own(c) BY <1>1, <1>2 DEF Own
  <2>2. QED BY <1>1, <1>2, <2>1, CrashMoves
<1>3. CASE main' # "crashed"
  <2> DEFINE on == c \in channels /\ radarActive[Rnum[c]]
                     /\ transmitting[Rnum[c]]
  <2>1. /\ main' = "collect"
        /\ state'[c][processingSwing] = state[c][processingSwing]
        /\ state'[c][activeSwing] =
             IF on /\ state[c][activeSwing] = TRIGGER
             THEN PROCESSING ELSE state[c][activeSwing]
        /\ c \notin channels => state'[c] = state[c]
        /\ on /\ ~IsLastPeriod(scan[c]) =>
             \E e \in Result : /\ Filled(e, activeSwing, None)
                               /\ results'[c] = <<e>> \o results[c]
        /\ ~(on /\ ~IsLastPeriod(scan[c])) => results'[c] = results[c]
    BY <1>3, FireEffect
  <2>2. /\ activeSwing \in Swing /\ nextSwing \in Swing
        /\ results[c] \in Seq(Result) /\ Rnum[c] \in Radars
        /\ state \in [Channels -> [Swing -> ChannelState]]
        /\ state' \in [Channels -> [Swing -> ChannelState]]
    <3>1. TypeOK' BY FireTyped
    <3>2. QED BY <3>1 DEF TypeOK, TypeSwings, TypeChan
  <2>3. ASSUME c \notin channels PROVE UNCHANGED Own(c)
    <3>1. results'[c] = results[c] /\ state'[c] = state[c]
      BY <2>1, <2>3
    <3>2. QED BY <1>1, <3>1 DEF Own
  <2>4. ASSUME c \in newChannels PROVE Waiting(c)'
    <3>1. Waiting(c) /\ c \notin channels BY <2>4 DEF Stage
    <3>2. pc[c] = "readywait" => WaitsRight(c)'
      BY <1>1, <2>1, <3>1 DEF Waiting, WaitsRight, Rest, Fires, Prep
    <3>3. QED BY <3>1, <3>2, <2>3, OwnKept
  <2>5. c \notin channels \cup newChannels => Absent(c)'
    BY <2>3, OwnKept DEF Stage
  <2>6. PassedBy(c)'
    BY <2>1 DEF PassedBy
  <2>7. ASSUME c \in channels PROVE Present(c)'
    <3>1. ASSUME Primed(c), on PROVE Fired(c)'
      <4>1. nextSwing = processingSwing /\ lastSwing = activeSwing
        BY <1>1, <2>2, <3>1 DEF Aligned, Fires, lastSwing
      <4>2. Pending(c, activeSwing)'
        <5>1. CASE IsLastPeriod(scan[c])
          BY <1>1, <2>1, <3>1, <5>1 DEF Primed, Pending, NoResults,
             IsLastPeriod, Camping
        <5>2. CASE ~IsLastPeriod(scan[c])
          <6>1. PICK e \in Result : /\ Filled(e, activeSwing, None)
                                    /\ results'[c] = <<e>> \o results[c]
            BY <2>1, <3>1, <5>2
          <6>2. results[c] = <<>> /\ Len(results[c]) = 0
            BY <3>1 DEF Primed, NoResults
          <6>3. Len(results'[c]) = 1 /\ results'[c][1] = e
            BY <2>2, <6>1, <6>2, PushedResult
          <6>4. QED BY <1>1, <6>1, <6>3 DEF Pending, One, Filled
        <5>3. QED BY <5>1, <5>2
      <4>3. UNCHANGED <<activeSwing, lastSwing>>
        BY <1>1 DEF lastSwing
      <4>4. QED
        BY <1>1, <2>1, <3>1, <4>1, <4>2, <4>3 DEF Primed, Fired, At, Start1,
           Began, Gone, Fetch, Owes, Remaining, Camping, Prep, Pending,
           One, Filled, NoResults, IsLastPeriod
    <3>2. ASSUME Primed(c), ~on PROVE Missed(c, activeSwing)'
      <4>1. ~transmitting[Rnum[c]]
        BY <1>1, <2>7, <3>2 DEF Primed
      <4>2. QED
        BY <1>1, <2>1, <2>2, <3>2, <4>1 DEF Primed, Missed, At, Start1, Began,
           Gone, Fetch, Prep, NoResults
    <3>3. ASSUME Lost(c) PROVE Lost(c)'
      BY <1>1, <2>1, <2>2, <3>3 DEF Lost, At, Rest, Fires, First1, Began, Gone,
         Fetch, NoResults, IsLastPeriod, Camping
    <3>4. ASSUME Shot(c) PROVE Shot(c)'
      <4>1. /\ Going(c) /\ radarActive[Rnum[c]]
            /\ state[c][activeSwing] = TRIGGER
            /\ Pending(c, processingSwing)
            /\ transmitting[Rnum[c]] \/ IsLastPeriod(scan[c])
        BY <1>1, <3>4 DEF Shot
      <4>2. CASE IsLastPeriod(scan[c])
        BY <1>1, <2>1, <2>2, <3>4, <4>1, <4>2 DEF Shot, At, Fires, Going,
           Began, Gone, Fetch, Owes, Remaining, Pending, One, Filled,
           NoResults, IsLastPeriod, Camping
      <4>3. CASE ~IsLastPeriod(scan[c])
        <5>1. on /\ One(c, processingSwing, None)
          BY <2>7, <4>1, <4>3 DEF Pending
        <5>2. PICK e \in Result : /\ Filled(e, activeSwing, None)
                                  /\ results'[c] = <<e>> \o results[c]
          BY <2>1, <4>3, <5>1
        <5>3. /\ Len(results[c]) = 1
              /\ Filled(results[c][1], processingSwing, None)
          BY <5>1 DEF One
        <5>4. /\ Len(results'[c]) = 2 /\ results'[c][1] = e
              /\ results'[c][2] = results[c][1]
          <6> DEFINE q == results[c]
                     p == results'[c]
          <6>1. /\ q \in Seq(Result) /\ e \in Result
                /\ Len(q) = 1 /\ p = <<e>> \o q
            BY <2>2, <5>2, <5>3
          <6> HIDE DEF q, p
          <6>2. Len(p) = 2 /\ p[1] = e /\ p[2] = q[1]
            BY ONLY <6>1, PushedOnOne
          <6>3. QED BY <6>2 DEF q, p
        <5>5. Two(c, activeSwing, None, processingSwing, None)'
          BY <1>1, <5>2, <5>3, <5>4 DEF Two, Filled
        <5>6. QED
          BY <1>1, <2>1, <3>4, <4>1, <4>3, <5>1, <5>5 DEF Shot, At, Fires,
             Going, Began, Gone, Fetch, Owes, Remaining, IsLastPeriod, Camping
      <4>4. QED BY <4>2, <4>3
    <3>5. activeSwing' = activeSwing
      BY <1>1
    <3>6. QED
      BY <1>1, <2>2, <2>7, <3>1, <3>2, <3>3, <3>4, AtFire DEF Present
  <2>8. QED BY <1>1, <2>4, <2>5, <2>6, <2>7 DEF Stage, Lists
<1>4. QED BY <1>2, <1>3
----------------------------------------------------------------------------
(* The results of the other swing, and the end of its period.              *)
LEMMA AtCollect ==
  ASSUME NEW c \in Channels, Stage(c), c \in channels,
         main \in {"collect", "finish"}
  PROVE  Fired(c) \/ (\E x \in Swing : Missed(c, x)) \/ Lost(c) \/ Shot(c)
<1>1. ~Fresh(c) /\ ~Primed(c) /\ ~Running(c) /\ ~Leaves(c)
  BY DEF Fresh, Primed, Running, Leaves, At, Rest, Prep
<1>2. QED BY <1>1 DEF Stage, Present

(* Of the channels on the list, those in the middle of their scan are the  *)
(* ones with a period on the other swing.                                  *)
LEMMA OnlyShot ==
  ASSUME TypeOK, Aligned, NEW c \in Channels, main \in {"collect", "finish"}
  PROVE  /\ Fired(c) \/ (\E x \in Swing : Missed(c, x)) \/ Lost(c) =>
              state[c][processingSwing] # PROCESSING
         /\ Shot(c) => radarActive[Rnum[c]]
                       /\ state[c][processingSwing] = PROCESSING
<1>1. activeSwing \in Swing /\ Rnum[c] \in Radars
  BY DEF TypeOK, TypeSwings
<1>2. Fired(c) => state[c][processingSwing] # PROCESSING
  BY <1>1 DEF Fired, Aligned, Fires
<1>3. (\E x \in Swing : Missed(c, x)) => state[c][processingSwing] # PROCESSING
  BY <1>1 DEF Missed
<1>4. Lost(c) => state[c][processingSwing] # PROCESSING
  BY DEF Lost
<1>5. QED BY <1>2, <1>3, <1>4 DEF Shot

LEMMA CollectEffect ==
  ASSUME TypeOK, NEW c \in Channels, Collect, main' # "crashed"
  PROVE  LET due == c \in channels /\ radarActive[Rnum[c]]
                      /\ state[c][processingSwing] = PROCESSING
         IN  /\ main' = "finish"
             /\ ~due => results'[c] = results[c]
             /\ due => /\ results[c] # <<>>
                       /\ \E e \in Result :
                            /\ Filled(e, Last(results[c]).swing,
                                      scan[c].period)
                            /\ results'[c] = Append(Front(results[c]), e)
<1> DEFINE D == {d \in Processing : radarActive[Rnum[d]]}
           filled(d) == IF swingInvalid[Rnum[d]]
                        THEN [Last(results[d]) EXCEPT !.valid = FALSE,
                                !.label = scan[d].period]
                        ELSE [Last(results[d]) EXCEPT
                                !.data = rx[processingSwing][d],
                                !.label = scan[d].period]
<1>1. /\ main' = "finish" /\ \A d \in D : results[d] # <<>>
      /\ results' = [d \in Channels |->
           IF d \in D THEN Append(Front(results[d]), filled(d))
                      ELSE results[d]]
  BY DEF Collect
<1>2. c \in D <=> c \in channels /\ radarActive[Rnum[c]]
                    /\ state[c][processingSwing] = PROCESSING
  BY DEF Processing
<1>3. /\ results[c] \in Seq(Result) /\ scan[c].period \in Label
      /\ rx[processingSwing][c] \in Label
  BY DEF TypeOK, TypeChan, TypeSwings, TypeDrivers, Scan
<1>4. ASSUME c \in D
      PROVE  /\ filled(c) \in Result
             /\ Filled(filled(c), Last(results[c]).swing, scan[c].period)
  <2>1. results[c] # <<>> BY <1>1, <1>4
  <2>2. Last(results[c]) \in Result
    BY <1>3, <2>1, SequenceEnds
  <2>3. QED BY <1>3, <2>2 DEF Result, Filled
<1>5. results'[c] = IF c \in D THEN Append(Front(results[c]), filled(c))
                               ELSE results[c]
  BY <1>1
<1> HIDE DEF D, filled
<1>6. QED BY <1>1, <1>2, <1>4, <1>5

LEMMA CollectMoves ==
  ASSUME TypeOK, Aligned, NEW c \in Channels, Stage(c), Collect
  PROVE  Stage(c)'
<1> USE DEF lists, handler, swings
<1>1. /\ main = "collect"
      /\ UNCHANGED <<state[c], nextState[c], pc[c], wait[c], triggered[c],
                     sent[c], scan[c], left[c], active[c]>>
      /\ UNCHANGED <<Lists, radarActive, activeSwing, nextSwing,
                     transmitting, todo, adding>>
      /\ main' = "crashed" => UNCHANGED results
  BY DEF Collect, Lists
<1>2. CASE main' = "crashed"
  <2>1. UNCHANGED Own(c) BY <1>1, <1>2 DEF Own
  <2>2. QED BY <1>1, <1>2, <2>1, CrashMoves
<1>3. CASE main' # "crashed"
  <2> DEFINE due == c \in channels /\ radarActive[Rnum[c]]
                      /\ state[c][processingSwing] = PROCESSING
  <2>1. /\ main' = "finish"
        /\ ~due => results'[c] = results[c]
        /\ due => /\ results[c] # <<>>
                  /\ \E e \in Result :
                       /\ Filled(e, Last(results[c]).swing, scan[c].period)
                       /\ results'[c] = Append(Front(results[c]), e)
    BY <1>3, CollectEffect
  <2>2. ASSUME ~due PROVE UNCHANGED Own(c)
    BY <1>1, <2>1, <2>2 DEF Own
  <2>3. ASSUME c \in newChannels PROVE Waiting(c)'
    <3>1. Waiting(c) /\ c \notin channels BY <2>3 DEF Stage
    <3>2. pc[c] = "readywait" => WaitsRight(c)'
      BY <1>1, <2>1, <3>1 DEF Waiting, WaitsRight, Rest, Fires, Prep
    <3>3. QED BY <3>1, <3>2, <2>2, OwnKept
  <2>4. c \notin channels \cup newChannels => Absent(c)'
    BY <2>2, OwnKept DEF Stage
  <2>5. PassedBy(c)'
    BY <2>1 DEF PassedBy
  <2>6. ASSUME c \in channels PROVE Present(c)'
    <3>1. ASSUME Fired(c) PROVE Fired(c)'
      <4>1. UNCHANGED <<Own(c), lastSwing>>
        BY <1>1, <2>2, <3>1, OnlyShot DEF lastSwing
      <4>2. QED
        BY <1>1, <2>1, <3>1, <4>1 DEF Fired, At, Start1, Began, NoResults,
           Gone, Owes, Remaining, Camping, Fetch, Pending, One, Filled,
           IsLastPeriod, Own, Prep
    <3>2. ASSUME NEW x \in Swing, Missed(c, x) PROVE Missed(c, x)'
      <4>1. UNCHANGED Own(c)
        BY <1>1, <2>2, <3>2, OnlyShot
      <4>2. QED
        BY <1>1, <2>1, <3>2, <4>1 DEF Missed, At, Start1, Began, NoResults,
           Gone, Fetch, Own, Prep
    <3>3. ASSUME Lost(c) PROVE Lost(c)'
      <4>1. UNCHANGED Own(c)
        BY <1>1, <2>2, <3>3, OnlyShot
      <4>2. QED
        BY <1>1, <2>1, <3>3, <4>1 DEF Lost, At, Rest, Fires, First1, Began,
           NoResults, Gone, Fetch, IsLastPeriod, Camping, Own
    <3>4. ASSUME Shot(c) PROVE Shot(c)'
      <4> DEFINE q == results[c]
                 p == results'[c]
      <4>1. due
        BY <1>1, <2>6, <3>4, OnlyShot
      <4>2. PICK e \in Result :
              /\ Filled(e, Last(q).swing, scan[c].period)
              /\ p = Append(Front(q), e)
        BY <2>1, <4>1
      <4>3. q \in Seq(Result) /\ q # <<>>
        BY <2>1, <4>1 DEF TypeOK, TypeChan
      <4> HIDE DEF q, p
      <4>4. /\ Len(p) = Len(q) /\ p[Len(q)] = e
            /\ Len(q) = 2 => p[1] = q[1]
        BY <4>2, <4>3, FilledResult
      <4>5. /\ Len(q) = 1 => Last(q) = q[1]
            /\ Len(q) = 2 => Last(q) = q[2]
        BY <4>3, SentResult
      <4>6. ASSUME IsLastPeriod(scan[c])
            PROVE  One(c, processingSwing, scan[c].period)'
        <5>1. One(c, processingSwing, None)
          BY <1>1, <3>4, <4>3, <4>6 DEF Shot, Pending, NoResults, q
        <5>2. Len(q) = 1 /\ q[1].swing = processingSwing
          BY <5>1 DEF One, Filled, q
        <5>3. Len(p) = 1 /\ Filled(p[1], processingSwing, scan[c].period)
          BY <4>2, <4>4, <4>5, <5>2 DEF Filled
        <5>4. QED BY <1>1, <5>3 DEF One, Filled, p
      <4>7. ASSUME ~IsLastPeriod(scan[c])
            PROVE  Two(c, activeSwing, None, processingSwing, scan[c].period)'
        <5>1. Two(c, activeSwing, None, processingSwing, None)
          BY <1>1, <3>4, <4>7 DEF Shot
        <5>2. /\ Len(q) = 2 /\ q[2].swing = processingSwing
              /\ Filled(q[1], activeSwing, None)
          BY <5>1 DEF Two, Filled, q
        <5>3. /\ Len(p) = 2 /\ Filled(p[2], processingSwing, scan[c].period)
              /\ Filled(p[1], activeSwing, None)
          BY <4>2, <4>4, <4>5, <5>2 DEF Filled
        <5>4. QED BY <1>1, <5>3 DEF Two, Filled, p
      <4>8. QED
        BY <1>1, <2>1, <3>4, <4>6, <4>7 DEF Shot, At, Fires, Going, Began,
           Gone, Fetch, Owes, Remaining, IsLastPeriod, Camping
    <3>5. QED BY <1>1, <2>6, <3>1, <3>2, <3>3, <3>4, AtCollect DEF Present
  <2>7. QED BY <1>1, <2>3, <2>4, <2>5, <2>6 DEF Stage, Lists
<1>4. QED BY <1>2, <1>3
LEMMA FinishEffect ==
  ASSUME TypeOK, NEW c \in Channels, Finish
  PROVE  LET over == PeriodFinished(scan[c])
             P == c \in channels /\ state[c][processingSwing] = PROCESSING
         IN  /\ main' = "add" /\ todo' = channels
             /\ scan'[c] = IF c \in channels THEN over ELSE scan[c]
             /\ ~P => state'[c] = state[c] /\ nextState'[c] = nextState[c]
             /\ P => /\ state'[c][processingSwing] = SAMPLES_READY
                     /\ ~over.post =>
                          /\ state'[c][activeSwing] = state[c][activeSwing]
                          /\ nextState'[c][processingSwing]
                               \in {READY, LAST_SWING}
                     /\ over.post =>
                          /\ state'[c][activeSwing] = INACTIVE
                          /\ nextState'[c][processingSwing] = INACTIVE
<1> DEFINE over == [d \in Channels |-> IF d \in channels
                                       THEN PeriodFinished(scan[d])
                                       ELSE scan[d]]
           post == {d \in Processing : over[d].post}
           last == {d \in Processing \ post : IsLastPeriod(over[d])}
           p == processingSwing
           S1 == PutSwing(state, Processing, p, SAMPLES_READY)
           N1 == PutSwing(nextState, Processing, p, READY)
           N2 == PutSwing(N1, last, p, LAST_SWING)
           N3 == PutSwing(N2, post, p, INACTIVE)
<1>1. /\ main' = "add" /\ todo' = channels /\ scan' = over
      /\ state' = PutSwing(S1, post, activeSwing, INACTIVE)
      /\ nextState' = PutSwing(N3, post, activeSwing, INACTIVE)
  BY DEF Finish
<1>2. /\ c \in Processing <=>
           c \in channels /\ state[c][processingSwing] = PROCESSING
      /\ c \in post <=> c \in Processing /\ over[c].post
      /\ c \in last => c \in Processing /\ c \notin post
      /\ c \in channels => over[c] = PeriodFinished(scan[c])
      /\ c \notin channels => over[c] = scan[c]
  BY DEF Processing
<1>3. /\ state \in [Channels -> [Swing -> ChannelState]]
      /\ nextState \in [Channels -> [Swing -> ChannelState]]
      /\ activeSwing \in Swing /\ p \in Swing /\ p # activeSwing
  BY DEF TypeOK, TypeChan, TypeSwings
<1> DEFINE P == Processing
<1>4. /\ S1 = PutSwing(state, P, p, SAMPLES_READY)
      /\ N1 = PutSwing(nextState, P, p, READY)
  OBVIOUS
<1> HIDE DEF P, over, post, last, p
<1>5. \A d \in Channels, t \in Swing :
        /\ S1[d] = IF d \in P THEN [state[d] EXCEPT ![p] = SAMPLES_READY]
                              ELSE state[d]
        /\ N1[d] = IF d \in P THEN [nextState[d] EXCEPT ![p] = READY]
                              ELSE nextState[d]
  BY <1>3, <1>4 DEF PutSwing
<1>6. S1 \in [Channels -> [Swing -> ChannelState]]
      /\ N1 \in [Channels -> [Swing -> ChannelState]]
  BY <1>3, <1>4, PutSwingTyped
<1> HIDE DEF S1, N1
<1>7. N2 \in [Channels -> [Swing -> ChannelState]]
      /\ N2[c] = IF c \in last THEN [N1[c] EXCEPT ![p] = LAST_SWING] ELSE N1[c]
  <2>1. N2 \in [Channels -> [Swing -> ChannelState]]
    BY <1>3, <1>6, PutSwingTyped
  <2>2. QED BY <1>6, <2>1 DEF PutSwing
<1> HIDE DEF N2
<1>8. N3 \in [Channels -> [Swing -> ChannelState]]
      /\ N3[c] = IF c \in post THEN [N2[c] EXCEPT ![p] = INACTIVE] ELSE N2[c]
  <2>1. N3 \in [Channels -> [Swing -> ChannelState]]
    BY <1>3, <1>7, PutSwingTyped
  <2>2. QED BY <1>7, <2>1 DEF PutSwing
<1> HIDE DEF N3
<1>9. /\ state'[c] = IF c \in post
                     THEN [S1[c] EXCEPT ![activeSwing] = INACTIVE] ELSE S1[c]
      /\ nextState'[c] = IF c \in post
                         THEN [N3[c] EXCEPT ![activeSwing] = INACTIVE]
                         ELSE N3[c]
  BY <1>1, <1>3, <1>6, <1>8 DEF PutSwing
<1>10. ASSUME c \notin P
       PROVE  state'[c] = state[c] /\ nextState'[c] = nextState[c]
  BY <1>2, <1>5, <1>7, <1>8, <1>9, <1>10, <1>3 DEF P
<1>11. ASSUME c \in P, c \notin post
       PROVE  /\ state'[c][p] = SAMPLES_READY
              /\ state'[c][activeSwing] = state[c][activeSwing]
              /\ nextState'[c][p] \in {READY, LAST_SWING}
  <2>1. state'[c] = [state[c] EXCEPT ![p] = SAMPLES_READY]
    BY <1>3, <1>5, <1>9, <1>11
  <2>2. N1[c] = [nextState[c] EXCEPT ![p] = READY]
    BY <1>3, <1>5, <1>11
  <2>3. nextState'[c] = IF c \in last THEN [N1[c] EXCEPT ![p] = LAST_SWING]
                                      ELSE N1[c]
    BY <1>7, <1>8, <1>9, <1>11
  <2>4. N1[c] \in [Swing -> ChannelState] /\ N1[c][p] = READY
    BY <1>3, <1>6, <2>2
  <2>5. nextState'[c][p] \in {READY, LAST_SWING}
    BY <1>3, <2>3, <2>4
  <2>6. QED BY <1>3, <2>1, <2>5
<1>12. ASSUME c \in P, c \in post
       PROVE  /\ state'[c][p] = SAMPLES_READY
              /\ state'[c][activeSwing] = INACTIVE
              /\ nextState'[c][p] = INACTIVE
  <2>1. S1[c] = [state[c] EXCEPT ![p] = SAMPLES_READY]
    BY <1>3, <1>5, <1>12
  <2>2. state'[c] = [S1[c] EXCEPT ![activeSwing] = INACTIVE]
    BY <1>9, <1>12
  <2>3. S1[c] \in [Swing -> ChannelState] /\ S1[c][p] = SAMPLES_READY
    BY <1>3, <1>6, <2>1
  <2>4. /\ N3[c] = [N2[c] EXCEPT ![p] = INACTIVE]
        /\ N3[c] \in [Swing -> ChannelState]
        /\ N2[c] \in [Swing -> ChannelState]
    BY <1>7, <1>8, <1>12
  <2>5. N3[c][p] = INACTIVE
    BY <1>3, <2>4
  <2>6. nextState'[c] = [N3[c] EXCEPT ![activeSwing] = INACTIVE]
    BY <1>9, <1>12
  <2>7. nextState'[c][p] = INACTIVE
    BY <1>3, <2>4, <2>5, <2>6
  <2>8. QED BY <1>3, <2>2, <2>3, <2>7
<1>13. scan'[c] = over[c]
  BY <1>1
<1>14. QED BY <1>1, <1>2, <1>10, <1>11, <1>12, <1>13 DEF P, p

LEMMA FinishMoves ==
  ASSUME TypeOK, Aligned, NEW c \in Channels, Stage(c), Finish
  PROVE  Stage(c)'
<1> USE DEF lists, flags, handler, swings
<1>1. /\ main = "finish" /\ main' = "add" /\ todo' = channels
      /\ UNCHANGED <<pc[c], wait[c], triggered[c], results[c], sent[c],
                     left[c], active[c]>>
      /\ UNCHANGED <<Lists, radarActive, activeSwing, nextSwing,
                     transmitting, adding>>
  BY DEF Finish, Lists
<1> DEFINE over == PeriodFinished(scan[c])
           P == c \in channels /\ state[c][processingSwing] = PROCESSING
<1>2. /\ scan'[c] = IF c \in channels THEN over ELSE scan[c]
      /\ ~P => state'[c] = state[c] /\ nextState'[c] = nextState[c]
      /\ P => /\ state'[c][processingSwing] = SAMPLES_READY
              /\ ~over.post => /\ state'[c][activeSwing] = state[c][activeSwing]
                               /\ nextState'[c][processingSwing]
                                    \in {READY, LAST_SWING}
              /\ over.post => /\ state'[c][activeSwing] = INACTIVE
                              /\ nextState'[c][processingSwing] = INACTIVE
  BY FinishEffect
<1>3. /\ activeSwing \in Swing /\ nextSwing \in Swing
      /\ scan[c] \in Scan /\ ScanLen[c] \in Nat /\ adding = "none"
      /\ c # "none" /\ Rnum[c] \in Radars
  BY <1>1 DEF TypeOK, TypeSwings, TypeChan, Aligned
<1>4. ASSUME c \notin channels PROVE UNCHANGED Own(c)
  BY <1>1, <1>2, <1>4 DEF Own
<1>5. ASSUME c \in newChannels PROVE Waiting(c)'
  <2>1. Waiting(c) /\ c \notin channels BY <1>5 DEF Stage
  <2>2. pc[c] = "readywait" => WaitsRight(c)'
    BY <1>1, <2>1 DEF Waiting, WaitsRight, Rest, Fires, Prep
  <2>3. QED BY <2>1, <2>2, <1>4, OwnKept
<1>6. c \notin channels \cup newChannels => Absent(c)'
  BY <1>4, OwnKept DEF Stage
<1>7. PassedBy(c)'
  BY <1>1, <1>3 DEF PassedBy, Lists
<1>8. ASSUME c \in channels PROVE Present(c)'
  <2>1. /\ scan[c].pre => scan'[c] = [scan[c] EXCEPT !.pre = FALSE]
        /\ ~scan[c].pre /\ IsLastPeriod(scan[c]) =>
             scan'[c] = [scan[c] EXCEPT !.post = TRUE]
        /\ ~scan[c].pre /\ Camping(scan[c]) => scan'[c] = scan[c]
        /\ ~scan[c].pre /\ ~Camping(scan[c]) /\ ~IsLastPeriod(scan[c]) =>
             scan'[c] = [scan[c] EXCEPT !.period = @ + 1]
    BY <1>2, <1>8 DEF PeriodFinished, IsLastPeriod
  <2>2. ASSUME Fired(c) PROVE Fired(c)'
    <3>1. ~P /\ Start1(c)
      BY <1>1, <2>2, OnlyShot DEF Fired
    <3>2. scan'[c] = [scan[c] EXCEPT !.pre = FALSE] /\ First1(c)'
      BY <1>3, <2>1, <3>1 DEF Start1, First1, Began, Scan
    <3>3. /\ scan'[c].len = scan[c].len /\ scan'[c].period = scan[c].period
          /\ scan'[c].post = scan[c].post /\ UNCHANGED lastSwing
      BY <1>1, <1>3, <3>2 DEF Scan, lastSwing
    <3>4. QED
      BY <1>1, <1>2, <2>2, <3>1, <3>2, <3>3 DEF Fired, At, NoResults,
         Gone, Owes, Remaining, Camping, Fetch, Pending, One, Filled,
         IsLastPeriod, Prep
  <2>3. ASSUME NEW x \in Swing, Missed(c, x) PROVE Missed(c, x)'
    <3>1. ~P /\ Start1(c)
      BY <1>1, <2>3, OnlyShot DEF Missed
    <3>2. scan'[c] = [scan[c] EXCEPT !.pre = FALSE] /\ First1(c)'
      BY <1>3, <2>1, <3>1 DEF Start1, First1, Began, Scan
    <3>3. QED
      BY <1>1, <1>2, <1>8, <2>3, <3>1, <3>2 DEF Missed, At, NoResults, Gone,
         Fetch, Prep
  <2>4. ASSUME Lost(c) PROVE Leaves(c)'
    <3>1. /\ ~P /\ First1(c) /\ IsLastPeriod(scan[c])
          /\ state[c][processingSwing] = TRIGGER
          /\ state[c][activeSwing] = INACTIVE
      BY <1>1, <2>4, OnlyShot DEF Lost, At, Rest
    <3>2. /\ scan'[c] = [scan[c] EXCEPT !.post = TRUE]
          /\ Over(c)' /\ Began(c)'
      BY <1>3, <2>1, <3>1 DEF First1, Over, Began, Scan, IsLastPeriod, Camping
    <3>3. Stuck(c, processingSwing)'
      BY <1>1, <1>2, <1>3, <2>4, <3>1, <3>2 DEF Lost, Stuck, NoResults, Gone,
         Fetch
    <3>4. QED
      BY <1>1, <1>3, <1>8, <3>3 DEF Leaves, At
  <2>5. ASSUME Shot(c) PROVE Running(c)' \/ Leaves(c)'
    <3>1. /\ P /\ Going(c) /\ radarActive[Rnum[c]]
          /\ nextSwing = processingSwing
          /\ state[c][activeSwing] = PROCESSING \/ IsLastPeriod(scan[c])
          /\ IF IsLastPeriod(scan[c])
             THEN One(c, processingSwing, scan[c].period)
             ELSE Two(c, activeSwing, None, processingSwing, scan[c].period)
          /\ Gone(c) \/ (/\ Fetch(c, <<activeSwing, processingSwing>>)
                         /\ Owes(c, Remaining(c)))
      BY <1>1, <1>8, <2>5 DEF Shot
    <3>2. CASE IsLastPeriod(scan[c])
      <4>1. /\ scan'[c] = [scan[c] EXCEPT !.post = TRUE] /\ over.post
            /\ Over(c)' /\ Began(c)' /\ scan'[c].period = scan[c].period
        BY <1>2, <1>3, <1>8, <2>1, <3>1, <3>2 DEF Going, Over, Began, Scan,
           IsLastPeriod, Camping
      <4>2. Gone(c) \/ left[c] = 1
        BY <1>3, <3>1, <3>2 DEF Owes, Remaining, IsLastPeriod, Scan
      <4>3. Ended(c, processingSwing)'
        BY <1>1, <1>2, <1>3, <3>1, <3>2, <4>1, <4>2 DEF Ended, One, Filled,
           Gone, Fetch
      <4>4. QED
        BY <1>1, <1>3, <1>8, <4>3 DEF Leaves, At
    <3>3. CASE ~IsLastPeriod(scan[c])
      <4>1. CASE Camping(scan[c])
        <5>1. scan'[c] = scan[c] /\ ~over.post
          BY <1>2, <1>8, <2>1, <3>1, <4>1 DEF Going
        <5>2. Gone(c) \/ (pc[c] # "idle" /\ Owes(c, Remaining(c) + 1))
          <6>1. Fetch(c, <<activeSwing, processingSwing>>) => pc[c] # "idle"
            BY DEF Fetch
          <6>2. Owes(c, Remaining(c)) <=> Owes(c, Remaining(c) + 1)
            BY <4>1 DEF Owes
          <6>3. QED BY <3>1, <6>1, <6>2
        <5>3. lastSwing = activeSwing /\ lastSwing' = activeSwing
          BY <1>1, <1>3, <3>1 DEF lastSwing
        <5>4. /\ Two(c, lastSwing, None, nextSwing, Previous(c))'
              /\ state'[c][nextSwing] = SAMPLES_READY
              /\ nextState'[c][nextSwing] \in {READY, LAST_SWING}
              /\ state'[c][lastSwing] = PROCESSING
          BY <1>1, <1>2, <3>1, <3>3, <4>1, <5>1, <5>3 DEF Two, Filled, Previous
        <5>5. Collected(c)'
          BY <1>1, <3>1, <4>1, <5>1, <5>2, <5>3, <5>4 DEF Collected, Gone,
             Fetch, Owes, Remaining
        <5>6. QED
          BY <1>1, <3>1, <5>1, <5>3, <5>4, <5>5 DEF Running, At, Prep, Going,
             Began, Rest
      <4>2. CASE ~Camping(scan[c])
        <5>1. /\ scan'[c] = [scan[c] EXCEPT !.period = @ + 1] /\ ~over.post
              /\ Going(c)' /\ scan'[c].period = scan[c].period + 1
              /\ ~Camping(scan'[c]) /\ scan'[c].len = scan[c].len
          BY <1>2, <1>3, <1>8, <2>1, <3>1, <3>3, <4>2 DEF Going, Began, Scan,
             IsLastPeriod, Camping
        <5>2. Gone(c) \/ (pc[c] # "idle" /\ left[c] = Remaining(c)' + 1)
          BY <1>3, <3>1, <4>2, <5>1 DEF Owes, Fetch, Remaining, Scan
        <5>3. lastSwing = activeSwing /\ lastSwing' = activeSwing
          BY <1>1, <1>3, <3>1 DEF lastSwing
        <5>4. Previous(c)' = scan[c].period
          BY <1>3, <5>1 DEF Previous, Scan
        <5>5. /\ Two(c, lastSwing, None, nextSwing, Previous(c))'
              /\ state'[c][nextSwing] = SAMPLES_READY
              /\ nextState'[c][nextSwing] \in {READY, LAST_SWING}
              /\ state'[c][lastSwing] = PROCESSING
          BY <1>1, <1>2, <3>1, <3>3, <5>1, <5>3, <5>4 DEF Two, Filled
        <5>6. Collected(c)'
          BY <1>1, <3>1, <5>1, <5>2, <5>3, <5>5 DEF Collected, Gone,
             Fetch, Owes
        <5>7. QED
          BY <1>1, <3>1, <5>1, <5>3, <5>5, <5>6 DEF Running, At, Prep, Rest
      <4>3. QED BY <4>1, <4>2
    <3>4. QED BY <3>2, <3>3
  <2>6. QED BY <1>1, <1>8, <2>2, <2>3, <2>4, <2>5, AtCollect DEF Present
<1>9. QED BY <1>1, <1>5, <1>6, <1>7, <1>8 DEF Stage, Lists
----------------------------------------------------------------------------
(* The loop that prepares the next period.                                 *)
LEMMA AtAdd ==
  ASSUME NEW c \in Channels, Stage(c), c \in channels, main \in Prep
  PROVE  /\ \/ Fired(c) \/ (\E x \in Swing : Missed(c, x)) \/ Running(c)
            \/ Leaves(c)
         /\ ~scan[c].post \/ Leaves(c)
<1>1. ~Fresh(c) /\ ~Primed(c) /\ ~Lost(c) /\ ~Shot(c)
  BY DEF Fresh, Primed, Lost, Shot, At, Rest, Fires, Prep
<1>2. /\ Fired(c) => ~scan[c].post
      /\ \A x \in Swing : Missed(c, x) => ~scan[c].post
      /\ Running(c) => ~scan[c].post
  BY DEF Fired, Missed, Running, First1, Going, Prep
<1>3. QED BY <1>1, <1>2 DEF Stage, Present

LEMMA AddLastMoves ==
  ASSUME TypeOK, Stages, Counted, NEW c \in Channels, AddLast(c),
         NEW d \in Channels
  PROVE  Stage(d)'
<1> USE DEF swings, lists, handler, chan
<1>1. /\ main = "add" /\ adding = "none" /\ c \in todo /\ todo' = todo \ {c}
      /\ IsLastPeriod(scan[c]) /\ c # "none"
      /\ channels' = IF scan[c].post THEN channels \ {c} ELSE channels
      /\ UNCHANGED <<Own(d), Place, adding, newChannels>>
  BY DEF AddLast, Own, Place
<1>2. Stage(d) BY DEF Stages
<1>3. CASE d = c
  <2>1. PassedBy(d)'
    BY <1>1, <1>3 DEF PassedBy
  <2>2. ASSUME c \notin channels PROVE Stage(d)'
    <3>1. c \notin newChannels /\ Absent(c)
      BY <1>1, <1>2, <1>3, <2>2 DEF Stage, PassedBy
    <3>2. Absent(d)' BY <1>1, <1>3, <3>1, OwnKept
    <3>3. QED BY <1>1, <1>3, <2>1, <2>2, <3>1, <3>2 DEF Stage
  <2>3. ASSUME c \in channels, scan[c].post PROVE Stage(d)'
    <3>1. c \notin newChannels /\ Leaves(c)
      BY <1>1, <1>2, <1>3, <2>3, AtAdd DEF Stage, Prep
    <3>2. Absent(c) BY <3>1 DEF Leaves, Absent
    <3>3. Absent(d)' BY <1>1, <1>3, <3>2, OwnKept
    <3>4. QED BY <1>1, <1>3, <2>1, <2>3, <3>1, <3>3 DEF Stage
  <2>4. ASSUME c \in channels, ~scan[c].post PROVE Stage(d)'
    <3>1. /\ c \in channels' /\ c \notin newChannels'
          /\ UNCHANGED <<Own(c), Place, adding, radarActive>>
      BY <1>1, <1>2, <1>3, <2>4 DEF AddLast, Stage
    <3>2. Fired(c) \/ (\E x \in Swing : Missed(c, x)) \/ Running(c)
      <4>1. ~Leaves(c)
        BY <2>4 DEF Leaves, Ended, Stuck, Over
      <4>2. QED BY <1>1, <1>2, <1>3, <2>4, <4>1, AtAdd DEF Prep
    <3>3. Fired(c) => Fired(c)'
      BY <3>1 DEF Fired, At, Start1, First1, Began, NoResults, Gone, Owes,
         Remaining, Camping, Fetch, Pending, One, Filled, IsLastPeriod,
         lastSwing, Own, Place
    <3>4. ASSUME NEW x \in Swing PROVE Missed(c, x) => Missed(c, x)'
      BY <1>1, <3>1 DEF Missed, At, Start1, First1, Began, NoResults, Gone,
         IsLastPeriod, Camping, Fetch, Own, Place
    <3>5. Running(c) => Running(c)'
      BY <3>1, TurnKept DEF Running, At, Going, Began, lastSwing, Own, Place
    <3>6. Present(c)'
      BY <3>2, <3>3, <3>4, <3>5 DEF Present
    <3>7. active'[c] /\ pc'[c] \notin {"deregister", "gone"}
      BY <1>2, <1>3, <2>4, <3>1 DEF Stage, Own
    <3>8. QED BY <1>3, <2>1, <3>1, <3>6, <3>7 DEF Stage
  <2>5. QED BY <2>2, <2>3, <2>4
<1>4. CASE d # c
  <2>1. /\ d \in channels' <=> d \in channels
        /\ d \in todo' <=> d \in todo
        /\ d \in newChannels' <=> d \in newChannels
        /\ adding' = d <=> adding = d
    BY <1>1, <1>4
  <2>2. ASSUME d \in channels', radarActive[Rnum[d]]
        PROVE  radarActive'[Rnum[d]]
    <3>1. CASE ~scan[c].post
      BY <2>2, <3>1 DEF AddLast
    <3>2. CASE scan[c].post
      <4>1. PICK gone \in BOOLEAN : gone <=> scan[c].post /\ c \in channels
        OBVIOUS
      <4>2. gone => c \in Registered
        BY <4>1 DEF Registered
      <4>3. RadarActiveWithout(c, gone)[Rnum[d]]
        BY <1>4, <2>1, <2>2, <4>2, RadarStays
      <4>4. Rnum[d] \in Radars
        OBVIOUS
      <4>5. QED
        BY <3>2, <4>1, <4>3, <4>4 DEF AddLast, RadarActiveWithout
    <3>3. QED BY <3>1, <3>2
  <2>3. QED BY <1>1, <1>2, <2>1, <2>2, StageKept
<1>5. QED BY <1>3, <1>4

LEMMA AddNotActiveMoves ==
  ASSUME TypeOK, Stages, NEW c \in Channels, AddNotActive(c),
         NEW d \in Channels
  PROVE  Stage(d)'
<1> USE DEF swings, lists, handler, chan
<1>1. /\ main = "add" /\ adding = "none" /\ c \in todo /\ todo' = todo \ {c}
      /\ ~active[c] /\ c # "none"
      /\ UNCHANGED <<Own(d), Place, adding, channels, newChannels,
                     radarActive>>
  BY DEF AddNotActive, Own, Place
<1>2. Stage(d) BY DEF Stages
<1>3. CASE d = c
  <2>1. c \notin channels /\ c \notin newChannels /\ Absent(c)
    BY <1>1, <1>2, <1>3 DEF Stage, PassedBy
  <2>2. Absent(d)' BY <1>1, <1>3, <2>1, OwnKept
  <2>3. PassedBy(d)' BY <1>1, <1>3 DEF PassedBy
  <2>4. QED BY <1>1, <1>3, <2>1, <2>2, <2>3 DEF Stage
<1>4. CASE d # c
  <2>1. d \in todo' <=> d \in todo BY <1>1, <1>4
  <2>2. QED BY <1>1, <1>2, <2>1, StageKept
<1>5. QED BY <1>3, <1>4

LEMMA AddUpdateMoves ==
  ASSUME TypeOK, Stages, NEW c \in Channels, AddUpdate(c), NEW d \in Channels
  PROVE  Stage(d)'
<1> USE DEF swings, lists, handler, chan
<1>1. /\ main = "add" /\ adding = "none" /\ c \in todo /\ todo' = todo \ {c}
      /\ adding' = c /\ ~IsLastPeriod(scan[c])
      /\ UNCHANGED <<Own(d), channels, newChannels, active, radarActive>>
      /\ UNCHANGED <<activeSwing, nextSwing, transmitting>>
      /\ main' \in {"add", "crashed"}
  BY DEF AddUpdate, Own
<1>2. Stage(d) BY DEF Stages
<1>3. CASE main' = "crashed"
  BY <1>1, <1>2, <1>3, CrashMoves DEF Lists
<1>4. CASE main' = "add" /\ d # c
  <2>1. d # "none" OBVIOUS
  <2>2. d \in todo' <=> d \in todo BY <1>1, <1>4
  <2>3. adding' = d <=> adding = d BY <1>1, <1>4, <2>1
  <2>4. UNCHANGED Place BY <1>1, <1>4 DEF Place
  <2>5. QED BY <1>1, <1>2, <2>2, <2>3, <2>4, StageKept
<1>5. CASE main' = "add" /\ d = c
  <2>1. ASSUME c \notin channels PROVE Stage(d)'
    <3>1. c \notin newChannels /\ pc[c] \in Away
      BY <1>1, <1>2, <1>5, <2>1 DEF Stage, PassedBy, Over
    <3>2. pc'[c] \in Away
      BY <1>1, <1>5, <3>1 DEF Own
    <3>3. QED
      BY <1>1, <1>5, <2>1, <3>1, <3>2 DEF Stage, Absent, PassedBy
  <2>2. ASSUME c \in channels PROVE Stage(d)'
    <3>1. Fired(c) \/ (\E x \in Swing : Missed(c, x)) \/ Running(c)
      <4>1. ~Leaves(c)
        BY <1>1 DEF Leaves, Ended, Stuck, Over
      <4>2. QED BY <1>1, <1>2, <1>5, <2>2, <4>1, AtAdd DEF Prep
    <3>2. UNCHANGED <<Own(c), Place, radarActive>>
      BY <1>1, <1>5 DEF Place
    <3>3. Fired(c) => Fired(c)'
      BY <3>2 DEF Fired, At, Start1, First1, Began, NoResults, Gone, Owes,
         Remaining, Camping, Fetch, Pending, One, Filled, IsLastPeriod,
         lastSwing, Own, Place
    <3>4. ASSUME NEW x \in Swing PROVE Missed(c, x) => Missed(c, x)'
      BY <1>1, <1>5, <3>2 DEF Missed, At, Start1, First1, Began, NoResults,
         Gone, IsLastPeriod, Camping, Fetch, Own, Place
    <3>5. Running(c) => Running(c)'
      BY <3>2, TurnKept DEF Running, At, Going, Began, lastSwing, Own, Place
    <3>6. Present(c)'
      BY <3>1, <3>3, <3>4, <3>5 DEF Present
    <3>7. /\ active'[c] /\ pc'[c] \notin {"deregister", "gone"}
          /\ c \in channels' /\ c \notin newChannels'
      BY <1>1, <1>2, <1>5, <2>2 DEF Stage, Own
    <3>8. PassedBy(c)' BY <3>7 DEF PassedBy
    <3>9. QED BY <1>5, <3>6, <3>7, <3>8 DEF Stage
  <2>3. QED BY <2>1, <2>2
<1>6. QED BY <1>1, <1>3, <1>4, <1>5

LEMMA AddSendMoves ==
  ASSUME TypeOK, Stages, Aligned, NEW c \in Channels, AddSend(c),
         NEW d \in Channels
  PROVE  Stage(d)'
<1> USE DEF swings, lists, flags, handler
<1>1. /\ main = "add" /\ adding = c /\ adding' = "none"
      /\ UNCHANGED <<Place, todo, channels, newChannels, radarActive>>
      /\ UNCHANGED <<nextState, pc, wait, triggered, results, sent, scan,
                     left, active>>
      /\ state' = IF state[c][processingSwing] = INACTIVE
                  THEN [state EXCEPT ![c][processingSwing] = READY]
                  ELSE state
  BY DEF AddSend, Place
<1>2. Stage(d) BY DEF Stages
<1>3. /\ state \in [Channels -> [Swing -> ChannelState]]
      /\ activeSwing \in Swing /\ nextSwing \in Swing /\ Rnum[c] \in Radars
  BY DEF TypeOK, TypeChan, TypeSwings
<1>4. CASE d # c
  <2>1. UNCHANGED Own(d)
    BY <1>1, <1>4 DEF Own
  <2>2. adding' = d <=> adding = d
    BY <1>1, <1>4
  <2>3. QED BY <1>1, <1>2, <2>1, <2>2, StageKept
<1>5. CASE d = c
  <2>1. ASSUME c \notin channels PROVE Stage(d)'
    <3>1. c \notin newChannels /\ pc[c] \in Away
      BY <1>1, <1>2, <1>5, <2>1 DEF Stage, PassedBy
    <3>2. QED
      BY <1>1, <1>5, <2>1, <3>1 DEF Stage, Absent, PassedBy
  <2>2. ASSUME c \in channels PROVE Stage(d)'
    <3>1. Fired(c) \/ (\E x \in Swing : Missed(c, x)) \/ Running(c)
      <4>1. ~Leaves(c)
        BY <1>1 DEF Leaves, At
      <4>2. QED BY <1>1, <1>2, <1>5, <2>2, <4>1, AtAdd DEF Prep
    <3>2. /\ state'[c][activeSwing] = state[c][activeSwing]
          /\ state'[c][processingSwing] =
               IF state[c][processingSwing] = INACTIVE THEN READY
               ELSE state[c][processingSwing]
          /\ state[c][processingSwing] # INACTIVE => state'[c] = state[c]
      BY <1>1, <1>3
    <3>3. UNCHANGED <<activeSwing, lastSwing, nextSwing, transmitting, main>>
      BY <1>1 DEF Place, lastSwing
    <3>4. ASSUME Fired(c) PROVE Fired(c)'
      <4>1. nextSwing = processingSwing /\ lastSwing = activeSwing
        BY <1>1, <1>3, <3>4 DEF Fired, Aligned, Prep, lastSwing
      <4>2. QED
        BY <1>1, <3>2, <3>3, <3>4, <4>1 DEF Fired, At, First1, Began,
           NoResults, Gone, Owes, Remaining, Camping, Fetch, Pending, One,
           Filled, IsLastPeriod, Prep
    <3>5. ASSUME NEW x \in Swing, Missed(c, x) PROVE Missed(c, x)'
      <4>1. x = activeSwing /\ 1 - x = processingSwing
        BY <1>1, <3>5 DEF Missed, Prep
      <4>2. QED
        BY <1>1, <3>2, <3>3, <3>5, <4>1 DEF Missed, At, First1, Began,
           NoResults, Gone, IsLastPeriod, Camping, Fetch, Prep
    <3>6. ASSUME Running(c) PROVE Running(c)'
      <4>1. nextSwing = processingSwing /\ state[c][nextSwing] # INACTIVE
        BY <1>1, <3>6 DEF Running, Prep, Triggered, Collected, Prepared
      <4>2. UNCHANGED <<Own(c), nextSwing>>
        BY <1>1, <3>2, <3>3, <4>1 DEF Own
      <4>3. QED
        BY <1>1, <3>3, <3>6, <4>2, TurnKept DEF Running, At, Going, Began, Own
    <3>7. Present(c)'
      BY <3>1, <3>4, <3>5, <3>6 DEF Present
    <3>8. /\ active'[c] /\ pc'[c] \notin {"deregister", "gone"}
          /\ c \in channels' /\ c \notin newChannels'
      BY <1>1, <1>2, <1>5, <2>2 DEF Stage
    <3>9. PassedBy(c)' BY <3>8 DEF PassedBy
    <3>10. QED BY <1>5, <3>7, <3>8, <3>9 DEF Stage
  <2>3. QED BY <2>1, <2>2
<1>6. QED BY <1>4, <1>5

(* The steps after it, up to the change of the swings.                     *)
LEMMA PrepMoves ==
  ASSUME TypeOK, NEW c \in Channels, Stage(c), main \in Prep,
         main = "add" => todo = {} /\ adding = "none",
         main' \in {"ready", "readyStore", "switch"},
         UNCHANGED <<Own(c), Lists, radarActive>>,
         UNCHANGED <<activeSwing, nextSwing, transmitting>>
  PROVE  Stage(c)'
<1> USE DEF Own, Lists
<1>1. ASSUME c \in newChannels PROVE Waiting(c)'
  <2>1. Waiting(c) BY <1>1 DEF Stage
  <2>2. pc[c] = "readywait" => WaitsRight(c)'
    BY <1>1, <2>1 DEF Waiting, WaitsRight, Rest, Fires, Prep
  <2>3. QED BY <2>1, <2>2, OwnKept
<1>2. c \notin channels \cup newChannels => Absent(c)'
  BY OwnKept DEF Stage
<1>3. PassedBy(c)'
  BY DEF PassedBy
<1>4. ASSUME c \in channels PROVE Present(c)'
  <2>1. ~Leaves(c)
    BY DEF Leaves, At, Prep
  <2>2. Fired(c) => Fired(c)'
    BY DEF Fired, At, Prep, First1, Began, NoResults, Gone, Owes, Remaining,
       Camping, Fetch, Pending, One, Filled, IsLastPeriod, lastSwing
  <2>3. ASSUME NEW x \in Swing PROVE Missed(c, x) => Missed(c, x)'
    <3>1. ~(main = "add" /\ (c \in todo \/ adding = c))
      OBVIOUS
    <3>2. QED
      BY <3>1 DEF Missed, At, Prep, First1, Began, NoResults, Gone,
         IsLastPeriod, Camping, Fetch
  <2>4. Running(c) => Running(c)'
    BY TurnKept DEF Running, At, Rest, Prep, Going, Began, lastSwing
  <2>5. QED BY <1>4, <2>1, <2>2, <2>3, <2>4, AtAdd DEF Present
<1>5. QED BY <1>1, <1>2, <1>3, <1>4 DEF Stage

LEMMA SwitchMoves ==
  ASSUME TypeOK, NEW c \in Channels, Stage(c), Switch
  PROVE  Stage(c)'
<1> USE DEF lists, flags, handler, chan
<1>1. /\ main = "switch" /\ main' = "autotrigger"
      /\ activeSwing' = processingSwing /\ processingSwing' = activeSwing
      /\ UNCHANGED <<Own(c), Lists, radarActive, nextSwing, transmitting>>
  BY DEF Switch, Own, Lists, TypeOK, TypeSwings
<1> USE DEF Own, Lists
<1>2. ASSUME c \in newChannels PROVE Waiting(c)'
  <2>1. Waiting(c) BY <1>2 DEF Stage
  <2>2. pc[c] = "readywait" => WaitsRight(c)'
    BY <1>1, <2>1 DEF Waiting, WaitsRight, Rest, Fires, Prep
  <2>3. QED BY <1>1, <2>1, <2>2, OwnKept
<1>3. c \notin channels \cup newChannels => Absent(c)'
  BY <1>1, OwnKept DEF Stage
<1>4. PassedBy(c)'
  BY <1>1 DEF PassedBy
<1>5. ASSUME c \in channels PROVE Present(c)'
  <2>1. ~Leaves(c)
    BY <1>1 DEF Leaves, At
  <2>2. Fired(c) => Fired(c)'
    BY <1>1 DEF Fired, At, Prep, First1, Began, NoResults, Gone, Owes,
       Remaining, Camping, Fetch, Pending, One, Filled, IsLastPeriod, lastSwing
  <2>3. ASSUME NEW x \in Swing PROVE Missed(c, x) => Missed(c, x)'
    BY <1>1 DEF Missed, At, Prep, First1, Began, NoResults, Gone,
       IsLastPeriod, Camping, Fetch
  <2>4. Running(c) => Running(c)'
    BY <1>1, TurnKept DEF Running, At, Rest, Prep, Going, Began, lastSwing
  <2>5. QED BY <1>1, <1>5, <2>1, <2>2, <2>3, <2>4, AtAdd DEF Present, Prep
<1>6. QED BY <1>1, <1>2, <1>3, <1>4, <1>5 DEF Stage
(* The second period is triggered without a SET_READY.                     *)
LEMMA AutoTriggerEffect ==
  ASSUME TypeOK, NEW c \in Channels, AutoTrigger
  PROVE  LET second == /\ c \in channels /\ transmitting[Rnum[c]]
                       /\ scan[c].first
         IN  /\ ~second => UNCHANGED Own(c)
             /\ second =>
                  /\ state'[c] = [state[c] EXCEPT ![activeSwing] = TRIGGER]
                  /\ triggered'[c] = <<nextSwing>> \o triggered[c]
                  /\ scan'[c] = [scan[c] EXCEPT !.first = FALSE]
<1> USE DEF handler
<1> DEFINE S == AutoTriggered
<1>1. /\ state' = PutSwing(state, S, activeSwing, TRIGGER)
      /\ triggered' = [d \in Channels |-> IF d \in S
                         THEN <<nextSwing>> \o triggered[d] ELSE triggered[d]]
      /\ scan' = [d \in Channels |-> IF d \in S
                    THEN [scan[d] EXCEPT !.first = FALSE] ELSE scan[d]]
      /\ UNCHANGED <<nextState, results, active, pc, wait, sent, left>>
  BY DEF AutoTrigger
<1>2. c \in S <=> /\ c \in channels /\ transmitting[Rnum[c]]
                  /\ scan[c].first
  BY DEF AutoTriggered
<1> HIDE DEF S
<1>3. state \in [Channels -> [Swing -> ChannelState]]
  BY DEF TypeOK, TypeChan
<1>4. state'[c] = IF c \in S THEN [state[c] EXCEPT ![activeSwing] = TRIGGER]
                             ELSE state[c]
  BY <1>1, <1>3 DEF PutSwing
<1>5. /\ triggered'[c] = IF c \in S THEN <<nextSwing>> \o triggered[c]
                                    ELSE triggered[c]
      /\ scan'[c] = IF c \in S THEN [scan[c] EXCEPT !.first = FALSE]
                               ELSE scan[c]
  BY <1>1
<1>6. QED BY <1>1, <1>2, <1>4, <1>5 DEF Own

LEMMA AutoTriggerMoves ==
  ASSUME TypeOK, Aligned, NEW c \in Channels, Stage(c), AutoTrigger
  PROVE  Stage(c)'
<1> USE DEF lists, flags, swings, handler
<1>1. /\ main = "autotrigger" /\ main' = "end"
      /\ UNCHANGED <<Lists, radarActive, activeSwing, nextSwing,
                     transmitting, todo, adding>>
      /\ UNCHANGED <<nextState, pc, wait, results, sent, left>>
  BY DEF AutoTrigger, Lists
<1> DEFINE second == /\ c \in channels /\ transmitting[Rnum[c]]
                     /\ scan[c].first
<1>2. /\ ~second => UNCHANGED Own(c)
      /\ second =>
           /\ state'[c] = [state[c] EXCEPT ![activeSwing] = TRIGGER]
           /\ triggered'[c] = <<nextSwing>> \o triggered[c]
           /\ scan'[c] = [scan[c] EXCEPT !.first = FALSE]
  BY AutoTriggerEffect
<1>3. /\ activeSwing \in Swing /\ nextSwing \in Swing /\ lastSwing \in Swing
      /\ state \in [Channels -> [Swing -> ChannelState]] /\ scan[c] \in Scan
      /\ Rnum[c] \in Radars /\ triggered[c] \in Seq(Swing)
  BY DEF TypeOK, TypeSwings, TypeChan, lastSwing
<1>4. ASSUME c \in newChannels PROVE Waiting(c)'
  <2>1. Waiting(c) /\ c \notin channels BY <1>4 DEF Stage
  <2>2. pc[c] = "readywait" => WaitsRight(c)'
    BY <1>1, <2>1 DEF Waiting, WaitsRight, Rest, Fires, Prep
  <2>3. QED BY <1>2, <2>1, <2>2, OwnKept
<1>5. c \notin channels \cup newChannels => Absent(c)'
  BY <1>2, OwnKept DEF Stage
<1>6. PassedBy(c)'
  BY <1>1 DEF PassedBy
<1>7. ASSUME c \in channels PROVE Present(c)'
  <2>1. Fired(c) \/ (\E x \in Swing : Missed(c, x)) \/ Running(c)
    <3>1. /\ ~Fresh(c) /\ ~Primed(c) /\ ~Lost(c) /\ ~Shot(c) /\ ~Leaves(c)
      BY <1>1 DEF Fresh, Primed, Lost, Shot, Leaves, At, Rest, Fires
    <3>2. QED BY <1>7, <3>1 DEF Stage, Present
  <2>2. ASSUME Fired(c) PROVE Running(c)'
    <3>1. /\ First1(c) /\ transmitting[Rnum[c]] /\ radarActive[Rnum[c]]
          /\ state[c][lastSwing] = PROCESSING /\ Pending(c, lastSwing)
          /\ Gone(c) \/ (Fetch(c, <<lastSwing>>) /\ Owes(c, Remaining(c)))
      BY <1>1, <2>2 DEF Fired
    <3>2. nextSwing = activeSwing /\ lastSwing # activeSwing
      BY <1>1, <1>3, <3>1 DEF Aligned, lastSwing
    <3>3. second
      BY <1>7, <3>1 DEF First1
    <3>4. /\ state'[c][nextSwing] = TRIGGER
          /\ state'[c][lastSwing] = PROCESSING
      BY <1>2, <1>3, <3>1, <3>2, <3>3
    <3>5. /\ Going(c)' /\ scan'[c].period = scan[c].period
          /\ scan'[c].len = scan[c].len
      BY <1>2, <1>3, <3>1, <3>3 DEF First1, Going, Began, Scan
    <3>6. lastSwing' = lastSwing
      BY <1>1 DEF lastSwing
    <3>7. Pending(c, lastSwing)'
      BY <1>1, <3>1, <3>5, <3>6 DEF Pending, One, Filled, NoResults,
         IsLastPeriod, Camping
    <3>8. Fetch(c, <<lastSwing>>) => Fetch(c, <<nextSwing, lastSwing>>)'
      <4>1. /\ Last(<<lastSwing>>) = lastSwing /\ Front(<<lastSwing>>) = <<>>
            /\ Last(<<nextSwing, lastSwing>>) = lastSwing
            /\ Front(<<nextSwing, lastSwing>>) = <<nextSwing>>
        <5>1. nextSwing \in Swing /\ lastSwing \in Swing
          BY <1>3
        <5>2. /\ Last(<<lastSwing>>) = lastSwing
              /\ Front(<<lastSwing>>) = <<>>
          BY ONLY <5>1, OneElement
        <5>3. /\ Last(<<nextSwing, lastSwing>>) = lastSwing
              /\ Front(<<nextSwing, lastSwing>>) = <<nextSwing>>
          BY ONLY <5>1, PairEnds
        <5>4. QED BY <5>2, <5>3
      <4>2. /\ <<nextSwing>> \o <<>> = <<nextSwing>>
            /\ <<nextSwing>> \o <<lastSwing>> = <<nextSwing, lastSwing>>
        <5>5. nextSwing \in Swing /\ lastSwing \in Swing
          BY <1>3
        <5>1. <<nextSwing>> \o <<lastSwing>> = <<nextSwing, lastSwing>>
          BY ONLY <5>5, JoinPair
        <5>2. \A x \in Swing : <<x>> \in Seq(Swing)
          OBVIOUS
        <5>3. <<nextSwing>> \o <<>> = <<nextSwing>>
          BY <1>3, <5>2, ConcatEmptySeq
        <5>4. QED BY <5>1, <5>3
      <4>3. UNCHANGED <<nextSwing, lastSwing>>
        BY <1>1, <3>6
      <4>4. triggered'[c] = <<nextSwing>> \o triggered[c]
        BY <1>2, <3>3
      <4>5. CASE pc[c] = "getdata" /\ triggered[c] = <<lastSwing>>
        <5>1. triggered'[c] = <<nextSwing, lastSwing>>
          BY <1>3, <4>2, <4>4, <4>5
        <5>2. QED BY <1>1, <4>3, <4>5, <5>1 DEF Fetch
      <4>6. CASE /\ pc[c] = "datawait" /\ wait[c] = Last(<<lastSwing>>)
                 /\ triggered[c] = Front(<<lastSwing>>)
        <5>1. triggered'[c] = <<nextSwing>> /\ wait[c] = lastSwing
          BY <4>1, <4>2, <4>4, <4>6
        <5>2. QED BY <1>1, <4>1, <4>3, <4>6, <5>1 DEF Fetch
      <4>7. QED BY <4>5, <4>6 DEF Fetch
    <3>9. Owes(c, Remaining(c)) => Owes(c, Remaining(c))'
      BY <1>1, <3>5 DEF Owes, Remaining, Camping
    <3>10. Triggered(c)'
      BY <1>1, <3>1, <3>4, <3>6, <3>7, <3>8, <3>9 DEF Triggered, Gone
    <3>11. QED
      BY <1>1, <3>1, <3>2, <3>4, <3>5, <3>6, <3>10 DEF Running, At, Rest, Prep
  <2>3. ASSUME NEW x \in Swing, Missed(c, x) PROVE Lost(c)'
    <3>1. /\ First1(c) /\ ~transmitting[Rnum[c]] /\ NoResults(c)
          /\ x = processingSwing /\ 1 - x = activeSwing
          /\ state[c][x] = TRIGGER /\ state[c][1 - x] \in {INACTIVE, READY}
          /\ state[c][1 - x] = READY \/ IsLastPeriod(scan[c])
          /\ Gone(c) \/ Fetch(c, <<x>>)
      BY <1>1, <1>3, <2>3 DEF Missed
    <3>2. UNCHANGED Own(c)
      BY <1>2, <3>1
    <3>3. QED
      BY <1>1, <3>1, <3>2 DEF Lost, At, Rest, First1, Began, NoResults,
         Gone, Fetch, IsLastPeriod, Camping, Own
  <2>4. ASSUME Running(c) PROVE Running(c)'
    <3>1. UNCHANGED <<Own(c), nextSwing>>
      BY <1>1, <1>2, <2>4 DEF Running, Going
    <3>2. QED
      BY <1>1, <2>4, <3>1, TurnKept DEF Running, At, Rest, Prep, Going,
         Began, lastSwing, Own
  <2>5. QED BY <2>1, <2>2, <2>3, <2>4 DEF Present
<1>8. active'[c] = active[c]
  BY <1>1 DEF Lists
<1>9. QED BY <1>1, <1>4, <1>5, <1>6, <1>7, <1>8 DEF Stage, Lists

LEMMA EndMoves ==
  ASSUME TypeOK, NEW c \in Channels, Stage(c), End
  PROVE  Stage(c)'
<1> USE DEF lists, swings, handler, chan, Own, Lists
<1>1. /\ main = "end" /\ main' = "loop"
      /\ UNCHANGED <<Own(c), Lists, radarActive, activeSwing, nextSwing,
                     transmitting>>
  BY DEF End
<1>2. ASSUME c \in newChannels PROVE Waiting(c)'
  <2>1. Waiting(c) BY <1>2 DEF Stage
  <2>2. pc[c] = "readywait" => WaitsRight(c)'
    BY <1>1, <2>1 DEF Waiting, WaitsRight, Rest, Fires, Prep
  <2>3. QED BY <1>1, <2>1, <2>2, OwnKept
<1>3. c \notin channels \cup newChannels => Absent(c)'
  BY <1>1, OwnKept DEF Stage
<1>4. PassedBy(c)'
  BY <1>1 DEF PassedBy
<1>5. ASSUME c \in channels PROVE Present(c)'
  <2>1. /\ ~Fresh(c) /\ ~Primed(c) /\ ~Fired(c) /\ ~Shot(c) /\ ~Leaves(c)
        /\ \A x \in Swing : ~Missed(c, x)
    BY <1>1 DEF Fresh, Primed, Fired, Missed, Shot, Leaves, At, Rest, Fires,
       Prep
  <2>2. Lost(c) => Lost(c)'
    BY <1>1 DEF Lost, At, Rest, Fires, First1, Began, NoResults, Gone,
       IsLastPeriod, Camping, Fetch
  <2>3. Running(c) => Running(c)'
    BY <1>1, TurnKept DEF Running, At, Rest, Prep, Going, Began, lastSwing
  <2>4. QED BY <1>5, <2>1, <2>2, <2>3 DEF Stage, Present
<1>6. QED BY <1>1, <1>2, <1>3, <1>4, <1>5 DEF Stage

(* The new channels are initialised.                                       *)
LEMMA InitEndMoves ==
  ASSUME TypeOK, Aligned, NEW c \in Channels, Stage(c), InitEnd
  PROVE  Stage(c)'
<1> USE DEF swings, handler
<1>1. /\ main = "initSend" /\ main' \in {"check", "crashed"}
      /\ UNCHANGED <<nextState, pc, wait, triggered, results, sent, scan,
                     left, active>>
      /\ UNCHANGED <<radarActive, activeSwing, nextSwing, transmitting, adding>>
  BY DEF InitEnd, flags
<1>2. newChannels \subseteq todo
  BY <1>1 DEF Aligned
<1>3. CASE main' = "crashed"
  <2>1. UNCHANGED <<state, channels, newChannels>>
    BY <1>3 DEF InitEnd
  <2>2. UNCHANGED <<Own(c), Lists>>
    BY <1>1, <2>1 DEF Own, Lists
  <2>3. QED BY <1>1, <1>3, <2>2, CrashMoves
<1>4. CASE main' = "check"
  <2> DEFINE S == {d \in todo : state[d][activeSwing] = INACTIVE}
  <2>1. /\ channels' = channels \cup newChannels /\ newChannels' = {}
        /\ todo = newChannels
        /\ state' = PutSwing(state, S, activeSwing, READY)
    <3>1. main' # "crashed" BY <1>4
    <3>2. todo \subseteq newChannels
      BY <3>1 DEF InitEnd
    <3>3. QED BY <1>2, <3>2 DEF InitEnd
  <2>2. /\ state \in [Channels -> [Swing -> ChannelState]]
        /\ activeSwing \in Swing
    BY DEF TypeOK, TypeChan, TypeSwings
  <2>3. c \in S <=> c \in newChannels /\ state[c][activeSwing] = INACTIVE
    BY <2>1
  <2> HIDE DEF S
  <2>4. state'[c] = IF c \in S THEN [state[c] EXCEPT ![activeSwing] = READY]
                               ELSE state[c]
    BY <2>1, <2>2 DEF PutSwing
  <2>5. CASE c \in newChannels
    <3>1. Waiting(c) /\ active[c] /\ c \notin channels
      BY <2>5 DEF Stage
    <3>2. /\ state'[c][activeSwing] = READY
          /\ state'[c][processingSwing] = INACTIVE
      BY <2>2, <2>3, <2>4, <2>5, <3>1 DEF Waiting, BothInactive
    <3>3. Fresh(c)'
      BY <1>1, <1>4, <3>1, <3>2 DEF Fresh, Waiting, At, Rest, Start1, Began,
         NoResults, Gone, Leaving, Owes, Remaining, Camping, WaitsRight
    <3>4. pc[c] \notin {"deregister", "gone"}
      BY <3>1 DEF Waiting
    <3>5. QED
      BY <1>1, <1>4, <2>1, <2>5, <3>1, <3>3, <3>4 DEF Stage, Present, PassedBy
  <2>6. CASE c \notin newChannels
    <3>1. UNCHANGED Own(c)
      BY <1>1, <2>3, <2>4, <2>6 DEF Own
    <3>2. QED
      BY <1>1, <1>4, <2>1, <2>6, <3>1, RestMoves DEF Rest
  <2>7. QED BY <2>5, <2>6
<1>5. QED BY <1>1, <1>3, <1>4
----------------------------------------------------------------------------
(* So the main thread keeps every channel at a stage.                      *)
LEMMA MainStages ==
  ASSUME TypeOK, Stages, Aligned, Counted, Main
  PROVE  Stages'
<1> SUFFICES ASSUME NEW c \in Channels PROVE Stage(c)'
  BY DEF Stages
<1>1. Stage(c)
  BY DEF Stages
<1>2. CASE \/ NoticeNew \/ NothingNew \/ AwaitSetPar \/ LoopAgain
           \/ \E d \in Channels : AwaitActive(d)
  <2>1. /\ UNCHANGED <<Own(c), channels, newChannels, radarActive>>
        /\ UNCHANGED <<activeSwing, nextSwing, transmitting>>
    BY <1>2 DEF NoticeNew, NothingNew, AwaitSetPar, LoopAgain, AwaitActive,
       Own, swings, lists, flags, handler, chan
  <2>2. /\ main \in Rest /\ main' \in Rest
        /\ main' = "check" => c \notin newChannels
    BY <1>2 DEF NoticeNew, NothingNew, AwaitSetPar, LoopAgain, AwaitActive,
       Rest
  <2>3. QED BY <1>1, <2>1, <2>2, RestMoves
<1>3. CASE InitStart
  <2>1. /\ UNCHANGED <<Own(c), channels, newChannels, active, radarActive>>
        /\ UNCHANGED <<activeSwing, nextSwing, transmitting>>
        /\ main = "initialize" /\ main' \in {"initSend", "crashed"}
    BY <1>3 DEF InitStart, Own, swings, lists, flags, handler
  <2>2. CASE main' = "crashed"
    BY <1>1, <2>1, <2>2, CrashMoves DEF Lists
  <2>3. CASE main' = "initSend"
    BY <1>1, <2>1, <2>3, RestMoves DEF Rest
  <2>4. QED BY <2>1, <2>2, <2>3
<1>4. CASE InitEnd BY <1>1, <1>4, InitEndMoves
<1>5. CASE Arm
  BY <1>5, ArmMoves DEF Stages
<1>6. CASE Start BY <1>1, <1>6, StartMoves
<1>7. CASE Setup BY <1>1, <1>7, SetupMoves
<1>8. CASE Fire BY <1>1, <1>8, FireMoves
<1>9. CASE Collect BY <1>1, <1>9, CollectMoves
<1>10. CASE Finish BY <1>1, <1>10, FinishMoves
<1>11. CASE \E d \in Channels : \/ AddLast(d) \/ AddNotActive(d)
                                \/ AddUpdate(d) \/ AddSend(d)
  BY <1>11, AddLastMoves, AddNotActiveMoves, AddUpdateMoves, AddSendMoves
<1>12. CASE Generate \/ ReadyClear \/ ReadyStore
  <2>1. /\ UNCHANGED <<Own(c), Lists, radarActive>>
        /\ UNCHANGED <<activeSwing, nextSwing, transmitting>>
        /\ main \in Prep /\ main' \in {"ready", "readyStore", "switch"}
        /\ main = "add" => todo = {} /\ adding = "none"
    BY <1>12 DEF Generate, ReadyClear, ReadyStore, Own, Lists, swings, lists,
       flags, handler, chan, Prep
  <2>2. QED BY <1>1, <2>1, PrepMoves
<1>13. CASE Switch BY <1>1, <1>13, SwitchMoves
<1>14. CASE AutoTrigger BY <1>1, <1>14, AutoTriggerMoves
<1>15. CASE End BY <1>1, <1>15, EndMoves
<1>16. QED
  BY <1>2, <1>3, <1>4, <1>5, <1>6, <1>7, <1>8, <1>9, <1>10, <1>11, <1>12,
     <1>13, <1>14, <1>15 DEF Main
----------------------------------------------------------------------------
(* How the two swings, the flag of the trigger and the list of the loop    *)
(* stay in step with the main thread.                                      *)
LEMMA AlignedHandler ==
  ASSUME TypeOK, SetParExclusion, Aligned, NEW c \in Channels, Handler(c)
  PROVE  Aligned'
<1>1. UNCHANGED <<rhm, swings>>
  <2>1. CASE \/ SetActive(c) \/ AwaitTriggerEnd(c) \/ StartScan(c)
             \/ StoreParameters(c) \/ TakeParameters(c) \/ Register(c)
             \/ CompareParameters(c) \/ SetReady(c)
    BY <2>1 DEF SetActive, AwaitTriggerEnd, StartScan, StoreParameters,
       TakeParameters, Register, CompareParameters, SetReady
  <2>2. CASE \/ TriggerSwing(c) \/ GetData(c) \/ SendResults(c)
             \/ EndGetData(c) \/ SetInactive(c) \/ Quit(c)
             \/ LoseConnection(c) \/ AwaitTrigger(c) \/ Unlist(c)
             \/ EndQuit(c)
    BY <2>2 DEF TriggerSwing, GetData, SendResults, EndGetData, SetInactive,
       Quit, LoseConnection, AwaitTrigger, Unlist, EndQuit
  <2>3. QED BY <2>1, <2>2 DEF Handler, Serve
<1>2. main = "initSend" => newChannels' \subseteq newChannels
  <2>1. CASE Register(c)
    <3>1. setPar = c /\ c # "main"
      BY <2>1 DEF Register, SetParExclusion
    <3>2. QED BY <3>1 DEF SetParExclusion
  <2>2. CASE Unlist(c) BY <2>2 DEF Unlist
  <2>3. CASE \/ SetActive(c) \/ AwaitTriggerEnd(c) \/ StartScan(c)
             \/ StoreParameters(c) \/ TakeParameters(c)
             \/ CompareParameters(c) \/ SetReady(c) \/ TriggerSwing(c)
    BY <2>3 DEF SetActive, AwaitTriggerEnd, StartScan, StoreParameters,
       TakeParameters, CompareParameters, SetReady, TriggerSwing, lists
  <2>4. CASE \/ GetData(c) \/ SendResults(c) \/ EndGetData(c)
             \/ SetInactive(c) \/ Quit(c) \/ LoseConnection(c)
             \/ AwaitTrigger(c) \/ EndQuit(c)
    BY <2>4 DEF GetData, SendResults, EndGetData, SetInactive, Quit,
       LoseConnection, AwaitTrigger, EndQuit, lists
  <2>5. QED BY <2>1, <2>2, <2>3, <2>4 DEF Handler, Serve
<1>3. QED BY <1>1, <1>2 DEF Aligned, rhm, swings

LEMMA AlignedMain ==
  ASSUME TypeOK, Stages, Aligned, Main
  PROVE  Aligned'
<1> USE DEF Aligned, swings, Fires, Prep
<1>1. CASE NoticeNew \/ NothingNew \/ AwaitSetPar \/ LoopAgain
  BY <1>1 DEF NoticeNew, NothingNew, AwaitSetPar, LoopAgain
<1>2. CASE InitStart \/ InitEnd
  BY <1>2 DEF InitStart, InitEnd, lists
<1>3. CASE Arm
  <2>1. nextSwing = activeSwing BY <1>3, ArmMoves
  <2>2. QED BY <1>3, <2>1 DEF Arm
<1>4. CASE Start
  BY <1>4 DEF Start
<1>5. CASE Setup
  <2>1. /\ main = "setup" /\ main' = "fire" /\ activeSwing' = activeSwing
        /\ UNCHANGED <<triggerRunning, adding>>
    BY <1>5 DEF Setup
  <2>2. (\E r \in Radars : transmitting'[r]) => nextSwing' = processingSwing
    BY <1>5 DEF Setup, ActiveRadars
  <2>3. QED BY <2>1, <2>2
<1>6. CASE Fire \/ Collect \/ Finish
  BY <1>6 DEF Fire, Collect, Finish
<1>7. CASE \E c \in Channels : AddLast(c) \/ AddNotActive(c) \/ AddSend(c)
  BY <1>7 DEF AddLast, AddNotActive, AddSend
<1>8. CASE \E c \in Channels : AddUpdate(c)
  BY <1>8 DEF AddUpdate
<1>9. CASE Generate \/ ReadyClear \/ ReadyStore
  BY <1>9 DEF Generate, ReadyClear, ReadyStore
<1>10. CASE Switch
  BY <1>10 DEF Switch
<1>11. CASE AutoTrigger \/ End
  BY <1>11 DEF AutoTrigger, End
<1>12. CASE \E c \in Channels : AwaitActive(c)
  BY <1>12 DEF AwaitActive
<1>13. QED
  BY <1>1, <1>2, <1>3, <1>4, <1>5, <1>6, <1>7, <1>8, <1>9, <1>10, <1>11,
     <1>12 DEF Main
----------------------------------------------------------------------------
(* The number of registered channels, and their common parameters.         *)
LEMMA RegisteredFinite ==
  ASSUME TypeOK
  PROVE  /\ Registered \subseteq Channels /\ IsFiniteSet(Registered)
         /\ Cardinality(Registered) \in Nat /\ nRegistered \in Nat
<1>1. Registered \subseteq Channels
  BY DEF Registered, TypeOK, TypeLists
<1>2. IsFiniteSet(Registered)
  BY <1>1, FS_Subset
<1>3. QED BY <1>1, <1>2, FS_CardinalityType DEF TypeOK, TypeLists

LEMMA CountSame ==
  ASSUME TypeOK, Counted, UNCHANGED <<nRegistered, commonPar>>,
         Registered' = Registered
  PROVE  Counted'
BY DEF Counted

(* A registered channel is removed and counted down.                       *)
LEMMA CountRemoved ==
  ASSUME TypeOK, Counted, NEW c \in Registered, Deregister(TRUE),
         Registered' = Registered \ {c}
  PROVE  Counted'
<1>1. /\ IsFiniteSet(Registered) /\ Cardinality(Registered) \in Nat
      /\ nRegistered \in Nat
  BY RegisteredFinite
<1>2. Cardinality(Registered \ {c}) = Cardinality(Registered) - 1
  BY <1>1, FS_RemoveElement
<1>3. /\ IsFiniteSet(Registered \ {c}) /\ Cardinality(Registered \ {c}) \in Nat
  BY <1>1, FS_RemoveElement, FS_CardinalityType
<1>4. /\ nRegistered >= Cardinality(Registered)
      /\ MayLeave = {} => nRegistered = Cardinality(Registered)
      /\ \A d \in Registered : commonPar = Par[d]
  BY DEF Counted
<1> DEFINE n == Cardinality(Registered)
           m == Cardinality(Registered \ {c})
<1>5. Cardinality(Registered') = m
  OBVIOUS
<1>6. /\ nRegistered' = IF nRegistered <= 1 THEN 0 ELSE nRegistered - 1
      /\ commonPar' = IF nRegistered <= 1 THEN None ELSE commonPar
  BY DEF Deregister
<1>7. /\ m = n - 1 /\ m \in Nat /\ n \in Nat /\ nRegistered >= n
      /\ MayLeave = {} => nRegistered = n
  BY <1>1, <1>2, <1>3, <1>4
<1>8. nRegistered <= 1 => Registered \ {c} = {}
  <2>1. nRegistered <= 1 => m = 0
    BY <1>1, <1>7
  <2>2. QED BY <1>3, <2>1, FS_EmptySet
<1> HIDE DEF n, m
<1>9. nRegistered' >= m /\ (MayLeave = {} => nRegistered' = m)
  BY <1>1, <1>6, <1>7
<1>10. \A d \in Registered' : commonPar' = Par[d]
  BY <1>4, <1>6, <1>8
<1>11. QED BY <1>5, <1>9, <1>10 DEF Counted

(* A channel passed the compatibility check.                               *)
LEMMA CountAdded ==
  ASSUME TypeOK, Counted, NEW c \in Channels, c \notin Registered,
         Registered' = Registered \cup {c}, commonPar' = Par[c],
         First \/ commonPar = Par[c],
         nRegistered' = IF First THEN 1 ELSE nRegistered + 1
  PROVE  Counted'
<1>1. /\ IsFiniteSet(Registered) /\ Cardinality(Registered) \in Nat
      /\ nRegistered \in Nat /\ Registered \subseteq Channels
  BY RegisteredFinite
<1>2. Cardinality(Registered \cup {c}) = Cardinality(Registered) + 1
  BY <1>1, FS_AddElement
<1>3. /\ nRegistered >= Cardinality(Registered)
      /\ MayLeave = {} => nRegistered = Cardinality(Registered)
      /\ \A d \in Registered : commonPar = Par[d]
  BY DEF Counted
<1>4. First => Registered = {}
  <2>1. commonPar = None => Registered = {}
    BY <1>1, <1>3, ParAssumption
  <2>2. nRegistered <= 0 => Cardinality(Registered) = 0
    BY <1>1, <1>3
  <2>3. nRegistered <= 0 => Registered = {}
    BY <1>1, <2>2, FS_EmptySet
  <2>4. QED BY <2>1, <2>3 DEF First
<1>5. First => Cardinality(Registered) = 0
  BY <1>4, FS_EmptySet
<1> DEFINE n == Cardinality(Registered)
           m == Cardinality(Registered \cup {c})
<1>6. /\ n \in Nat /\ m = n + 1 /\ nRegistered >= n
      /\ MayLeave = {} => nRegistered = n
      /\ First => n = 0
  BY <1>1, <1>2, <1>3, <1>5
<1>7. Cardinality(Registered') = m
  OBVIOUS
<1> HIDE DEF n, m
<1>8. nRegistered' >= m /\ (MayLeave = {} => nRegistered' = m)
  BY <1>1, <1>6
<1>9. \A d \in Registered' : commonPar' = Par[d]
  BY <1>3, <1>4
<1>10. QED BY <1>7, <1>8, <1>9 DEF Counted

(* One that waited in newChannelList leaves without being counted down.    *)
LEMMA CountForgotten ==
  ASSUME TypeOK, Counted, NEW c \in Registered, MayLeave # {},
         UNCHANGED <<nRegistered, commonPar>>, Registered' = Registered \ {c}
  PROVE  Counted'
<1>1. /\ IsFiniteSet(Registered) /\ Cardinality(Registered) \in Nat
      /\ nRegistered \in Nat
  BY RegisteredFinite
<1>2. Cardinality(Registered \ {c}) = Cardinality(Registered) - 1
  BY <1>1, FS_RemoveElement
<1>3. /\ nRegistered >= Cardinality(Registered)
      /\ \A d \in Registered : commonPar = Par[d]
  BY DEF Counted
<1>4. Cardinality(Registered') = Cardinality(Registered) - 1
  BY <1>2
<1>5. nRegistered' >= Cardinality(Registered')
  BY <1>1, <1>3, <1>4
<1>6. QED BY <1>3, <1>5 DEF Counted
(* The registered channels, when one step moves a channel c on.            *)
LEMMA RegisteredKept ==
  ASSUME TypeOK, NEW c \in Channels, \A d \in Channels \ {c} : pc'[d] = pc[d],
         pc[c] # "deregister", pc'[c] # "deregister",
         channels' \cup newChannels' = channels \cup newChannels
  PROVE  Registered' = Registered
<1>1. \A d \in Channels : pc'[d] = "deregister" <=> pc[d] = "deregister"
  OBVIOUS
<1>2. QED BY <1>1 DEF Registered

LEMMA RegisteredWithout ==
  ASSUME TypeOK, NEW c \in Channels, \A d \in Channels \ {c} : pc'[d] = pc[d],
         pc'[c] # "deregister", c \notin channels' \cup newChannels',
         channels' \cup newChannels' = (channels \cup newChannels) \ {c}
  PROVE  Registered' = Registered \ {c}
<1>1. \A d \in Channels : pc'[d] = "deregister" <=>
                            pc[d] = "deregister" /\ d # c
  OBVIOUS
<1>2. Registered' = (channels' \cup newChannels')
                      \cup {d \in Channels : pc'[d] = "deregister"}
  BY DEF Registered
<1>3. {d \in Channels : pc'[d] = "deregister"}
        = {d \in Channels : pc[d] = "deregister"} \ {c}
  BY <1>1
<1>4. QED BY <1>2, <1>3 DEF Registered

LEMMA OthersAt ==
  ASSUME TypeOK, NEW c \in Channels, Handler(c)
  PROVE  \A d \in Channels \ {c} : pc'[d] = pc[d]
<1> SUFFICES ASSUME NEW d \in Channels, d # c PROVE pc'[d] = pc[d]
  OBVIOUS
<1>1. UNCHANGED Own(d)
  BY HandlerElsewhere
<1>2. QED BY <1>1 DEF Own

LEMMA CountedHandler ==
  ASSUME MayStop = {}, TypeOK, Stages, Counted, NEW c \in Channels, Handler(c)
  PROVE  Counted'
<1> USE DEF Goto, TypeHandler
<1>1. Stage(c) /\ pc \in [Channels -> HandlerPoint]
  BY DEF Stages, TypeOK
<1>2. \A d \in Channels \ {c} : pc'[d] = pc[d]
  BY OthersAt
<1>3. CASE Register(c)
  <2>1. /\ c \notin channels \cup newChannels /\ pc[c] = "parwait"
        /\ channels' = channels
    BY <1>1, <1>3, RegisterStage DEF Register
  <2>2. c \notin Registered
    BY <2>1 DEF Registered
  <2>3. CASE First \/ commonPar = Par[c]
    <3>1. /\ commonPar' = Par[c] /\ newChannels' = newChannels \cup {c}
          /\ nRegistered' = IF First THEN 1 ELSE nRegistered + 1
          /\ pc'[c] = "ready"
      BY <1>1, <1>3, <2>1, <2>3 DEF Register
    <3>2. \A d \in Channels : pc'[d] = "deregister" <=> pc[d] = "deregister"
      BY <1>2, <2>1, <3>1
    <3>3. Registered' = Registered \cup {c}
      BY <2>1, <3>1, <3>2 DEF Registered
    <3>4. QED BY <2>2, <2>3, <3>1, <3>3, CountAdded
  <2>4. CASE ~(First \/ commonPar = Par[c])
    <3>1. /\ UNCHANGED <<newChannels, nRegistered, commonPar>>
          /\ pc'[c] = "quit"
      BY <1>1, <1>3, <2>4 DEF Register
    <3>2. Registered' = Registered
      BY <1>2, <2>1, <3>1, RegisteredKept
    <3>3. QED BY <3>1, <3>2, CountSame
  <2>5. QED BY <2>3, <2>4
<1>4. CASE SetInactive(c)
  <2>1. /\ pc[c] = "inactive" /\ pc'[c] = "idle" /\ channels' = channels \ {c}
        /\ newChannels' = newChannels /\ Deregister(c \in channels)
    BY <1>1, <1>4 DEF SetInactive
  <2>2. c \notin newChannels
    BY <1>1, <2>1 DEF Stage, Waiting
  <2>3. Registered' = Registered \ {c}
    <3>1. channels' \cup newChannels' = (channels \cup newChannels) \ {c}
      BY <2>1, <2>2
    <3>2. c \notin channels' \cup newChannels'
      BY <3>1
    <3>3. QED BY <1>2, <2>1, <3>1, <3>2, RegisteredWithout
  <2>4. CASE c \in channels
    <3>1. c \in Registered /\ Deregister(TRUE)
      BY <2>1, <2>4 DEF Registered, Deregister
    <3>2. QED BY <2>3, <3>1, CountRemoved
  <2>5. CASE c \notin channels
    <3>1. c \notin Registered
      BY <2>1, <2>2, <2>5 DEF Registered
    <3>2. Registered' = Registered
      BY <2>3, <3>1
    <3>3. UNCHANGED <<nRegistered, commonPar>>
      BY <2>1, <2>5 DEF Deregister, TypeOK, TypeLists
    <3>4. QED BY <3>2, <3>3, CountSame
  <2>6. QED BY <2>4, <2>5
<1>5. CASE Unlist(c)
  <2>1. /\ pc[c] = "remove" /\ channels' = channels \ {c}
        /\ newChannels' = newChannels \ {c}
        /\ UNCHANGED <<nRegistered, commonPar>>
        /\ pc'[c] = IF c \in channels THEN "deregister" ELSE "gone"
    BY <1>1, <1>5 DEF Unlist
  <2>2. CASE c \in channels
    <3>1. \A d \in Channels : pc'[d] = "deregister" <=>
                                pc[d] = "deregister" \/ d = c
      BY <1>2, <2>1, <2>2
    <3>2. Registered' = Registered
      BY <2>1, <2>2, <3>1 DEF Registered
    <3>3. QED BY <2>1, <3>2, CountSame
  <2>3. CASE c \notin channels
    <3>1. channels' \cup newChannels' = (channels \cup newChannels) \ {c}
      BY <2>1
    <3>2. c \notin channels' \cup newChannels'
      BY <3>1
    <3>3. Registered' = Registered \ {c}
      BY <1>2, <2>1, <2>3, <3>1, <3>2, RegisteredWithout
    <3>4. CASE c \in newChannels
      <4>1. MayLeave # {} /\ c \in Registered
        BY <1>1, <2>1, <3>4 DEF Stage, Waiting, Registered
      <4>2. QED BY <2>1, <3>3, <4>1, CountForgotten
    <3>5. CASE c \notin newChannels
      <4>1. c \notin Registered
        BY <2>1, <2>3, <3>5 DEF Registered
      <4>2. Registered' = Registered
        BY <3>3, <4>1
      <4>3. QED BY <2>1, <4>2, CountSame
    <3>6. QED BY <3>4, <3>5
  <2>4. QED BY <2>2, <2>3
<1>6. CASE EndQuit(c)
  <2>1. /\ pc[c] = "deregister" /\ pc'[c] = "gone" /\ Deregister(TRUE)
        /\ UNCHANGED <<channels, newChannels>>
        /\ c \notin channels \cup newChannels
    BY <1>1, <1>6, EndQuitStage DEF EndQuit
  <2>2. c \in Registered
    BY <2>1 DEF Registered
  <2>3. channels' \cup newChannels' = (channels \cup newChannels) \ {c}
    BY <2>1
  <2>4. Registered' = Registered \ {c}
    BY <1>2, <2>1, <2>3, RegisteredWithout
  <2>5. QED BY <2>1, <2>2, <2>4, CountRemoved
<1>7. ASSUME \/ SetActive(c) \/ AwaitTriggerEnd(c) \/ StartScan(c)
             \/ StoreParameters(c) \/ TakeParameters(c)
             \/ CompareParameters(c) \/ SetReady(c)
      PROVE  Counted'
  <2>1. /\ UNCHANGED <<channels, newChannels, nRegistered, commonPar>>
        /\ pc[c] # "deregister" /\ pc'[c] # "deregister"
    BY <1>1, <1>7 DEF SetActive, AwaitTriggerEnd, StartScan, StoreParameters,
       TakeParameters, CompareParameters, SetReady, lists, handler
  <2>2. channels' \cup newChannels' = channels \cup newChannels
    BY <2>1
  <2>3. QED BY <1>2, <2>1, <2>2, RegisteredKept, CountSame
<1>8. ASSUME \/ TriggerSwing(c) \/ GetData(c) \/ SendResults(c)
             \/ EndGetData(c) \/ Quit(c) \/ LoseConnection(c)
             \/ AwaitTrigger(c)
      PROVE  Counted'
  <2>1. /\ UNCHANGED <<channels, newChannels, nRegistered, commonPar>>
        /\ pc[c] # "deregister" /\ pc'[c] # "deregister"
    BY <1>1, <1>8 DEF TriggerSwing, GetData, SendResults, EndGetData, Quit,
       LoseConnection, AwaitTrigger, lists, BetweenCommands
  <2>2. channels' \cup newChannels' = channels \cup newChannels
    BY <2>1
  <2>3. QED BY <1>2, <2>1, <2>2, RegisteredKept, CountSame
<1>9. QED
  BY <1>3, <1>4, <1>5, <1>6, <1>7, <1>8 DEF Handler, Serve

LEMMA CountedMain ==
  ASSUME TypeOK, Stages, Aligned, Counted, Main
  PROVE  Counted'
<1>1. CASE InitEnd
  <2>1. /\ channels' \cup newChannels' = channels \cup newChannels
        /\ UNCHANGED <<pc, nRegistered, commonPar>>
    BY <1>1 DEF InitEnd, handler, Aligned
  <2>2. Registered' = Registered
    BY <2>1 DEF Registered
  <2>3. QED BY <2>1, <2>2, CountSame
<1>2. ASSUME NEW c \in Channels, AddLast(c) PROVE Counted'
  <2>1. UNCHANGED <<pc, newChannels>> /\ main = "add" /\ c \in todo
    BY <1>2 DEF AddLast, handler
  <2>2. CASE scan[c].post /\ c \in channels
    <3>1. channels' = channels \ {c} /\ Deregister(TRUE)
      BY <1>2, <2>2 DEF AddLast, Deregister
    <3>2. c \notin newChannels /\ pc[c] # "deregister" /\ c \in Registered
      BY <2>2 DEF Stages, Stage, Registered
    <3>3. Registered' = Registered \ {c}
      <4>1. {d \in Channels : pc'[d] = "deregister"}
              = {d \in Channels : pc[d] = "deregister"} \ {c}
        BY <2>1, <3>2
      <4>2. QED BY <2>1, <3>1, <3>2, <4>1 DEF Registered
    <3>4. QED BY <3>1, <3>2, <3>3, CountRemoved
  <2>3. CASE ~(scan[c].post /\ c \in channels)
    <3>1. UNCHANGED <<channels, nRegistered, commonPar>>
      <4>1. CASE ~scan[c].post
        BY <1>2, <4>1 DEF AddLast
      <4>2. CASE scan[c].post /\ c \notin channels
        <5>1. Deregister(FALSE) /\ channels' = channels
          BY <1>2, <4>2 DEF AddLast, Deregister
        <5>2. nRegistered \in Nat
          BY DEF TypeOK, TypeLists
        <5>3. QED BY <5>1, <5>2 DEF Deregister
      <4>3. QED BY <2>3, <4>1, <4>2
    <3>2. Registered' = Registered
      BY <2>1, <3>1 DEF Registered
    <3>3. QED BY <3>1, <3>2, CountSame
  <2>4. QED BY <2>2, <2>3
<1>3. ASSUME UNCHANGED <<pc, channels, newChannels, nRegistered, commonPar>>
      PROVE  Counted'
  <2>1. Registered' = Registered
    BY <1>3 DEF Registered
  <2>2. QED BY <1>3, <2>1, CountSame
<1> USE DEF lists, handler
<1>4. CASE \/ NoticeNew \/ NothingNew \/ AwaitSetPar \/ InitStart \/ Arm
           \/ LoopAgain \/ Start \/ Setup \/ Fire \/ Collect \/ Finish
  BY <1>3, <1>4 DEF NoticeNew, NothingNew, AwaitSetPar, InitStart, Arm,
     LoopAgain, Start, Setup, Fire, Collect, Finish
<1>5. CASE \/ Generate \/ ReadyClear \/ ReadyStore \/ Switch
           \/ AutoTrigger \/ End
  BY <1>3, <1>5 DEF Generate, ReadyClear, ReadyStore, Switch, AutoTrigger, End
<1>6. CASE \E c \in Channels : \/ AwaitActive(c) \/ AddNotActive(c)
                               \/ AddUpdate(c) \/ AddSend(c)
  BY <1>3, <1>6 DEF AwaitActive, AddNotActive, AddUpdate, AddSend
<1>7. QED BY <1>1, <1>2, <1>4, <1>5, <1>6 DEF Main
----------------------------------------------------------------------------
(* The invariant holds at the start, and every step keeps it.              *)
LEMMA StageInit == ASSUME Init PROVE StageInv
<1>1. TypeOK BY TypeInit
<1>2. SetParExclusion
  BY DEF Init, SetParExclusion
<1>3. Stages
  <2> SUFFICES ASSUME NEW c \in Channels PROVE Stage(c)
    BY DEF Stages
  <2>1. Quiet(c)
    BY DEF Init, Quiet, BothInactive, NoResults, Camping, NoScan
  <2>2. QED BY <2>1 DEF Init, Stage, Absent, PassedBy
<1>4. Aligned
  BY DEF Init, Aligned, Fires, Prep
<1>5. Counted
  <2>1. Registered = {} /\ nRegistered = 0
    BY DEF Init, Registered
  <2>2. QED BY <2>1, FS_EmptySet DEF Counted
<1>6. QED BY <1>1, <1>2, <1>3, <1>4, <1>5 DEF StageInv

LEMMA StageStutter == ASSUME StageInv, UNCHANGED vars PROVE StageInv'
<1> USE DEF vars, rhm, swings, lists, flags, lock, handler, chan, StageInv
<1>1. TypeOK' BY StutterTyped
<1>2. SetParExclusion' BY DEF SetParExclusion
<1>3. Stages'
  <2> SUFFICES ASSUME NEW c \in Channels PROVE Stage(c)'
    BY DEF Stages
  <2>1. Stage(c) /\ UNCHANGED <<Own(c), Place, todo, adding, channels,
                                newChannels, radarActive>>
    BY DEF Stages, Own, Place
  <2>2. QED BY <2>1, StageKept
<1>4. Aligned' BY DEF Aligned
<1>5. Counted' 
  <2>1. Registered' = Registered BY DEF Registered
  <2>2. QED BY <2>1, CountSame
<1>6. QED BY <1>1, <1>2, <1>3, <1>4, <1>5

LEMMA StageStep ==
  ASSUME MayStop = {}, StageInv, [Next]_vars
  PROVE  StageInv'
<1> USE DEF StageInv
<1>1. TypeOK' /\ SetParExclusion'
  BY MainTyped, HandlerTyped, StutterTyped, ExclusionStep DEF Next
<1>2. CASE Main
  BY <1>1, <1>2, MainStages, AlignedMain, CountedMain
<1>3. CASE \E c \in Channels : Handler(c)
  BY <1>1, <1>3, HandlerStages, AlignedHandler, CountedHandler
<1>4. CASE UNCHANGED vars
  BY <1>4, StageStutter
<1>5. QED BY <1>2, <1>3, <1>4 DEF Next

THEOREM StageInvariant == ASSUME MayStop = {} PROVE Spec => []StageInv
<1>1. Init => StageInv BY StageInit
<1>2. StageInv /\ [Next]_vars => StageInv' BY StageStep
<1>3. QED BY <1>1, <1>2, PTL DEF Spec
----------------------------------------------------------------------------
(* What follows from the invariant.                                        *)

(* Channels share the hardware only with equal common parameters           *)
(* (CheckChannelCompatibility): those in RHM.channels and newChannelList   *)
(* all have the parameters that commonChannelParameter holds, whatever     *)
(* program leaves and whenever.  Only SET_INACTIVE within a scan is left   *)
(* out: it unregisters a channel that stays in newChannelList.             *)
THEOREM ParametersAgree ==
  ASSUME MayStop = {} PROVE Spec => []CommonParameters
<1>1. StageInv => CommonParameters
  BY DEF StageInv, Counted, Registered, CommonParameters
<1>2. QED BY <1>1, StageInvariant, PTL

(* nRegisteredChannels is the number of registered channels, as long as no *)
(* program leaves or stops within its scan: what SET_INACTIVE, a quit and  *)
(* the end of a scan count down was counted up once by                     *)
(* CheckChannelCompatibility.                                              *)
THEOREM CountedExactly ==
  ASSUME MayStop = {}, MayLeave = {} PROVE Spec => []RegisteredCount
<1>1. StageInv => RegisteredCount
  BY DEF StageInv, Counted, Registered, RegisteredCount
<1>2. QED BY <1>1, StageInvariant, PTL

LEMMA QueuedOne ==
  ASSUME NEW c \in Channels, NEW x \in Swing, Fetch(c, <<x>>)
  PROVE  Queued(c) = {x}
<1>1. Last(<<x>>) = x /\ Front(<<x>>) = <<>>
  BY OneElement
<1>2. ToSet(<<x>>) = {x} /\ ToSet(<<>>) = {}
  BY DEF ToSet
<1>3. CASE pc[c] = "getdata" /\ triggered[c] = <<x>>
  BY <1>2, <1>3 DEF Queued
<1>4. CASE pc[c] = "datawait" /\ wait[c] = x /\ triggered[c] = <<>>
  BY <1>2, <1>4 DEF Queued
<1>5. QED BY <1>1, <1>3, <1>4 DEF Fetch

LEMMA QueuedTwo ==
  ASSUME NEW c \in Channels, NEW x \in Swing, NEW y \in Swing,
         Fetch(c, <<x, y>>)
  PROVE  Queued(c) = {x, y}
<1>1. Last(<<x, y>>) = y /\ Front(<<x, y>>) = <<x>>
  BY PairEnds
<1>2. ToSet(<<x>>) = {x} /\ ToSet(<<x, y>>) = {x, y}
  BY DEF ToSet
<1>3. CASE pc[c] = "getdata" /\ triggered[c] = <<x, y>>
  BY <1>2, <1>3 DEF Queued
<1>4. CASE pc[c] = "datawait" /\ wait[c] = y /\ triggered[c] = <<x>>
  BY <1>2, <1>4 DEF Queued
<1>5. QED BY <1>1, <1>3, <1>4 DEF Fetch

(* A swing is triggered, transmitted or holds samples if and only if it is *)
(* in triggered_swing_list or being fetched, for every channel at work: no *)
(* swing is fetched twice and none is forgotten, whichever threads SET_READY*)
(* and trigger_next_swing ran in between.                                  *)
THEOREM InFlightIsQueued ==
  ASSUME MayStop = {} PROVE Spec => []TriggeredMatchesState
<1>1. ASSUME StageInv PROVE TriggeredMatchesState
  <2> SUFFICES ASSUME NEW c \in Channels,
                      pc[c] \in {"setpar", "parwait", "ready", "readywait",
                                 "getdata", "datawait", "sending"}
               PROVE  /\ InFlight(c) \subseteq Queued(c)
                      /\ ~scan[c].post => Queued(c) = InFlight(c)
    BY DEF TriggeredMatchesState
  <2>1. /\ Stage(c) /\ ~Gone(c) /\ pc[c] \notin Away
        /\ activeSwing \in Swing /\ nextSwing \in Swing /\ lastSwing \in Swing
        /\ lastSwing # nextSwing
    BY <1>1 DEF StageInv, Stages, Gone, Away, Leaving, TypeOK, TypeSwings,
       lastSwing
  <2>2. ToSet(<<>>) = {} /\ \A x \in Swing : ToSet(<<x>>) = {x}
    BY DEF ToSet
  <2>3. /\ \A x \in Swing : Fetch(c, <<x>>) => Queued(c) = {x}
        /\ \A x, y \in Swing : Fetch(c, <<x, y>>) => Queued(c) = {x, y}
    BY QueuedOne, QueuedTwo
  <2>4. Waiting(c) => InFlight(c) = {} /\ Queued(c) = {}
    BY <2>2 DEF Waiting, BothInactive, InFlight, Queued
  <2>5. Quiet(c) => InFlight(c) = {} /\ Queued(c) = {}
    BY <2>2 DEF Quiet, BothInactive, InFlight, Queued
  <2>6. ASSUME NEW x \in Swing, Ended(c, x)
        PROVE  InFlight(c) \subseteq Queued(c) /\ scan[c].post
    <3>1. /\ state[c][1 - x] = INACTIVE /\ scan[c].post
          /\ Fetch(c, <<1 - x, x>>) \/ (pc[c] = "sending" /\ wait[c] = x)
      BY <2>1, <2>6 DEF Ended, Over
    <3>2. InFlight(c) \subseteq {x}
      BY <3>1 DEF InFlight
    <3>3. x \in Queued(c)
      BY <2>3, <3>1 DEF Queued
    <3>4. QED BY <3>1, <3>2, <3>3
  <2>7. ASSUME NEW x \in Swing, Stuck(c, x)
        PROVE  InFlight(c) = {x} /\ Queued(c) = {x}
    BY <2>1, <2>3, <2>7 DEF Stuck, InFlight
  <2>8. Fresh(c) => InFlight(c) = {} /\ Queued(c) = {}
    BY <2>1, <2>2 DEF Fresh, InFlight, Queued
  <2>9. Primed(c) => InFlight(c) = {activeSwing} /\ Queued(c) = {activeSwing}
    BY <2>1, <2>3 DEF Primed, InFlight
  <2>10. Fired(c) => InFlight(c) = {lastSwing} /\ Queued(c) = {lastSwing}
    BY <2>1, <2>3 DEF Fired, InFlight, lastSwing
  <2>11. ASSUME NEW x \in Swing, Missed(c, x)
         PROVE  InFlight(c) = {x} /\ Queued(c) = {x}
    BY <2>1, <2>3, <2>11 DEF Missed, InFlight
  <2>12. Lost(c) => InFlight(c) = {processingSwing}
                    /\ Queued(c) = {processingSwing}
    BY <2>1, <2>3 DEF Lost, InFlight
  <2>13. Running(c) => InFlight(c) = Queued(c)
    <3>1. ASSUME Running(c), Triggered(c) PROVE InFlight(c) = Queued(c)
      BY <2>1, <2>3, <3>1 DEF Running, Triggered, InFlight, lastSwing
    <3>2. ASSUME Running(c), Collected(c) PROVE InFlight(c) = Queued(c)
      <4>1. InFlight(c) = {lastSwing, nextSwing}
        BY <2>1, <3>2 DEF Running, Collected, InFlight, lastSwing
      <4>2. Queued(c) = {lastSwing, nextSwing}
        <5>1. CASE Fetch(c, <<lastSwing, nextSwing>>)
          BY <2>1, <2>3, <5>1
        <5>2. CASE /\ pc[c] = "sending" /\ wait[c] = nextSwing
                   /\ triggered[c] = <<lastSwing>>
          BY <2>1, <2>2, <5>2 DEF Queued
        <5>3. QED BY <2>1, <3>2, <5>1, <5>2 DEF Collected
      <4>3. QED BY <4>1, <4>2
    <3>3. ASSUME Running(c), Prepared(c) PROVE InFlight(c) = Queued(c)
      <4>1. InFlight(c) = {lastSwing}
        BY <2>1, <3>3 DEF Running, Prepared, InFlight, lastSwing
      <4>2. triggered[c] = <<lastSwing>> /\ pc[c] \notin {"datawait", "sending"}
        BY <2>1, <3>3 DEF Prepared
      <4>3. QED BY <2>1, <2>2, <4>1, <4>2 DEF Queued
    <3>4. QED BY <3>1, <3>2, <3>3 DEF Running
  <2>14. Shot(c) => InFlight(c) = Queued(c)
    BY <2>1, <2>3 DEF Shot, InFlight
  <2>15. Leaves(c) => \E x \in Swing : Ended(c, x) \/ Stuck(c, x)
    BY DEF Leaves
  <2>16. QED
    BY <2>1, <2>4, <2>5, <2>6, <2>7, <2>8, <2>9, <2>10, <2>11, <2>12, <2>13,
       <2>14, <2>15 DEF Stage, Present, Absent
<1>2. QED BY <1>1, StageInvariant, PTL

(* When trigger_next_swing collects a swing, the entry of resultDict_list  *)
(* it fills is the one made for that swing, and nothing was filled in yet: *)
(* GET_DATA keeps up with the two swings.                                  *)
THEOREM EntriesFilledOnce ==
  ASSUME MayStop = {} PROVE Spec => []NoOverwrite
<1>1. ASSUME StageInv PROVE NoOverwrite
  <2> SUFFICES ASSUME main = "collect", NEW c \in Processing,
                      radarActive[Rnum[c]], results[c] # <<>>
               PROVE  /\ Last(results[c]).swing = processingSwing
                      /\ Last(results[c]).label = None
    BY DEF NoOverwrite
  <2>1. /\ c \in Channels /\ c \in channels /\ Stage(c)
        /\ state[c][processingSwing] = PROCESSING
    BY <1>1 DEF StageInv, Stages, Processing, TypeOK, TypeLists
  <2>2. Shot(c)
    BY <1>1, <2>1, AtCollect, OnlyShot DEF StageInv
  <2> DEFINE q == results[c]
  <2>3. q \in Seq(Result) /\ q # <<>>
    BY <1>1, <2>1 DEF StageInv, TypeOK, TypeChan
  <2> HIDE DEF q
  <2>4. /\ Len(q) = 1 => Last(q) = q[1]
        /\ Len(q) = 2 => Last(q) = q[2]
    BY <2>3, SentResult
  <2>5. CASE IsLastPeriod(scan[c])
    <3>1. One(c, processingSwing, None)
      BY <2>2, <2>3, <2>5 DEF Shot, Pending, NoResults, q
    <3>2. QED BY <2>4, <3>1 DEF One, Filled, q
  <2>6. CASE ~IsLastPeriod(scan[c])
    <3>1. Two(c, activeSwing, None, processingSwing, None)
      BY <2>2, <2>6 DEF Shot
    <3>2. QED BY <2>4, <3>1 DEF Two, Filled, q
  <2>7. QED BY <2>5, <2>6
<1>2. QED BY <1>1, StageInvariant, PTL

(* SET_READY triggers nextSwingToTrigger, which may have moved on since    *)
(* the handler read it: still, what it triggers is a swing that was        *)
(* prepared, and neither one on the air nor one with samples to be fetched.*)
THEOREM OnlyPreparedTriggered ==
  ASSUME MayStop = {} PROVE Spec => TriggerOnlyWhenReady
<1>1. StageInv /\ [Next]_vars =>
        [\A c \in Channels : TriggerSwing(c) =>
           state[c][nextSwing] \in {READY, LAST_SWING}]_vars
  BY TriggerSwingStage DEF StageInv, Stages
<1>2. QED BY <1>1, StageInvariant, PTL DEF Spec, TriggerOnlyWhenReady

(* The first part of DeliveredPeriod: the result is that of the swing the  *)
(* handler waited for, with the parameters of the period asked for.        *)
PeriodAskedFor ==
  \A c \in Channels : pc[c] = "sending" =>
    sent[c].swing = wait[c] /\ sent[c].label = Expected(c)

(* GET_DATA answers with the period the control program is at: neither a   *)
(* later one nor the same one twice, in scans of any length from any beam. *)
THEOREM AnsweredInTurn ==
  ASSUME MayStop = {} PROVE Spec => []PeriodAskedFor
<1>1. ASSUME StageInv PROVE PeriodAskedFor
  <2> SUFFICES ASSUME NEW c \in Channels, pc[c] = "sending"
               PROVE  sent[c].swing = wait[c] /\ sent[c].label = Expected(c)
    BY DEF PeriodAskedFor
  <2>1. /\ Stage(c) /\ ~Gone(c) /\ pc[c] \notin Away
        /\ scan[c] \in Scan /\ ScanLen[c] \in Nat \ {0} /\ left[c] \in Int
    BY <1>1 DEF StageInv, Stages, Gone, Away, Leaving, TypeOK, TypeChan,
       TypeHandler
  <2>2. ASSUME NEW x \in Swing, Ended(c, x)
        PROVE  sent[c].swing = wait[c] /\ sent[c].label = Expected(c)
    <3>1. /\ wait[c] = x /\ Filled(sent[c], x, scan[c].period)
          /\ Over(c) /\ Began(c) /\ left[c] = 1
      BY <2>1, <2>2 DEF Ended, Fetch
    <3>2. QED
      BY <2>1, <3>1 DEF Filled, Over, Began, IsLastPeriod, Camping, Expected,
         Scan
  <2>3. ASSUME Going(c), Collected(c)
        PROVE  sent[c].swing = wait[c] /\ sent[c].label = Expected(c)
    <3>1. /\ wait[c] = nextSwing /\ Filled(sent[c], nextSwing, Previous(c))
          /\ Owes(c, Remaining(c) + 1)
      BY <2>1, <2>3 DEF Collected, Fetch
    <3>2. CASE Camping(scan[c])
      BY <2>1, <2>3, <3>1, <3>2 DEF Filled, Going, Began, Camping, Expected,
         Previous, Scan
    <3>3. CASE ~Camping(scan[c])
      BY <2>1, <2>3, <3>1, <3>3 DEF Filled, Going, Began, Camping, Expected,
         Previous, Owes, Remaining, Scan
    <3>4. QED BY <3>2, <3>3
  <2>4. ~Waiting(c) /\ ~Quiet(c) /\ \A x \in Swing : ~Stuck(c, x)
    BY <2>1 DEF Waiting, Quiet, Stuck, Fetch
  <2>5. /\ ~Fresh(c) /\ ~Primed(c) /\ ~Fired(c) /\ ~Lost(c) /\ ~Shot(c)
        /\ \A x \in Swing : ~Missed(c, x)
    BY <2>1 DEF Fresh, Primed, Fired, Lost, Shot, Missed, Fetch
  <2>6. Running(c) => Going(c) /\ Collected(c)
    BY <2>1 DEF Running, Triggered, Prepared, Fetch
  <2>7. Leaves(c) => \E x \in Swing : Ended(c, x)
    BY <2>4 DEF Leaves
  <2>8. QED
    BY <2>1, <2>2, <2>3, <2>4, <2>5, <2>6, <2>7 DEF Stage, Present, Absent
<1>2. QED BY <1>1, StageInvariant, PTL
=============================================================================
