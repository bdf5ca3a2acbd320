------------------------ MODULE ScanServiceProofs -------------------------
(***************************************************************************)
(* The service keeps the periods of a scan in order, for any channels and  *)
(* scans.                                                                  *)
(***************************************************************************)
EXTENDS ScanService, TLAPS

USE ServiceAssumption DEF Swings

LEMMA ServiceInit == ASSUME Init PROVE ServiceTypeOK /\ InOrder
<1>1. ASSUME NEW c \in Channels PROVE ScanLen[c] \in Nat /\ 0 <= ScanLen[c]
  <2>1. ScanLen[c] \in Nat \ {0, 1} OBVIOUS
  <2>2. QED BY <2>1
<1>2. ServiceTypeOK BY DEF Init, ServiceTypeOK, Period, Answer
<1>3. ASSUME NEW c \in Channels
      PROVE  /\ Len(flight[c]) = 0 /\ next[c] = 0 /\ flight[c] = <<>>
  BY DEF Init
<1>4. QED BY <1>1, <1>2, <1>3 DEF InOrder

LEMMA ServiceTypeStep ==
  ASSUME ServiceTypeOK, [Next]_svars PROVE ServiceTypeOK'
<1> USE DEF ServiceTypeOK
<1>1. ASSUME NEW c \in Channels, Begin(c) PROVE ServiceTypeOK'
  BY <1>1 DEF Begin
<1>2. ASSUME NEW S \in SUBSET Channels, NEW fired \in BOOLEAN, Take(S, fired)
      PROVE  ServiceTypeOK'
  <2>1. \A c \in Channels :
          [of |-> next[c] + Len(flight[c]), fired |-> fired] \in Period
    BY DEF Period
  <2>2. flight' \in [Channels -> Seq(Period)]
    BY <1>2, <2>1 DEF Take
  <2>3. QED BY <1>2, <2>2 DEF Take
<1>3. ASSUME NEW c \in Channels, Deliver(c) PROVE ServiceTypeOK'
  <2>1. flight[c] \in Seq(Period) /\ flight[c] # <<>>
    BY <1>3 DEF Deliver
  <2>2. Head(flight[c]) \in Period /\ Tail(flight[c]) \in Seq(Period)
    BY <2>1
  <2>3. [of |-> Head(flight[c]).of, valid |-> Head(flight[c]).fired] \in Answer
    BY <2>2 DEF Period, Answer
  <2>4. QED BY <1>3, <2>2, <2>3 DEF Deliver
<1>4. ASSUME NEW c \in Channels, End(c) PROVE ServiceTypeOK'
  BY <1>4 DEF End
<1>5. CASE UNCHANGED svars
  BY <1>5 DEF svars
<1>6. QED BY <1>1, <1>2, <1>3, <1>4, <1>5 DEF Next

(* InOrder for one channel, so that a step only has to look at its own.    *)
Ordered(c) ==
  /\ Len(flight[c]) <= Swings
  /\ \A i \in 1 .. Len(flight[c]) : flight[c][i].of = next[c] + i - 1
  /\ next[c] + Len(flight[c]) <= ScanLen[c]
  /\ ~open[c] => flight[c] = <<>>

LEMMA OrderedStep ==
  ASSUME ServiceTypeOK, ServiceTypeOK', InOrder, [Next]_svars,
         NEW d \in Channels
  PROVE  Ordered(d)'
<1>1. Ordered(d) BY DEF InOrder, Ordered
<1>2. /\ open[d] \in BOOLEAN /\ next[d] \in Nat /\ flight[d] \in Seq(Period)
      /\ ScanLen[d] \in Nat
  BY DEF ServiceTypeOK
<1>3. CASE /\ open'[d] = open[d] /\ next'[d] = next[d]
           /\ flight'[d] = flight[d]
  BY <1>1, <1>3 DEF Ordered
<1>4. ASSUME NEW c \in Channels, Begin(c) PROVE Ordered(d)'
  <2>1. CASE c = d
    <3>1. flight'[d] = <<>> BY <1>1, <1>4, <2>1 DEF Begin, Ordered
    <3>2. next'[d] \in StartPeriods[d]
      BY <1>4, <2>1 DEF Begin, ServiceTypeOK
    <3>3. next'[d] <= ScanLen[d] BY <1>2, <3>2
    <3>4. next'[d] \in Nat BY DEF ServiceTypeOK
    <3>5. QED BY <1>2, <3>1, <3>3, <3>4 DEF Ordered
  <2>2. CASE c # d BY <1>3, <1>4, <2>2 DEF Begin, ServiceTypeOK
  <2>3. QED BY <2>1, <2>2
<1>5. ASSUME NEW S \in SUBSET Channels, NEW fired \in BOOLEAN, Take(S, fired)
      PROVE  Ordered(d)'
  <2> DEFINE p == [of |-> next[d] + Len(flight[d]), fired |-> fired]
  <2>1. CASE d \in S
    <3>1. MayTake(d) BY <1>5, <2>1 DEF Take
    <3>2. flight'[d] = Append(flight[d], p)
      BY <1>5, <2>1 DEF Take, ServiceTypeOK
    <3>3. next'[d] = next[d] /\ open'[d] = open[d] BY <1>5 DEF Take
    <3>4. Len(flight'[d]) = Len(flight[d]) + 1 BY <1>2, <3>2
    <3>5. ASSUME NEW i \in 1 .. Len(flight'[d])
          PROVE  flight'[d][i].of = next'[d] + i - 1
      <4>1. CASE i = Len(flight[d]) + 1 BY <1>2, <3>2, <3>3, <4>1
      <4>2. CASE i \in 1 .. Len(flight[d])
        <5>1. flight'[d][i] = flight[d][i] BY <1>2, <3>2, <4>2
        <5>2. QED BY <1>1, <3>3, <4>2, <5>1 DEF Ordered
      <4>3. QED BY <1>2, <3>4, <4>1, <4>2
    <3>6. QED BY <1>2, <3>1, <3>3, <3>4, <3>5 DEF Ordered, MayTake
  <2>2. CASE d \notin S BY <1>3, <1>5, <2>2 DEF Take, ServiceTypeOK
  <2>3. QED BY <2>1, <2>2
<1>6. ASSUME NEW c \in Channels, Deliver(c) PROVE Ordered(d)'
  <2>1. CASE c = d
    <3>1. flight[d] # <<>> BY <1>6, <2>1 DEF Deliver
    <3>2. /\ flight'[d] = Tail(flight[d]) /\ next'[d] = next[d] + 1
          /\ open'[d] = open[d]
      BY <1>6, <2>1 DEF Deliver, ServiceTypeOK
    <3>3. Len(flight'[d]) = Len(flight[d]) - 1 BY <1>2, <3>1, <3>2
    <3>4. ASSUME NEW i \in 1 .. Len(flight'[d])
          PROVE  flight'[d][i].of = next'[d] + i - 1
      <4>1. i + 1 \in 1 .. Len(flight[d]) /\ flight'[d][i] = flight[d][i + 1]
        BY <1>2, <3>1, <3>2, <3>3
      <4>2. QED BY <1>1, <1>2, <3>2, <4>1 DEF Ordered
    <3>5. open[d] BY <1>1, <3>1 DEF Ordered
    <3>6. QED BY SMTT(30), <1>1, <1>2, <3>2, <3>3, <3>4, <3>5 DEF Ordered
  <2>2. CASE c # d BY <1>3, <1>6, <2>2 DEF Deliver, ServiceTypeOK
  <2>3. QED BY <2>1, <2>2
<1>7. ASSUME NEW c \in Channels, End(c) PROVE Ordered(d)'
  <2>1. CASE c = d
    <3>1. /\ next[d] = ScanLen[d] /\ next'[d] = 0 /\ flight'[d] = flight[d]
      BY <1>7, <2>1 DEF End, ServiceTypeOK
    <3>2. flight[d] = <<>> BY <1>1, <1>2, <3>1 DEF Ordered
    <3>3. QED BY <1>2, <3>1, <3>2 DEF Ordered
  <2>2. CASE c # d BY <1>3, <1>7, <2>2 DEF End, ServiceTypeOK
  <2>3. QED BY <2>1, <2>2
<1>8. CASE UNCHANGED svars BY <1>3, <1>8 DEF svars
<1>9. QED BY <1>4, <1>5, <1>6, <1>7, <1>8 DEF Next

(* What is in flight for a channel are always the periods that come next,  *)
(* without a gap and at most two, and a scan leaves nothing in flight.     *)
THEOREM InOrderAlways == Spec => []InOrder
<1>1. ServiceTypeOK /\ InOrder /\ [Next]_svars
        => ServiceTypeOK' /\ InOrder'
  BY ServiceTypeStep, OrderedStep DEF InOrder, Ordered
<1>2. QED BY <1>1, ServiceInit, PTL DEF Spec
============================================================================
