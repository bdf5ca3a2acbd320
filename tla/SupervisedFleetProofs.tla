----------------------- MODULE SupervisedFleetProofs -----------------------
(***************************************************************************)
(* Proofs about the fleet of USRPs and its server, for every number of     *)
(* radars and USRPs, every configuration and every number of faults.       *)
(***************************************************************************)
EXTENDS SupervisedFleet, FiniteSetTheorems, SequenceTheorems, TLAPS

USE RadarsAssumption

(* What the main thread can be at.  A command to the USRPs of single       *)
(* radars has a radar whose answers are missing, and the commands of a     *)
(* period come after a trigger for at least one radar.                     *)
Control ==
  /\ main = "send" => cmd \in {"SYNC", "TIME", "RXFE", "TRIGGER", "META"}
  /\ main = "receive" => cmd # "SETUP"
  /\ main = "remove" => cmd \notin {"TIME", "SETUP"}
  /\ main \in {"receive", "remove"} /\ cmd \notin ToAll => todo # {}
  /\ main = "loop" => ~booting
  /\ main = "setup" /\ ~booting => period # {}
  /\ main \in {"send", "receive", "remove"} /\ cmd \in {"TRIGGER", "META", "READY"}
       => period # {} /\ ~booting

(* The errors are found in the order of the list: when offset sockets have *)
(* been removed, the next error is at a position of the list that is left. *)
ErrorsInOrder ==
  main = "remove" =>
    /\ \A i \in DOMAIN errs : errs[i] >= offset + i
    /\ \A i, j \in DOMAIN errs : i < j => errs[i] < errs[j]

(* In the answers of one radar the positions, less those removed before    *)
(* them, are those of sockets whose read raised an exception.              *)
OwnErrors ==
  main = "remove" /\ cmd \notin ToAll =>
    /\ jrad \in Radars
    /\ \A i \in DOMAIN errs :
         /\ errs[i] - offset \in DOMAIN socks[jrad]
         /\ socks[jrad][errs[i] - offset] \in lost

(* The times are asked of all USRPs in service.                            *)
AllAsked ==
  main = "receive" /\ cmd = "TIME" =>
    \A u \in Usrps : InService(u) => u \in ToSet(clients)

(* From the check of the times until the next USRP_SYNC: two USRPs that    *)
(* can be talked to have both had their clocks set by the last one.        *)
Synchronised ==
  \/ main \in {"setup", "loop"}
  \/ main \in {"send", "receive", "remove"} /\ cmd \in
       {"STALE", "RXFE", "TRIGGER", "META", "READY"}

InStep ==
  Synchronised =>
    \A u, v \in Usrps :
      /\ u # v
      /\ InService(u) /\ link[u] = "open"
      /\ InService(v) /\ link[v] = "open"
      => synced[u] /\ synced[v]

(* EachUsrpOnce, by the two lists of a radar.                              *)
Whole ==
  main \notin {"connect", "down"} =>
    \A r \in Radars :
      /\ ToSet(socks[r]) \cup ToSet(inactive[r]) = ToSet(Config[r])
      /\ Len(socks[r]) + Len(inactive[r]) = Len(Config[r])

FleetInv ==
  /\ TypeOK /\ Control /\ Whole
  /\ ErrorsInOrder /\ OwnErrors /\ AllAsked /\ InStep
----------------------------------------------------------------------------
(* Lists.                                                                  *)

(* A set of natural numbers that is not empty has a smallest element:      *)
(* induction, in the form the lemmas below use it.                         *)
LEMMA SmallestNat ==
  ASSUME NEW T, T \subseteq Nat, T # {}
  PROVE  \E x \in T : \A y \in T : x <= y
<1>1. PICK n \in T : TRUE OBVIOUS
<1> DEFINE S == 0 .. n
           R == StrictSubsetOrdering(S)
           U == {0 .. k : k \in {k \in T : k <= n}}
<1>2. IsFiniteSet(S) BY <1>1, FS_Interval
<1>3. IsWellFoundedOn(R, SUBSET S)
  BY <1>2, FS_StrictSubsetOrderingWellFounded, FS_FiniteSubsetsOfFinite
<1>4. U \subseteq SUBSET S /\ U # {}
  OBVIOUS
<1>5. PICK x \in U : \A y \in U : <<y, x>> \notin R
  <2> HIDE DEF S, R, U
  <2> QED BY <1>3, <1>4, WFMin
<1>6. PICK k \in T : k <= n /\ x = 0 .. k BY <1>5
<1>7. ASSUME NEW y \in T, y < k PROVE FALSE
  <2>1. 0 .. y \in U /\ 0 .. k \in U BY <1>6, <1>7
  <2>2. 0 .. y \subseteq 0 .. k /\ 0 .. y # 0 .. k
    <3>1. k \in 0 .. k /\ k \notin 0 .. y BY <1>7
    <3> QED BY <3>1, <1>7
  <2>3. <<0 .. y, 0 .. k>> \in R BY <2>1, <2>2, <1>4 DEF StrictSubsetOrdering
  <2> QED BY <2>1, <2>3, <1>5, <1>6
<1> QED BY <1>6, <1>7

(* A set of numbers with 0 and the successors of its elements up to m has  *)
(* all numbers up to m.                                                    *)
LEMMA UpTo ==
  ASSUME NEW m \in Nat, NEW P,
         0 \in P, \A n \in 1 .. m : n - 1 \in P => n \in P
  PROVE  0 .. m \subseteq P
<1> DEFINE T == {n \in 0 .. m : n \notin P}
<1> SUFFICES ASSUME T # {} PROVE FALSE
  OBVIOUS
<1>1. PICK n \in T : \A y \in T : n <= y
  <2>1. T \subseteq Nat OBVIOUS
  <2> HIDE DEF T
  <2> QED BY <2>1, SmallestNat
<1>2. n \in 1 .. m /\ n - 1 \in 0 .. m /\ n - 1 \notin T
  BY <1>1
<1> QED BY <1>1, <1>2

(* The first radar of a set.                                               *)
LEMMA FirstOf ==
  ASSUME NEW R, R \subseteq Radars, R # {}
  PROVE  First(R) \in R
<1>1. \E r \in R : \A q \in R : r <= q
  <2>1. R \subseteq Nat BY DEF Radars
  <2> QED BY <2>1, SmallestNat
<1> QED BY <1>1 DEF First

(* Those is what its recursion says.                                       *)
LEMMA ThoseRecursion ==
  ASSUME NEW s, Len(s) \in Nat, NEW S
  PROVE  \E keep :
           /\ Those(s, S) = keep[Len(s)] /\ keep[0] = <<>>
           /\ \A n \in 1 .. Len(s) :
                keep[n] = IF s[n] \in S THEN Append(keep[n - 1], s[n])
                                        ELSE keep[n - 1]
<1> DEFINE Rec(f, m) == f = [n \in 0 .. m |->
                               IF n = 0 THEN <<>>
                               ELSE IF s[n] \in S THEN Append(f[n - 1], s[n])
                                                  ELSE f[n - 1]]
           P == {m \in Nat : \E f : Rec(f, m)}
           keep[n \in 0 .. Len(s)] ==
             IF n = 0 THEN <<>>
             ELSE IF s[n] \in S THEN Append(keep[n - 1], s[n])
                                ELSE keep[n - 1]
<1>1. 0 \in P
  <2>1. Rec([n \in 0 .. 0 |-> <<>>], 0) OBVIOUS
  <2> QED BY <2>1
<1>2. ASSUME NEW m \in 1 .. Len(s), m - 1 \in P PROVE m \in P
  <2>1. PICK f : Rec(f, m - 1) BY <1>2
  <2> DEFINE last == IF s[m] \in S THEN Append(f[m - 1], s[m]) ELSE f[m - 1]
             g == [n \in 0 .. m |-> IF n = m THEN last ELSE f[n]]
  <2>2. Rec(g, m)
    <3> SUFFICES ASSUME NEW n \in 0 .. m
        PROVE g[n] = IF n = 0 THEN <<>>
                     ELSE IF s[n] \in S THEN Append(g[n - 1], s[n])
                                        ELSE g[n - 1]
      OBVIOUS
    <3>1. CASE n = m
      BY <3>1
    <3>2. CASE n # m
      <4>1. n \in 0 .. m - 1 /\ g[n] = f[n] BY <3>2
      <4>2. n # 0 => g[n - 1] = f[n - 1] BY <4>1
      <4> QED BY <2>1, <4>1, <4>2
    <3> QED BY <3>1, <3>2
  <2>3. m \in Nat OBVIOUS
  <2> HIDE DEF Rec, g
  <2> QED BY <2>2, <2>3
<1>3. Len(s) \in P
  <2>1. 0 .. Len(s) \subseteq P
    <3>1. \A n \in 1 .. Len(s) : n - 1 \in P => n \in P BY <1>2
    <3>2. Len(s) \in Nat OBVIOUS
    <3> HIDE DEF P
    <3> QED BY <1>1, <3>1, <3>2, UpTo
  <2> QED BY <2>1
<1>4. Rec(keep, Len(s))
  <2>1. \E f : Rec(f, Len(s)) BY <1>3
  <2> QED BY <2>1
<1>5. Those(s, S) = keep[Len(s)]
  BY DEF Those
<1>6. keep[0] = <<>>
  <2>1. 0 \in 0 .. Len(s) OBVIOUS
  <2> HIDE DEF keep
  <2> QED BY <1>4, <2>1
<1>7. ASSUME NEW n \in 1 .. Len(s)
      PROVE keep[n] = IF s[n] \in S THEN Append(keep[n - 1], s[n]) ELSE keep[n - 1]
  <2>1. n \in 0 .. Len(s) /\ n # 0 OBVIOUS
  <2> HIDE DEF keep
  <2> QED BY <1>4, <2>1
<1> QED BY <1>5, <1>6, <1>7

(* Appending an element.                                                   *)
LEMMA AppendElements ==
  ASSUME NEW X, NEW s \in Seq(X), NEW x \in X
  PROVE  /\ Append(s, x) \in Seq(X)
         /\ Len(Append(s, x)) = Len(s) + 1
         /\ ToSet(Append(s, x)) = ToSet(s) \cup {x}
<1>1. /\ Append(s, x) \in Seq(X) /\ Len(Append(s, x)) = Len(s) + 1
      /\ DOMAIN Append(s, x) = 1 .. Len(s) + 1 /\ DOMAIN s = 1 .. Len(s)
      /\ \A i \in 1 .. Len(s) : Append(s, x)[i] = s[i]
      /\ Append(s, x)[Len(s) + 1] = x
  OBVIOUS
<1>2. Len(s) \in Nat OBVIOUS
<1>3. 1 .. Len(s) + 1 = (1 .. Len(s)) \cup {Len(s) + 1} BY <1>2
<1> QED BY <1>1, <1>3 DEF ToSet

(* Joining two lists.                                                      *)
LEMMA JoinElements ==
  ASSUME NEW X, NEW s \in Seq(X), NEW t \in Seq(X)
  PROVE  /\ s \o t \in Seq(X)
         /\ Len(s \o t) = Len(s) + Len(t)
         /\ ToSet(s \o t) = ToSet(s) \cup ToSet(t)
<1>1. /\ s \o t \in Seq(X) /\ Len(s \o t) = Len(s) + Len(t)
      /\ DOMAIN (s \o t) = 1 .. Len(s) + Len(t)
      /\ DOMAIN s = 1 .. Len(s) /\ DOMAIN t = 1 .. Len(t)
      /\ \A i \in 1 .. Len(s) : (s \o t)[i] = s[i]
      /\ \A i \in 1 .. Len(s) + Len(t) : i > Len(s) => (s \o t)[i] = t[i - Len(s)]
  OBVIOUS
<1>2. Len(s) \in Nat /\ Len(t) \in Nat OBVIOUS
<1>3. ToSet(s \o t) \subseteq ToSet(s) \cup ToSet(t)
  <2> SUFFICES ASSUME NEW i \in 1 .. Len(s) + Len(t)
      PROVE (s \o t)[i] \in ToSet(s) \cup ToSet(t)
    BY <1>1 DEF ToSet
  <2>1. CASE i <= Len(s)
    <3>1. i \in 1 .. Len(s) BY <2>1, <1>2
    <3> QED BY <3>1, <1>1 DEF ToSet
  <2>2. CASE i > Len(s)
    <3>1. i - Len(s) \in 1 .. Len(t) BY <2>2, <1>2
    <3> QED BY <3>1, <2>2, <1>1 DEF ToSet
  <2> QED BY <2>1, <2>2, <1>2
<1>4. ToSet(s) \subseteq ToSet(s \o t)
  <2> SUFFICES ASSUME NEW i \in 1 .. Len(s) PROVE s[i] \in ToSet(s \o t)
    BY <1>1 DEF ToSet
  <2>1. i \in 1 .. Len(s) + Len(t) BY <1>2
  <2> QED BY <2>1, <1>1 DEF ToSet
<1>5. ToSet(t) \subseteq ToSet(s \o t)
  <2> SUFFICES ASSUME NEW i \in 1 .. Len(t) PROVE t[i] \in ToSet(s \o t)
    BY <1>1 DEF ToSet
  <2>1. /\ Len(s) + i \in 1 .. Len(s) + Len(t) /\ Len(s) + i > Len(s)
        /\ (Len(s) + i) - Len(s) = i
    BY <1>2
  <2> QED BY <2>1, <1>1 DEF ToSet
<1> QED BY <1>1, <1>3, <1>4, <1>5

(* The elements Those keeps, and that it keeps them in order.              *)
LEMMA ThoseElements ==
  ASSUME NEW X, NEW s \in Seq(X), NEW S
  PROVE  /\ Those(s, S) \in Seq(X)
         /\ ToSet(Those(s, S)) = ToSet(s) \cap S
<1>1. PICK keep :
        /\ Those(s, S) = keep[Len(s)] /\ keep[0] = <<>>
        /\ \A n \in 1 .. Len(s) :
             keep[n] = IF s[n] \in S THEN Append(keep[n - 1], s[n])
                                   ELSE keep[n - 1]
  <2>1. Len(s) \in Nat OBVIOUS
  <2> QED BY <2>1, ThoseRecursion
<1>2. Len(s) \in Nat /\ DOMAIN s = 1 .. Len(s) /\ \A i \in 1 .. Len(s) : s[i] \in X
  OBVIOUS
<1> DEFINE seen(n) == {s[i] : i \in 1 .. n}
           P == {n \in 0 .. Len(s) : /\ keep[n] \in Seq(X)
                                     /\ ToSet(keep[n]) = seen(n) \cap S}
<1>3. 0 \in P
  <2>2. ToSet(<<>>) = {} /\ <<>> \in Seq(X) BY DEF ToSet
  <2>3. seen(0) = {} OBVIOUS
  <2>4. 0 \in 0 .. Len(s) BY <1>2
  <2> HIDE DEF seen
  <2> QED BY <1>1, <2>2, <2>3, <2>4
<1>4. ASSUME NEW n \in 1 .. Len(s), n - 1 \in P PROVE n \in P
  <2>1. keep[n] = IF s[n] \in S THEN Append(keep[n - 1], s[n]) ELSE keep[n - 1]
    BY <1>1, <1>2
  <2>2. seen(n) = seen(n - 1) \cup {s[n]}
    <3>1. 1 .. n = (1 .. n - 1) \cup {n} BY <1>2
    <3> QED BY <3>1
  <2>3. keep[n - 1] \in Seq(X) /\ ToSet(keep[n - 1]) = seen(n - 1) \cap S
    BY <1>4
  <2>4. n \in 0 .. Len(s) /\ s[n] \in X BY <1>2
  <2> HIDE DEF seen
  <2>5. CASE s[n] \in S
    <3>1. keep[n] \in Seq(X) /\ ToSet(keep[n]) = ToSet(keep[n - 1]) \cup {s[n]}
      BY <2>1, <2>3, <2>4, <2>5, AppendElements
    <3> QED BY <2>2, <2>3, <2>4, <2>5, <3>1
  <2>6. CASE s[n] \notin S
    BY <2>1, <2>2, <2>3, <2>4, <2>6
  <2> QED BY <2>5, <2>6
<1>5. Len(s) \in P
  <2>1. \A n \in 1 .. Len(s) : n - 1 \in P => n \in P BY <1>4
  <2> HIDE DEF P
  <2>2. 0 .. Len(s) \subseteq P BY <1>2, <1>3, <2>1, UpTo
  <2> QED BY <1>2, <2>2
<1>6. seen(Len(s)) = ToSet(s) BY <1>2 DEF ToSet
<1> QED BY <1>1, <1>5, <1>6

(* One more on either side of a sum.                                       *)
LEMMA Adds ==
  ASSUME NEW a \in Nat, NEW b \in Nat, NEW n \in Nat, a + b = n - 1
  PROVE  (a + 1) + b = n /\ a + (b + 1) = n
OBVIOUS

(* What it keeps and what it leaves out are the whole list.               *)
LEMMA ThoseSplit ==
  ASSUME NEW X, NEW s \in Seq(X), NEW S
  PROVE  Len(Those(s, S)) + Len(Those(s, X \ S)) = Len(s)
<1>1. PICK keep :
        /\ Those(s, S) = keep[Len(s)] /\ keep[0] = <<>>
        /\ \A n \in 1 .. Len(s) :
             keep[n] = IF s[n] \in S THEN Append(keep[n - 1], s[n])
                                   ELSE keep[n - 1]
  <2>1. Len(s) \in Nat OBVIOUS
  <2> QED BY <2>1, ThoseRecursion
<1>2. PICK drop :
        /\ Those(s, X \ S) = drop[Len(s)] /\ drop[0] = <<>>
        /\ \A n \in 1 .. Len(s) :
             drop[n] = IF s[n] \in X \ S THEN Append(drop[n - 1], s[n])
                                   ELSE drop[n - 1]
  <2>1. Len(s) \in Nat OBVIOUS
  <2> QED BY <2>1, ThoseRecursion
<1>3. Len(s) \in Nat /\ \A i \in 1 .. Len(s) : s[i] \in X
  OBVIOUS
<1> DEFINE Split(n) == /\ keep[n] \in Seq(X) /\ drop[n] \in Seq(X)
                       /\ Len(keep[n]) + Len(drop[n]) = n
           P == {n \in 0 .. Len(s) : Split(n)}
<1>4. 0 \in P
  <2>1. 0 \in 0 .. Len(s) BY <1>3
  <2>2. <<>> \in Seq(X) /\ Len(<<>>) = 0 OBVIOUS
  <2>3. Split(0) BY <1>1, <1>2, <2>2
  <2> QED BY <2>1, <2>3
<1>5. ASSUME NEW n \in 1 .. Len(s), n - 1 \in P PROVE n \in P
  <2>1. /\ keep[n] = IF s[n] \in S THEN Append(keep[n - 1], s[n]) ELSE keep[n - 1]
        /\ drop[n] = IF s[n] \in X \ S THEN Append(drop[n - 1], s[n])
                                       ELSE drop[n - 1]
    BY <1>1, <1>2, <1>3
  <2>2. /\ keep[n - 1] \in Seq(X) /\ drop[n - 1] \in Seq(X)
        /\ Len(keep[n - 1]) + Len(drop[n - 1]) = n - 1
        /\ Len(keep[n - 1]) \in Nat /\ Len(drop[n - 1]) \in Nat
    <3>1. Split(n - 1) BY <1>5
    <3>2. Len(keep[n - 1]) \in Nat /\ Len(drop[n - 1]) \in Nat
      BY <3>1, LenProperties
    <3> QED BY <3>1, <3>2
  <2>3. n \in 0 .. Len(s) /\ s[n] \in X BY <1>3
  <2>4. /\ (Len(keep[n - 1]) + 1) + Len(drop[n - 1]) = n
        /\ Len(keep[n - 1]) + (Len(drop[n - 1]) + 1) = n
    <3> DEFINE a == Len(keep[n - 1])
               b == Len(drop[n - 1])
    <3>1. a \in Nat /\ b \in Nat /\ a + b = n - 1 BY <2>2
    <3>2. n \in Nat BY <1>3
    <3>3. (a + 1) + b = n /\ a + (b + 1) = n
      <4> HIDE DEF a, b
      <4> QED BY <3>1, <3>2, Adds
    <3> QED BY <3>3
  <2>5. CASE s[n] \in S
    <3>1. keep[n] = Append(keep[n - 1], s[n]) /\ drop[n] = drop[n - 1]
      BY <2>1, <2>5
    <3>2. keep[n] \in Seq(X) /\ Len(keep[n]) = Len(keep[n - 1]) + 1
      BY <2>2, <2>3, <3>1, AppendElements
    <3>4. Len(keep[n]) + Len(drop[n]) = n BY <2>4, <3>1, <3>2
    <3> QED BY <2>2, <2>3, <3>1, <3>2, <3>4
  <2>6. CASE s[n] \notin S
    <3>1. drop[n] = Append(drop[n - 1], s[n]) /\ keep[n] = keep[n - 1]
      BY <2>1, <2>3, <2>6
    <3>2. drop[n] \in Seq(X) /\ Len(drop[n]) = Len(drop[n - 1]) + 1
      BY <2>2, <2>3, <3>1, AppendElements
    <3>4. Len(keep[n]) + Len(drop[n]) = n BY <2>4, <3>1, <3>2
    <3> QED BY <2>2, <2>3, <3>1, <3>2, <3>4
  <2> QED BY <2>5, <2>6
<1>6. Len(s) \in P
  <2>1. \A n \in 1 .. Len(s) : n - 1 \in P => n \in P BY <1>5
  <2> HIDE DEF P
  <2>2. 0 .. Len(s) \subseteq P BY <1>3, <1>4, <2>1, UpTo
  <2> QED BY <1>3, <2>2
<1> QED BY <1>1, <1>2, <1>6

(* Of a list of numbers in ascending order.                                *)
Ascending(s) == \A i, j \in DOMAIN s : i < j => s[i] < s[j]

LEMMA ThoseAscending ==
  ASSUME NEW s \in Seq(Nat), Ascending(s), NEW S
  PROVE  Ascending(Those(s, S))
<1>1. PICK keep :
        /\ Those(s, S) = keep[Len(s)] /\ keep[0] = <<>>
        /\ \A n \in 1 .. Len(s) :
             keep[n] = IF s[n] \in S THEN Append(keep[n - 1], s[n])
                                   ELSE keep[n - 1]
  <2>1. Len(s) \in Nat OBVIOUS
  <2> QED BY <2>1, ThoseRecursion
<1>2. Len(s) \in Nat /\ DOMAIN s = 1 .. Len(s) /\ \A i \in 1 .. Len(s) : s[i] \in Nat
  OBVIOUS
<1> DEFINE P == {n \in 0 .. Len(s) :
                   /\ keep[n] \in Seq(Nat)
                   /\ Ascending(keep[n])
                   /\ \A i \in DOMAIN keep[n] : \A k \in n + 1 .. Len(s) :
                        keep[n][i] < s[k]}
<1>3. 0 \in P
  <2>1. 0 \in 0 .. Len(s) BY <1>2
  <2>2. <<>> \in Seq(Nat) /\ DOMAIN <<>> = {} OBVIOUS
  <2>3. Ascending(<<>>) BY <2>2 DEF Ascending
  <2> QED BY <1>1, <2>1, <2>2, <2>3
<1>4. ASSUME NEW n \in 1 .. Len(s), n - 1 \in P PROVE n \in P
  <2>1. keep[n] = IF s[n] \in S THEN Append(keep[n - 1], s[n]) ELSE keep[n - 1]
    BY <1>1, <1>2
  <2>2. /\ keep[n - 1] \in Seq(Nat) /\ Ascending(keep[n - 1])
        /\ \A i \in DOMAIN keep[n - 1] : \A k \in (n - 1) + 1 .. Len(s) :
             keep[n - 1][i] < s[k]
    BY <1>4
  <2>3. /\ n \in 0 .. Len(s) /\ s[n] \in Nat
        /\ \A k \in n .. Len(s) : k \in (n - 1) + 1 .. Len(s)
        /\ \A k \in n + 1 .. Len(s) : k \in n .. Len(s) /\ s[n] < s[k]
    BY <1>2 DEF Ascending
  <2>4. \A i \in DOMAIN keep[n - 1] : \A k \in n .. Len(s) : keep[n - 1][i] < s[k]
    BY <2>2, <2>3
  <2>5. CASE s[n] \in S
    <3> DEFINE old == keep[n - 1]
               new == Append(old, s[n])
    <3>1. keep[n] = new BY <2>1, <2>5
    <3> HIDE DEF old
    <3>2. old \in Seq(Nat) /\ Ascending(old) /\ Len(old) \in Nat
      BY <2>2 DEF old
    <3>3. /\ new \in Seq(Nat) /\ DOMAIN new = 1 .. Len(old) + 1
          /\ \A i \in 1 .. Len(old) : new[i] = old[i] /\ i \in DOMAIN old
          /\ new[Len(old) + 1] = s[n]
      BY <3>2, <2>3
    <3>4. \A i \in 1 .. Len(old) : \A k \in n .. Len(s) : old[i] < s[k]
      BY <3>3, <2>4 DEF old
    <3> HIDE DEF new
    <3>5. n \in n .. Len(s) BY <1>2
    <3>6. ASSUME NEW i \in DOMAIN new, NEW j \in DOMAIN new, i < j
          PROVE  new[i] < new[j]
      <4>1. i \in 1 .. Len(old) /\ i \in DOMAIN old /\ new[i] = old[i]
        <5>1. i \in 1 .. Len(old) + 1 /\ j \in 1 .. Len(old) + 1 BY <3>3
        <5>2. i \in 1 .. Len(old) BY <5>1, <3>6, <3>2
        <5> QED BY <5>2, <3>3
      <4>2. CASE j = Len(old) + 1
        BY <4>1, <4>2, <3>3, <3>4, <3>5
      <4>3. CASE j \in 1 .. Len(old)
        BY <4>1, <4>3, <3>2, <3>3, <3>6 DEF Ascending
      <4> QED BY <4>2, <4>3, <3>2, <3>3
    <3>7. ASSUME NEW i \in DOMAIN new, NEW k \in n + 1 .. Len(s)
          PROVE  new[i] < s[k]
      <4>1. k \in n .. Len(s) /\ s[n] < s[k] BY <2>3
      <4>2. CASE i = Len(old) + 1
        BY <4>1, <4>2, <3>3
      <4>3. CASE i \in 1 .. Len(old)
        BY <4>1, <4>3, <3>3, <3>4
      <4> QED BY <4>2, <4>3, <3>2, <3>3
    <3>8. Ascending(new) BY <3>6 DEF Ascending
    <3> QED BY <2>3, <3>1, <3>3, <3>7, <3>8
  <2>6. CASE s[n] \notin S
    <3>1. keep[n] = keep[n - 1] BY <2>1, <2>6
    <3> QED BY <2>2, <2>3, <2>4, <3>1
  <2> QED BY <2>5, <2>6
<1>5. Len(s) \in P
  <2>1. \A n \in 1 .. Len(s) : n - 1 \in P => n \in P BY <1>4
  <2> HIDE DEF P
  <2>2. 0 .. Len(s) \subseteq P BY <1>2, <1>3, <2>1, UpTo
  <2> QED BY <1>2, <2>2
<1> QED BY <1>1, <1>5

(* Numbers in ascending order that start above 0 are not below their       *)
(* positions.                                                              *)
LEMMA AscendingBound ==
  ASSUME NEW s \in Seq(Nat), Ascending(s), \A i \in DOMAIN s : s[i] >= 1
  PROVE  \A i \in DOMAIN s : s[i] >= i
<1>1. Len(s) \in Nat /\ DOMAIN s = 1 .. Len(s) /\ \A i \in 1 .. Len(s) : s[i] \in Nat
  BY LenProperties
<1> DEFINE P == {n \in 0 .. Len(s) : n = 0 \/ s[n] >= n}
<1>2. 0 \in P BY <1>1
<1>3. ASSUME NEW n \in 1 .. Len(s), n - 1 \in P PROVE n \in P
  <2>1. n \in 0 .. Len(s) /\ n \in Nat BY <1>1
  <2>2. CASE n = 1 BY <1>1, <2>1, <2>2
  <2>3. CASE n # 1
    <3>1. n - 1 \in 1 .. Len(s) /\ n - 1 < n BY <1>1, <2>3
    <3>2. s[n - 1] >= n - 1 BY <1>3, <3>1
    <3>3. s[n - 1] < s[n] BY <1>1, <3>1 DEF Ascending
    <3>4. s[n] \in Nat /\ s[n - 1] \in Nat BY <1>1, <3>1
    <3>5. s[n] >= n BY <2>1, <3>2, <3>3, <3>4
    <3> QED BY <2>1, <3>5
  <2> QED BY <2>2, <2>3
<1>4. 0 .. Len(s) \subseteq P
  <2>1. \A n \in 1 .. Len(s) : n - 1 \in P => n \in P BY <1>3
  <2> HIDE DEF P
  <2> QED BY <1>1, <1>2, <2>1, UpTo
<1> QED BY <1>1, <1>4

(* The errors of a list are found in the order of the list, and are        *)
(* positions of reads that raised an exception.                            *)
LEMMA ErrorsElements ==
  ASSUME NEW list \in Seq(Usrps)
  PROVE  /\ Errors(list) \in Seq(Nat) /\ Ascending(Errors(list))
         /\ \A i \in DOMAIN Errors(list) :
              /\ Errors(list)[i] >= i
              /\ Errors(list)[i] \in DOMAIN list
              /\ ~Answers(list[Errors(list)[i]])
<1> DEFINE positions == [i \in 1 .. Len(list) |-> i]
           bad == {i \in DOMAIN list : ~Answers(list[i])}
<1>1. Len(list) \in Nat /\ DOMAIN list = 1 .. Len(list)
  BY LenProperties
<1>2. positions \in Seq(Nat) /\ Ascending(positions)
  BY <1>1 DEF Ascending
<1>3. Errors(list) = Those(positions, bad)
  BY DEF Errors
<1> HIDE DEF positions
<1>4. /\ Errors(list) \in Seq(Nat) /\ Ascending(Errors(list))
      /\ ToSet(Errors(list)) \subseteq bad
  BY <1>2, <1>3, ThoseElements, ThoseAscending
<1>5. \A i \in DOMAIN Errors(list) : Errors(list)[i] \in bad
  BY <1>4 DEF ToSet
<1>6. \A i \in DOMAIN Errors(list) : Errors(list)[i] >= 1
  BY <1>1, <1>5
<1>7. \A i \in DOMAIN Errors(list) : Errors(list)[i] >= i
  BY <1>4, <1>6, AscendingBound
<1> QED BY <1>4, <1>5, <1>7

(* A list without one of its elements.                                     *)
LEMMA WithoutElements ==
  ASSUME NEW X, NEW s \in Seq(X), NEW k \in DOMAIN s
  PROVE  /\ Without(s, k) \in Seq(X)
         /\ Len(Without(s, k)) = Len(s) - 1
         /\ DOMAIN Without(s, k) = 1 .. Len(s) - 1
         /\ ToSet(s) = ToSet(Without(s, k)) \cup {s[k]}
         /\ s[k] \in X
         /\ \A i \in k + 1 .. Len(s) : Without(s, k)[i - 1] = s[i]
<1>1. Len(s) \in Nat /\ DOMAIN s = 1 .. Len(s) /\ k \in 1 .. Len(s)
      /\ Len(s) - 1 \in Nat /\ \A i \in 1 .. Len(s) : s[i] \in X
  BY LenProperties
<1> DEFINE w == Without(s, k)
<1>2. /\ w \in Seq(X) /\ Len(w) = Len(s) - 1 /\ DOMAIN w = 1 .. Len(s) - 1
      /\ \A i \in 1 .. Len(s) - 1 : w[i] = IF i < k THEN s[i] ELSE s[i + 1]
  BY <1>1 DEF Without
<1> HIDE DEF w
<1>3. \A i \in k + 1 .. Len(s) : w[i - 1] = s[i]
  BY <1>1, <1>2
<1>4. ASSUME NEW i \in 1 .. Len(s) PROVE s[i] \in ToSet(w) \cup {s[k]}
  <2>1. CASE i < k
    <3>1. i \in 1 .. Len(s) - 1 /\ w[i] = s[i] BY <1>1, <1>2, <2>1
    <3> QED BY <3>1, <1>2 DEF ToSet
  <2>2. CASE i > k
    <3>1. i - 1 \in 1 .. Len(s) - 1 /\ w[i - 1] = s[i] BY <1>1, <1>3, <2>2
    <3> QED BY <3>1, <1>2 DEF ToSet
  <2> QED BY <1>1, <2>1, <2>2
<1>5. ASSUME NEW i \in 1 .. Len(s) - 1 PROVE w[i] \in ToSet(s)
  <2>1. i \in 1 .. Len(s) /\ i + 1 \in 1 .. Len(s) BY <1>1
  <2> QED BY <1>1, <1>2, <2>1 DEF ToSet
<1>6. ToSet(s) = ToSet(w) \cup {s[k]}
  BY <1>1, <1>2, <1>4, <1>5 DEF ToSet
<1> QED BY <1>1, <1>2, <1>3, <1>6 DEF w

(* AllSocks is what its recursion says.                                    *)
LEMMA AllSocksRecursion ==
  \E below :
    /\ AllSocks = below[N_RADARs] /\ below[0] = <<>>
    /\ \A n \in 1 .. N_RADARs : below[n] = below[n - 1] \o socks[n - 1]
<1> DEFINE Rec(f, m) == f = [n \in 0 .. m |->
                               IF n = 0 THEN <<>> ELSE f[n - 1] \o socks[n - 1]]
           P == {m \in Nat : \E f : Rec(f, m)}
           below[n \in 0 .. N_RADARs] ==
             IF n = 0 THEN <<>> ELSE below[n - 1] \o socks[n - 1]
<1>1. 0 \in P
  <2>1. Rec([n \in 0 .. 0 |-> <<>>], 0) OBVIOUS
  <2> QED BY <2>1
<1>2. ASSUME NEW m \in 1 .. N_RADARs, m - 1 \in P PROVE m \in P
  <2>1. PICK f : Rec(f, m - 1) BY <1>2
  <2> DEFINE last == f[m - 1] \o socks[m - 1]
             g == [n \in 0 .. m |-> IF n = m THEN last ELSE f[n]]
  <2>2. Rec(g, m)
    <3> SUFFICES ASSUME NEW n \in 0 .. m
        PROVE g[n] = IF n = 0 THEN <<>> ELSE g[n - 1] \o socks[n - 1]
      OBVIOUS
    <3>1. CASE n = m
      BY <3>1
    <3>2. CASE n # m
      <4>1. n \in 0 .. m - 1 /\ g[n] = f[n] BY <3>2
      <4>2. n # 0 => g[n - 1] = f[n - 1] BY <4>1
      <4> QED BY <2>1, <4>1, <4>2
    <3> QED BY <3>1, <3>2
  <2>3. m \in Nat OBVIOUS
  <2> HIDE DEF Rec, g
  <2> QED BY <2>2, <2>3
<1>3. N_RADARs \in P
  <2>1. \A n \in 1 .. N_RADARs : n - 1 \in P => n \in P BY <1>2
  <2>2. N_RADARs \in Nat /\ N_RADARs \in 0 .. N_RADARs OBVIOUS
  <2> HIDE DEF P
  <2>3. 0 .. N_RADARs \subseteq P BY <1>1, <2>1, <2>2, UpTo
  <2> QED BY <2>2, <2>3
<1>4. Rec(below, N_RADARs)
  <2>1. \E f : Rec(f, N_RADARs) BY <1>3
  <2> QED BY <2>1
<1>5. AllSocks = below[N_RADARs]
  BY DEF AllSocks
<1>6. below[0] = <<>>
  <2>1. 0 \in 0 .. N_RADARs OBVIOUS
  <2> HIDE DEF below
  <2> QED BY <1>4, <2>1
<1>7. ASSUME NEW n \in 1 .. N_RADARs PROVE below[n] = below[n - 1] \o socks[n - 1]
  <2>1. n \in 0 .. N_RADARs /\ n # 0 OBVIOUS
  <2> HIDE DEF below
  <2> QED BY <1>4, <2>1
<1> QED BY <1>5, <1>6, <1>7

(* The list of all sockets has those of every radar.                       *)
LEMMA AllSocksElements ==
  ASSUME socks \in [Radars -> Seq(Usrps)]
  PROVE  /\ AllSocks \in Seq(Usrps)
         /\ \A u : u \in ToSet(AllSocks) <=> InService(u)
<1>1. PICK below :
        /\ AllSocks = below[N_RADARs] /\ below[0] = <<>>
        /\ \A n \in 1 .. N_RADARs : below[n] = below[n - 1] \o socks[n - 1]
  BY AllSocksRecursion
<1> DEFINE seen(n) == UNION {ToSet(socks[r]) : r \in 0 .. n - 1}
           Right(n) == below[n] \in Seq(Usrps) /\ ToSet(below[n]) = seen(n)
           P == {n \in 0 .. N_RADARs : Right(n)}
<1>2. 0 \in P
  <2>1. ToSet(<<>>) = {} /\ <<>> \in Seq(Usrps) BY DEF ToSet
  <2>2. seen(0) = {} OBVIOUS
  <2>3. Right(0) BY <1>1, <2>1, <2>2
  <2>4. 0 \in 0 .. N_RADARs OBVIOUS
  <2> QED BY <2>3, <2>4
<1>3. ASSUME NEW n \in 1 .. N_RADARs, n - 1 \in P PROVE n \in P
  <2>1. n - 1 \in Radars /\ n \in 0 .. N_RADARs BY DEF Radars
  <2>2. socks[n - 1] \in Seq(Usrps) BY <2>1
  <2>3. Right(n - 1) BY <1>3
  <2>4. seen(n) = seen(n - 1) \cup ToSet(socks[n - 1])
    <3>1. 0 .. n - 1 = (0 .. (n - 1) - 1) \cup {n - 1} OBVIOUS
    <3> QED BY <3>1
  <2>5. below[n] = below[n - 1] \o socks[n - 1] BY <1>1
  <2> HIDE DEF seen
  <2>6. below[n] \in Seq(Usrps)
        /\ ToSet(below[n]) = ToSet(below[n - 1]) \cup ToSet(socks[n - 1])
    BY <2>2, <2>3, <2>5, JoinElements
  <2>7. Right(n) BY <2>3, <2>4, <2>6
  <2> HIDE DEF Right
  <2> QED BY <2>1, <2>7
<1>4. Right(N_RADARs)
  <2>1. \A n \in 1 .. N_RADARs : n - 1 \in P => n \in P BY <1>3
  <2>2. N_RADARs \in Nat /\ N_RADARs \in 0 .. N_RADARs OBVIOUS
  <2> HIDE DEF P
  <2>3. 0 .. N_RADARs \subseteq P BY <1>2, <2>1, <2>2, UpTo
  <2>4. N_RADARs \in P BY <2>2, <2>3
  <2> QED BY <2>4 DEF P
<1>5. ASSUME NEW u PROVE u \in seen(N_RADARs) <=> InService(u)
  BY DEF InService, Radars
<1> QED BY <1>1, <1>4, <1>5

(* Elements that move from one list to another: l, p, q, m are lengths.    *)
LEMMA Moved ==
  ASSUME NEW l, NEW p, NEW q, NEW m, NEW lp, NEW n,
         l \in Nat, p \in Nat, q \in Nat, m \in Nat,
         p + q = m, l + m = n, lp = l + p
  PROVE  lp + q = n
OBVIOUS
----------------------------------------------------------------------------
(* The initial states, and the steps of the server one by one.             *)

LEMMA InitFleet == Init => FleetInv
<1> SUFFICES ASSUME Init PROVE FleetInv
  OBVIOUS
<1> USE DEF Init
<1>1. TypeOK
  <2>1. /\ <<>> \in Seq(Usrps) /\ <<>> \in Seq(Nat)
        /\ socks \in [Radars -> Seq(Usrps)] /\ inactive \in [Radars -> Seq(Usrps)]
    OBVIOUS
  <2> QED BY <2>1 DEF TypeOK, Commands
<1>2. Control BY DEF Control
<1>3. Whole BY DEF Whole
<1>4. ErrorsInOrder /\ OwnErrors /\ AllAsked
  BY DEF ErrorsInOrder, OwnErrors, AllAsked
<1>5. InStep BY DEF InStep, Synchronised
<1> QED BY <1>1, <1>2, <1>3, <1>4, <1>5 DEF FleetInv

(* The server, or its main thread, ends.                                   *)
LEMMA Ends ==
  ASSUME FleetInv, main' \in {"down", "dead", "stuck"},
         main' = "down" \/ main \notin {"connect", "down"},
         booting' \in BOOLEAN, Abandoned, scanning' \subseteq Radars,
         UNCHANGED <<cmd, lists, status>>,
         proc' \in [Usrps -> {"down", "starting", "up", "hung"}],
         away' \subseteq Usrps \ Local,
         link' \in [Usrps -> {"none", "open", "closed", "reset"}],
         synced' \in [Usrps -> BOOLEAN], faults' \in Nat
  PROVE  FleetInv'
<1>1. /\ todo' = {} /\ period' = {} /\ clients' = <<>> /\ errs' = <<>>
      /\ offset' = 0 /\ jrad' = NoRadar /\ lost' = {}
      /\ cmd' = cmd /\ socks' = socks /\ inactive' = inactive
      /\ allFailed' = allFailed /\ errorsInARow' = errorsInARow
  BY DEF Abandoned, Returned, lists, status
<1>2. TypeOK' BY <1>1 DEF FleetInv, TypeOK
<1>3. Control' BY DEF Control
<1>4. Whole' BY <1>1 DEF FleetInv, Whole
<1>5. (ErrorsInOrder /\ OwnErrors /\ AllAsked)'
  BY DEF ErrorsInOrder, OwnErrors, AllAsked
<1>6. InStep' BY DEF InStep, Synchronised
<1> QED BY <1>2, <1>3, <1>4, <1>5, <1>6 DEF FleetInv

LEMMA ExitStep ==
  ASSUME FleetInv, Exit
  PROVE  FleetInv'
<1>1. /\ main' = "down" /\ booting' = TRUE /\ scanning' = {} /\ Abandoned
      /\ link' = [u \in Usrps |-> "none"]
      /\ UNCHANGED <<cmd, lists, status, proc, away, synced, faults>>
  BY DEF Exit, hosts
<1> QED BY <1>1, Ends DEF FleetInv, TypeOK

LEMMA DieStep ==
  ASSUME FleetInv, main \notin {"connect", "down"}, Die
  PROVE  FleetInv'
<1>1. CASE Exit BY <1>1, ExitStep
<1>2. CASE ~Exit
  <2>1. /\ main' = "dead" /\ Abandoned
        /\ UNCHANGED <<cmd, booting, lists, status, scanning, drivers>>
    BY <1>2 DEF Die
  <2> QED BY <2>1, Ends DEF FleetInv, TypeOK, drivers, hosts
<1> QED BY <1>1, <1>2

LEMMA StuckStep ==
  ASSUME FleetInv, main \notin {"connect", "down"}, Stuck
  PROVE  FleetInv'
<1>1. /\ main' = "stuck" /\ Abandoned
      /\ UNCHANGED <<cmd, booting, lists, status, scanning, drivers>>
  BY DEF Stuck
<1> QED BY <1>1, Ends DEF FleetInv, TypeOK, drivers, hosts

(* The main thread starts to connect; nothing else changes.                *)
LEMMA StartServerStep ==
  ASSUME FleetInv, StartServer
  PROVE  FleetInv'
<1> USE DEF StartServer, FleetInv, cursor, lists, status, drivers, hosts
<1>1. TypeOK' BY DEF TypeOK
<1>2. Control' BY DEF Control
<1>3. Whole' BY DEF Whole
<1>4. (ErrorsInOrder /\ OwnErrors /\ AllAsked)'
  BY DEF ErrorsInOrder, OwnErrors, AllAsked
<1>5. InStep' BY DEF InStep, Synchronised
<1> QED BY <1>1, <1>2, <1>3, <1>4, <1>5

(* The USRPs that accept a connection and the others are all there are.    *)
LEMMA ConnectAllStep ==
  ASSUME FleetInv, ConnectAll
  PROVE  FleetInv'
<1> USE DEF FleetInv
<1>1. /\ main = "connect"
      /\ socks' = [r \in Radars |-> Those(Config[r], Reachable)]
      /\ inactive' = [r \in Radars |-> Those(Config[r], Usrps \ Reachable)]
      /\ link' = [u \in Usrps |-> IF u \in Reachable THEN "open" ELSE "none"]
      /\ \/ main' = "send" /\ cmd' = "SYNC"
         \/ main' = "down" /\ cmd' = cmd
      /\ errorsInARow' = 0
      /\ UNCHANGED <<booting, todo, period, clients, errs, offset, jrad, lost,
                     allFailed, scanning, proc, away, synced, faults>>
  BY DEF ConnectAll, Resync, cursor, hosts
<1>2. ASSUME NEW r \in Radars
      PROVE  /\ socks'[r] \in Seq(Usrps) /\ inactive'[r] \in Seq(Usrps)
             /\ ToSet(socks'[r]) \cup ToSet(inactive'[r]) = ToSet(Config[r])
             /\ Len(socks'[r]) + Len(inactive'[r]) = Len(Config[r])
  <2>1. Config[r] \in Seq(Usrps) BY ConfigAssumption
  <2>2. socks'[r] = Those(Config[r], Reachable)
        /\ inactive'[r] = Those(Config[r], Usrps \ Reachable)
    BY <1>1
  <2>3. ToSet(Config[r]) \subseteq Usrps BY <2>1 DEF ToSet
  <2>4. /\ socks'[r] \in Seq(Usrps) /\ ToSet(socks'[r]) = ToSet(Config[r]) \cap Reachable
        /\ inactive'[r] \in Seq(Usrps)
        /\ ToSet(inactive'[r]) = ToSet(Config[r]) \cap (Usrps \ Reachable)
    BY <2>1, <2>2, ThoseElements
  <2>5. Len(socks'[r]) + Len(inactive'[r]) = Len(Config[r])
    BY <2>1, <2>2, ThoseSplit
  <2> QED BY <2>3, <2>4, <2>5
<1>3. TypeOK' BY <1>1, <1>2 DEF TypeOK, Commands
<1>4. Control' BY <1>1 DEF Control
<1>5. Whole' BY <1>2 DEF Whole
<1>6. (ErrorsInOrder /\ OwnErrors /\ AllAsked)'
  BY <1>1 DEF ErrorsInOrder, OwnErrors, AllAsked
<1>7. InStep' BY <1>1 DEF InStep, Synchronised
<1> QED BY <1>3, <1>4, <1>5, <1>6, <1>7

LEMMA ConnectStep ==
  ASSUME FleetInv, Connect
  PROVE  FleetInv'
BY ConnectAllStep, ExitStep DEF Connect, NoRoute

LEMMA RestoreStep ==
  ASSUME FleetInv, Restore
  PROVE  FleetInv'
<1> USE DEF FleetInv
<1>1. /\ main = "loop" /\ main' = "send" /\ cmd' = "SYNC"
      /\ socks' = [r \in Radars |-> socks[r] \o Those(inactive[r], Reachable)]
      /\ inactive' = [r \in Radars |-> Those(inactive[r], Usrps \ Reachable)]
      /\ link' = [u \in Usrps |->
                    IF u \in Reachable /\ Listed(inactive, u) THEN "open"
                    ELSE link[u]]
      /\ UNCHANGED <<booting, todo, period, clients, errs, offset, jrad, lost,
                     status, scanning, proc, away, synced, faults>>
  BY DEF Restore, Resync, cursor, hosts
<1>2. ASSUME NEW r \in Radars
      PROVE  /\ socks'[r] \in Seq(Usrps) /\ inactive'[r] \in Seq(Usrps)
             /\ ToSet(socks'[r]) \cup ToSet(inactive'[r]) = ToSet(Config[r])
             /\ Len(socks'[r]) + Len(inactive'[r]) = Len(Config[r])
  <2>1. socks[r] \in Seq(Usrps) /\ inactive[r] \in Seq(Usrps) BY DEF TypeOK
  <2> DEFINE back == Those(inactive[r], Reachable)
  <2>2. socks'[r] = socks[r] \o back
        /\ inactive'[r] = Those(inactive[r], Usrps \ Reachable)
    BY <1>1
  <2>3. ToSet(inactive[r]) \subseteq Usrps BY <2>1 DEF ToSet
  <2>4. /\ back \in Seq(Usrps) /\ ToSet(back) = ToSet(inactive[r]) \cap Reachable
        /\ inactive'[r] \in Seq(Usrps)
        /\ ToSet(inactive'[r]) = ToSet(inactive[r]) \cap (Usrps \ Reachable)
    BY <2>1, <2>2, ThoseElements
  <2>5. Len(back) + Len(inactive'[r]) = Len(inactive[r])
    BY <2>1, <2>2, ThoseSplit
  <2>6. /\ ToSet(socks[r]) \cup ToSet(inactive[r]) = ToSet(Config[r])
        /\ Len(socks[r]) + Len(inactive[r]) = Len(Config[r])
    BY <1>1 DEF Whole
  <2> HIDE DEF back
  <2>7. /\ socks'[r] \in Seq(Usrps) /\ Len(socks'[r]) = Len(socks[r]) + Len(back)
        /\ ToSet(socks'[r]) = ToSet(socks[r]) \cup ToSet(back)
    BY <2>1, <2>2, <2>4, JoinElements
  <2>8. Len(socks'[r]) + Len(inactive'[r]) = Len(Config[r])
    <3> DEFINE l == Len(socks[r])
               p == Len(back)
               q == Len(inactive'[r])
               m == Len(inactive[r])
               lp == Len(socks'[r])
               n == Len(Config[r])
    <3>1. /\ l \in Nat /\ p \in Nat /\ q \in Nat /\ m \in Nat
          /\ p + q = m /\ l + m = n /\ lp = l + p
      BY <2>1, <2>4, <2>5, <2>6, <2>7, LenProperties
    <3> HIDE DEF l, p, q, m, lp, n
    <3>2. lp + q = n BY <3>1, Moved
    <3> QED BY <3>2 DEF lp, q, n
  <2> QED BY <2>3, <2>4, <2>6, <2>7, <2>8
<1>3. TypeOK' BY <1>1, <1>2 DEF TypeOK, Commands, status
<1>4. Control' BY <1>1 DEF Control
<1>5. Whole' BY <1>2 DEF Whole
<1>6. (ErrorsInOrder /\ OwnErrors /\ AllAsked)'
  BY <1>1 DEF ErrorsInOrder, OwnErrors, AllAsked
<1>7. InStep' BY <1>1 DEF InStep, Synchronised
<1> QED BY <1>3, <1>4, <1>5, <1>6, <1>7

(* USRP_SYNC and GET_TIME take the sockets of all radars.                  *)
LEMMA SendStep ==
  ASSUME FleetInv, Send
  PROVE  FleetInv'
<1> USE DEF FleetInv
<1>1. /\ main = "send" /\ main' = "receive"
      /\ clients' = IF cmd \in {"SYNC", "TIME"} THEN AllSocks ELSE clients
      /\ todo' = IF cmd = "RXFE" THEN Radars ELSE period
      /\ errs' = <<>> /\ offset' = 0 /\ allFailed' = TRUE
      /\ UNCHANGED <<cmd, booting, period, jrad, lost, socks, inactive,
                     errorsInARow, scanning, proc, away, link, synced, faults>>
  BY DEF Send, lists, drivers, hosts
<1>2. AllSocks \in Seq(Usrps) /\ \A u : u \in ToSet(AllSocks) <=> InService(u)
  BY AllSocksElements DEF TypeOK
<1>3. TypeOK' BY <1>1, <1>2 DEF TypeOK
<1>4. Control'
  <2>1. Radars # {} BY DEF Radars
  <2>2. cmd \in {"SYNC", "TIME", "RXFE", "TRIGGER", "META"}
        /\ (cmd \in {"TRIGGER", "META"} => period # {})
    BY <1>1 DEF Control
  <2> QED BY <1>1, <2>1, <2>2 DEF Control, ToAll
<1>5. Whole' BY <1>1 DEF Whole
<1>6. (ErrorsInOrder /\ OwnErrors)'
  BY <1>1 DEF ErrorsInOrder, OwnErrors
<1>7. AllAsked' BY <1>1, <1>2 DEF AllAsked, InService
<1>8. InStep' BY <1>1 DEF InStep, Synchronised, InService
<1> QED BY <1>3, <1>4, <1>5, <1>6, <1>7, <1>8

(* The sockets a command is answered on.                                   *)
LEMMA ClientsType ==
  ASSUME FleetInv, main = "receive" 
  PROVE  /\ Clients \in Seq(Usrps)
         /\ cmd \notin ToAll => First(todo) \in Radars /\ Clients = socks[First(todo)]
<1>1. CASE cmd \in ToAll BY <1>1 DEF FleetInv, TypeOK, Clients
<1>2. CASE cmd \notin ToAll
  <2>1. First(todo) \in Radars
    <3>1. todo \subseteq Radars /\ todo # {}
      BY <1>2 DEF FleetInv, TypeOK, Control
    <3> QED BY <3>1, FirstOf
  <2> QED BY <1>2, <2>1 DEF FleetInv, TypeOK, Clients
<1> QED BY <1>1, <1>2

LEMMA ReceiveStep ==
  ASSUME FleetInv, Receive
  PROVE  FleetInv'
<1> USE DEF FleetInv
<1>1. main = "receive" /\ cmd # "TIME" BY DEF Receive
<1>2. CASE Stuck
  BY <1>1, <1>2, StuckStep
<1>3. CASE ~Stuck
  <2>1. /\ main' = "remove" /\ errs' = Errors(Clients) /\ offset' = 0
        /\ lost' = {Clients[i] : i \in ToSet(errs')}
        /\ jrad' = IF cmd \in ToAll THEN NoRadar ELSE First(todo)
        /\ IF cmd = "SYNC" THEN SetClocks ELSE UNCHANGED <<synced, faults>>
        /\ UNCHANGED <<cmd, booting, todo, period, clients, socks, inactive,
                       status, scanning, proc, away>>
        /\ link' = Drained(lost')
    BY <1>3 DEF Receive, lists, hosts
  <2>2. /\ Clients \in Seq(Usrps)
        /\ cmd \notin ToAll => First(todo) \in Radars /\ Clients = socks[First(todo)]
    BY <1>1, ClientsType
  <2>3. /\ errs' \in Seq(Nat) /\ Ascending(errs')
        /\ \A i \in DOMAIN errs' : errs'[i] >= i /\ errs'[i] \in DOMAIN Clients
    BY <2>1, <2>2, ErrorsElements
  <2>4. synced' \in [Usrps -> BOOLEAN] /\ faults' \in Nat
        /\ (cmd # "SYNC" => synced' = synced)
    <3>1. CASE cmd = "SYNC"
      <4>1. faults' \in Nat BY <2>1, <3>1 DEF TypeOK, SetClocks
      <4>2. \E S : synced' = [u \in Usrps |-> u \in S]
        BY <2>1, <3>1 DEF SetClocks
      <4>3. synced' \in [Usrps -> BOOLEAN] BY <4>2
      <4> QED BY <3>1, <4>1, <4>3
    <3>2. CASE cmd # "SYNC" BY <2>1, <3>2 DEF TypeOK
    <3> QED BY <3>1, <3>2
  <2>5. ASSUME NEW i \in DOMAIN errs'
        PROVE  errs'[i] \in DOMAIN Clients /\ Clients[errs'[i]] \in lost'
                 /\ Clients[errs'[i]] \in Usrps
    BY <2>1, <2>2, <2>3 DEF ToSet
  <2>6. lost' \subseteq Usrps BY <2>1, <2>5 DEF ToSet
  <2>7. TypeOK'
    <3>1. jrad' \in Radars \cup {NoRadar} BY <2>1, <2>2
    <3>2. link' \in [Usrps -> {"none", "open", "closed", "reset"}]
      BY <2>1 DEF TypeOK, Drained
    <3> QED BY <2>1, <2>3, <2>4, <2>6, <3>1, <3>2 DEF TypeOK, status
  <2>8. Control' BY <1>1, <2>1 DEF Control
  <2>9. Whole' BY <1>1, <2>1 DEF Whole
  <2>10. ErrorsInOrder' 
    <3>1. \A i \in DOMAIN errs' : offset' + i = i
      BY <2>1, <2>3, LenProperties
    <3>2. \A i \in DOMAIN errs' : errs'[i] >= offset' + i
      BY <2>3, <3>1
    <3> QED BY <2>3, <3>2 DEF ErrorsInOrder, Ascending
  <2>11. OwnErrors'
    <3> SUFFICES ASSUME cmd \notin ToAll
        PROVE  /\ jrad' \in Radars
               /\ \A i \in DOMAIN errs' :
                    /\ errs'[i] - offset' \in DOMAIN socks[jrad']
                    /\ socks[jrad'][errs'[i] - offset'] \in lost'
      BY <2>1 DEF OwnErrors
    <3>1. jrad' \in Radars /\ Clients = socks[jrad'] BY <2>1, <2>2
    <3>2. ASSUME NEW i \in DOMAIN errs' PROVE errs'[i] - offset' = errs'[i]
      <4>1. errs'[i] \in Nat BY <2>3
      <4> QED BY <4>1, <2>1
    <3> QED BY <3>1, <3>2, <2>5
  <2>12. AllAsked' BY <2>1 DEF AllAsked
  <2>13. InStep'
    <3>1. \A u \in Usrps : link'[u] = "open" => link[u] = "open"
      BY <2>1 DEF Drained
    <3> QED BY <1>1, <2>1, <2>4, <3>1 DEF InStep, Synchronised, InService
  <2> QED BY <2>7, <2>8, <2>9, <2>10, <2>11, <2>12, <2>13
<1> QED BY <1>2, <1>3

(* A radar's list without those whose read of the time raised an exception *)
(* has only USRPs whose times were compared.                               *)
LEMMA ReceiveTimesStep ==
  ASSUME FleetInv, ReceiveTimes
  PROVE  FleetInv'
<1> USE DEF FleetInv
<1>1. main = "receive" /\ cmd = "TIME" BY DEF ReceiveTimes
<1>2. CASE Stuck
  BY <1>1, <1>2, StuckStep
<1>3. CASE ~Stuck
  <2>1. /\ lost' = {u \in ToSet(clients) : ~Answers(u)}
        /\ socks' = [r \in Radars |-> Those(socks[r], Usrps \ lost')]
        /\ inactive' = [r \in Radars |-> inactive[r] \o Those(socks[r], lost')]
        /\ link' = [u \in Usrps |->
                      IF u \in lost' /\ link[u] = "reset" THEN "closed"
                                                          ELSE link[u]]
        /\ cmd' = IF TimesAgree THEN "STALE" ELSE "RETRY"
        /\ UNCHANGED <<main, booting, todo, period, clients, errs, offset,
                       jrad, status, scanning, proc, away, synced, faults>>
    BY <1>3 DEF ReceiveTimes, Drained, hosts
  <2>2. clients \in Seq(Usrps) /\ ToSet(clients) \subseteq Usrps
    BY DEF TypeOK, ToSet
  <2>3. ASSUME NEW r \in Radars
        PROVE  /\ socks'[r] \in Seq(Usrps) /\ inactive'[r] \in Seq(Usrps)
               /\ ToSet(socks'[r]) = ToSet(socks[r]) \cap (Usrps \ lost')
               /\ ToSet(socks'[r]) \cup ToSet(inactive'[r]) = ToSet(Config[r])
               /\ Len(socks'[r]) + Len(inactive'[r]) = Len(Config[r])
    <3>1. socks[r] \in Seq(Usrps) /\ inactive[r] \in Seq(Usrps) BY DEF TypeOK
    <3> DEFINE gone == Those(socks[r], lost')
    <3>2. inactive'[r] = inactive[r] \o gone
          /\ socks'[r] = Those(socks[r], Usrps \ lost')
      BY <2>1
    <3>3. ToSet(socks[r]) \subseteq Usrps BY <3>1 DEF ToSet
    <3>4. /\ gone \in Seq(Usrps) /\ ToSet(gone) = ToSet(socks[r]) \cap lost'
          /\ socks'[r] \in Seq(Usrps)
          /\ ToSet(socks'[r]) = ToSet(socks[r]) \cap (Usrps \ lost')
      BY <3>1, <3>2, ThoseElements
    <3>5. Len(gone) + Len(socks'[r]) = Len(socks[r])
      <4>1. Len(Those(socks[r], lost')) + Len(Those(socks[r], Usrps \ lost'))
              = Len(socks[r])
        BY <3>1, ThoseSplit
      <4> QED BY <3>2, <4>1
    <3>6. /\ ToSet(socks[r]) \cup ToSet(inactive[r]) = ToSet(Config[r])
          /\ Len(socks[r]) + Len(inactive[r]) = Len(Config[r])
      BY <1>1 DEF Whole
    <3> HIDE DEF gone
    <3>7. /\ inactive'[r] \in Seq(Usrps)
          /\ Len(inactive'[r]) = Len(inactive[r]) + Len(gone)
          /\ ToSet(inactive'[r]) = ToSet(inactive[r]) \cup ToSet(gone)
      BY <3>1, <3>2, <3>4, JoinElements
    <3>8. Len(socks'[r]) + Len(inactive'[r]) = Len(Config[r])
      <4> DEFINE l == Len(inactive[r])
                 p == Len(gone)
                 q == Len(socks'[r])
                 m == Len(socks[r])
                 lp == Len(inactive'[r])
                 n == Len(Config[r])
      <4>1. /\ l \in Nat /\ p \in Nat /\ q \in Nat /\ m \in Nat
            /\ p + q = m /\ m + l = n /\ lp = l + p
        BY <3>1, <3>4, <3>5, <3>6, <3>7, LenProperties
      <4> HIDE DEF l, p, q, m, lp, n
      <4>2. q + lp = n BY <4>1
      <4> QED BY <4>2 DEF lp, q, n
    <3> QED BY <3>3, <3>4, <3>6, <3>7, <3>8
  <2>4. TypeOK'
    <3>1. /\ socks' \in [Radars -> Seq(Usrps)] /\ inactive' \in [Radars -> Seq(Usrps)]
      BY <2>1, <2>3
    <3>2. link' \in [Usrps -> {"none", "open", "closed", "reset"}]
      BY <2>1 DEF TypeOK
    <3>3. lost' \subseteq Usrps BY <2>1, <2>2
    <3>4. cmd' \in Commands BY <2>1 DEF Commands
    <3> QED BY <2>1, <3>1, <3>2, <3>3, <3>4 DEF TypeOK, status
  <2>5. Control' BY <1>1, <2>1 DEF Control, ToAll
  <2>6. Whole' BY <2>3 DEF Whole
  <2>7. (ErrorsInOrder /\ OwnErrors /\ AllAsked)'
    BY <1>1, <2>1 DEF ErrorsInOrder, OwnErrors, AllAsked
  <2>8. InStep'
    <3> SUFFICES ASSUME TimesAgree, NEW u \in Usrps, NEW v \in Usrps, u # v,
                        InService(u)', link'[u] = "open",
                        InService(v)', link'[v] = "open"
        PROVE  synced'[u] /\ synced'[v]
      BY <1>1, <2>1 DEF InStep, Synchronised
    <3>1. ASSUME NEW w \in Usrps, InService(w)'
          PROVE  w \in ToSet(clients) /\ Answers(w)
      <4>1. PICK r \in Radars : w \in ToSet(socks'[r]) BY <3>1 DEF InService
      <4>2. w \in ToSet(socks[r]) /\ w \notin lost' BY <4>1, <2>3
      <4>3. w \in ToSet(clients) BY <4>2, <1>1 DEF AllAsked, InService
      <4> QED BY <4>2, <4>3, <2>1
    <3>2. synced[u] /\ synced[v] BY <3>1 DEF TimesAgree
    <3> QED BY <3>2, <2>1
  <2> QED BY <2>4, <2>5, <2>6, <2>7, <2>8
<1> QED BY <1>2, <1>3

(* The socket eval_client_return removes is one of its radar's, and the    *)
(* one the error was found at if the radar is known.                       *)
LEMMA BadSocket ==
  ASSUME FleetInv, main = "remove", errs # <<>>, BadExists
  PROVE  /\ BadRadar \in Radars /\ BadIndex \in DOMAIN socks[BadRadar]
         /\ jrad # NoRadar => BadRadar = jrad /\ BadIndex = Head(errs) - offset
<1> USE DEF FleetInv
<1>1. /\ errs \in Seq(Nat) /\ offset \in Nat /\ Head(errs) = errs[1]
      /\ 1 \in DOMAIN errs /\ Head(errs) \in Nat
  BY DEF TypeOK
<1>2. Head(errs) >= offset + 1 BY <1>1 DEF ErrorsInOrder
<1>3. BadPosition \in Nat /\ BadPosition >= 1 BY <1>1, <1>2 DEF BadPosition
<1>4. CASE jrad # NoRadar
  <2>1. BadRadar = jrad /\ BadIndex = BadPosition /\ jrad \in Radars
    BY <1>4 DEF BadRadar, BadIndex, TypeOK
  <2>2. socks[jrad] \in Seq(Usrps) BY <2>1 DEF TypeOK
  <2>3. BadPosition <= Len(socks[jrad]) BY <1>4 DEF BadExists
  <2>4. BadPosition \in DOMAIN socks[jrad]
    BY <1>3, <2>2, <2>3, LenProperties
  <2> QED BY <2>1, <2>4 DEF BadPosition
<1>5. CASE jrad = NoRadar
  <2>1. AllSocks \in Seq(Usrps) /\ \A u : u \in ToSet(AllSocks) <=> InService(u)
    BY AllSocksElements DEF TypeOK
  <2>2. BadPosition <= Len(AllSocks) BY <1>5 DEF BadExists
  <2>3. BadPosition \in DOMAIN AllSocks BY <1>3, <2>1, <2>2, LenProperties
  <2> DEFINE u == AllSocks[BadPosition]
  <2>4. InService(u) BY <2>1, <2>3 DEF ToSet
  <2>5. BadRadar \in Radars /\ u \in ToSet(socks[BadRadar])
    BY <1>5, <2>4 DEF BadRadar, InService
  <2>6. \E i \in DOMAIN socks[BadRadar] : socks[BadRadar][i] = u
    BY <2>5 DEF ToSet
  <2>7. BadIndex \in DOMAIN socks[BadRadar]
    BY <1>5, <2>6 DEF BadIndex
  <2> QED BY <1>5, <2>5, <2>7
<1> QED BY <1>4, <1>5

(* What remove_sock leaves.                                                *)
LEMMA RemoveSockLists ==
  ASSUME FleetInv, main = "remove", NEW r \in Radars, NEW k \in DOMAIN socks[r],
         RemoveSock(r, k)
  PROVE  /\ socks' \in [Radars -> Seq(Usrps)] /\ inactive' \in [Radars -> Seq(Usrps)]
         /\ socks'[r] = Without(socks[r], k)
         /\ \A q \in Radars :
              /\ ToSet(socks'[q]) \subseteq ToSet(socks[q])
              /\ \A u : u \in ToSet(socks[q]) /\ u # socks[r][k] =>
                          u \in ToSet(socks'[q])
              /\ ToSet(socks'[q]) \cup ToSet(inactive'[q]) = ToSet(Config[q])
              /\ Len(socks'[q]) + Len(inactive'[q]) = Len(Config[q])
<1> USE DEF FleetInv
<1>1. /\ socks' = [socks EXCEPT ![r] = Without(socks[r], k)]
      /\ inactive' = [inactive EXCEPT ![r] = Append(inactive[r], socks[r][k])]
      /\ socks \in [Radars -> Seq(Usrps)] /\ inactive \in [Radars -> Seq(Usrps)]
  BY DEF RemoveSock, TypeOK
<1>2. socks[r] \in Seq(Usrps) /\ inactive[r] \in Seq(Usrps) BY <1>1
<1>3. /\ Without(socks[r], k) \in Seq(Usrps)
      /\ Len(Without(socks[r], k)) = Len(socks[r]) - 1
      /\ ToSet(socks[r]) = ToSet(Without(socks[r], k)) \cup {socks[r][k]}
      /\ socks[r][k] \in Usrps
  <2> DEFINE s == socks[r]
  <2>1. s \in Seq(Usrps) /\ k \in DOMAIN s BY <1>2
  <2> HIDE DEF s
  <2>2. /\ Without(s, k) \in Seq(Usrps)
        /\ Len(Without(s, k)) = Len(s) - 1
        /\ ToSet(s) = ToSet(Without(s, k)) \cup {s[k]}
        /\ s[k] \in Usrps
    BY <2>1, WithoutElements
  <2> QED BY <2>2 DEF s
<1>4. /\ Append(inactive[r], socks[r][k]) \in Seq(Usrps)
      /\ Len(Append(inactive[r], socks[r][k])) = Len(inactive[r]) + 1
      /\ ToSet(Append(inactive[r], socks[r][k])) = ToSet(inactive[r]) \cup {socks[r][k]}
  BY <1>2, <1>3, AppendElements
<1>5. /\ socks'[r] = Without(socks[r], k)
      /\ inactive'[r] = Append(inactive[r], socks[r][k])
      /\ \A q \in Radars \ {r} : socks'[q] = socks[q] /\ inactive'[q] = inactive[q]
  BY <1>1
<1>6. socks' \in [Radars -> Seq(Usrps)] /\ inactive' \in [Radars -> Seq(Usrps)]
  BY <1>1, <1>3, <1>4
<1>7. \A q \in Radars : /\ ToSet(socks[q]) \cup ToSet(inactive[q]) = ToSet(Config[q])
                        /\ Len(socks[q]) + Len(inactive[q]) = Len(Config[q])
  BY DEF Whole
<1>8. Len(socks'[r]) + Len(inactive'[r]) = Len(Config[r])
  <2> DEFINE l == Len(socks[r])
             m == Len(inactive[r])
             n == Len(Config[r])
             lw == Len(Without(socks[r], k))
             ma == Len(Append(inactive[r], socks[r][k]))
  <2>1. l \in Nat /\ m \in Nat /\ l + m = n /\ lw = l - 1 /\ ma = m + 1
    BY <1>2, <1>3, <1>4, <1>7, LenProperties
  <2> HIDE DEF l, m, n, lw, ma
  <2>2. lw + ma = n BY <2>1
  <2> QED BY <1>5, <2>2 DEF lw, ma, n
<1>9. ASSUME NEW q \in Radars
      PROVE  /\ ToSet(socks'[q]) \subseteq ToSet(socks[q])
             /\ \A u : u \in ToSet(socks[q]) /\ u # socks[r][k] =>
                         u \in ToSet(socks'[q])
             /\ ToSet(socks'[q]) \cup ToSet(inactive'[q]) = ToSet(Config[q])
             /\ Len(socks'[q]) + Len(inactive'[q]) = Len(Config[q])
  <2>1. CASE q # r BY <2>1, <1>5, <1>7
  <2>2. CASE q = r BY <2>2, <1>3, <1>4, <1>5, <1>7, <1>8
  <2> QED BY <2>1, <2>2
<1> QED BY <1>5, <1>6, <1>9

LEMMA RemoveLostStep ==
  ASSUME FleetInv, RemoveLost
  PROVE  FleetInv'
<1> USE DEF FleetInv
<1>1. main = "remove" /\ errs # <<>> BY DEF RemoveLost
<1>2. CASE ~BadExists
  BY <1>1, <1>2, DieStep DEF RemoveLost
<1>3. CASE BadExists
  <2> DEFINE k == BadIndex
  <2>1. /\ RemoveSock(BadRadar, k)
        /\ jrad' = BadRadar /\ errs' = Tail(errs) /\ offset' = offset + 1
        /\ UNCHANGED <<main, cmd, booting, todo, period, clients, lost,
                       status, scanning, proc, away, link, synced, faults>>
    BY <1>3 DEF RemoveLost, drivers, hosts
  <2>2. /\ BadRadar \in Radars /\ k \in DOMAIN socks[BadRadar]
        /\ jrad # NoRadar => BadRadar = jrad /\ k = Head(errs) - offset
    BY <1>1, <1>3, BadSocket
  <2> HIDE DEF k
  <2>3. /\ socks' \in [Radars -> Seq(Usrps)] /\ inactive' \in [Radars -> Seq(Usrps)]
        /\ socks'[BadRadar] = Without(socks[BadRadar], k)
        /\ \A q \in Radars :
             /\ ToSet(socks'[q]) \subseteq ToSet(socks[q])
             /\ ToSet(socks'[q]) \cup ToSet(inactive'[q]) = ToSet(Config[q])
             /\ Len(socks'[q]) + Len(inactive'[q]) = Len(Config[q])
    BY <1>1, <2>1, <2>2, RemoveSockLists
  <2>4. errs \in Seq(Nat) /\ offset \in Nat BY DEF TypeOK
  <2>5. /\ errs' \in Seq(Nat) /\ Head(errs) = errs[1] /\ 1 \in DOMAIN errs
        /\ \A i \in DOMAIN errs' :
             i \in Nat /\ i + 1 \in DOMAIN errs /\ 1 < i + 1 /\ errs'[i] = errs[i + 1]
    BY <1>1, <2>1, <2>4
  <2>6. \A i \in DOMAIN errs : errs[i] \in Nat BY <2>4
  <2>7. TypeOK' BY <2>1, <2>2, <2>3, <2>4, <2>5 DEF TypeOK, status
  <2>8. Control' BY <2>1 DEF Control
  <2>9. Whole' BY <2>3 DEF Whole
  <2>10. ErrorsInOrder'
    <3>1. ASSUME NEW i \in DOMAIN errs' PROVE errs'[i] >= offset' + i
      <4>1. errs[i + 1] >= offset + (i + 1)
        BY <1>1, <2>5 DEF ErrorsInOrder
      <4> QED BY <4>1, <2>1, <2>4, <2>5, <2>6
    <3>2. ASSUME NEW i \in DOMAIN errs', NEW j \in DOMAIN errs', i < j
          PROVE  errs'[i] < errs'[j]
      <4>1. i + 1 < j + 1 BY <2>5, <3>2
      <4> QED BY <4>1, <1>1, <2>5 DEF ErrorsInOrder
    <3> QED BY <3>1, <3>2 DEF ErrorsInOrder
  <2>11. OwnErrors'
    <3> SUFFICES ASSUME cmd \notin ToAll
        PROVE  /\ jrad' \in Radars
               /\ \A i \in DOMAIN errs' :
                    /\ errs'[i] - offset' \in DOMAIN socks'[jrad']
                    /\ socks'[jrad'][errs'[i] - offset'] \in lost'
      BY <2>1 DEF OwnErrors
    <3>1. jrad \in Radars /\ \A i \in DOMAIN errs :
            /\ errs[i] - offset \in DOMAIN socks[jrad]
            /\ socks[jrad][errs[i] - offset] \in lost
      BY <1>1 DEF OwnErrors
    <3>2. jrad # NoRadar BY <3>1 DEF Radars, NoRadar
    <3>3. jrad' = jrad /\ BadRadar = jrad /\ k = errs[1] - offset
      BY <2>1, <2>2, <2>5, <3>2
    <3>4. socks[jrad] \in Seq(Usrps) BY <3>1 DEF TypeOK
    <3>5. /\ DOMAIN Without(socks[jrad], k) = 1 .. Len(socks[jrad]) - 1
          /\ \A i \in k + 1 .. Len(socks[jrad]) :
               Without(socks[jrad], k)[i - 1] = socks[jrad][i]
      BY <2>2, <3>3, <3>4, WithoutElements, SMTT(20)
    <3>6. ASSUME NEW i \in DOMAIN errs'
          PROVE  /\ errs'[i] - offset' \in DOMAIN socks'[jrad]
                 /\ socks'[jrad][errs'[i] - offset'] \in lost
      <4> DEFINE e == errs[i + 1] - offset
      <4>1. i + 1 \in DOMAIN errs BY <2>5
      <4>2. e \in DOMAIN socks[jrad] /\ socks[jrad][e] \in lost
        BY <3>1, <4>1
      <4>3. errs[1] < errs[i + 1] BY <1>1, <2>5 DEF ErrorsInOrder
      <4>4. e \in Int /\ k \in Int /\ k < e
        BY <2>4, <2>5, <2>6, <3>3, <4>1, <4>3, SMTT(20)
      <4>5. errs'[i] - offset' = e - 1
        BY <2>1, <2>4, <2>5, <2>6, <4>1
      <4> HIDE DEF e
      <4>6. /\ Len(socks[jrad]) \in Nat /\ DOMAIN socks[jrad] = 1 .. Len(socks[jrad])
        BY <3>4, LenProperties
      <4>7. k \in 1 .. Len(socks[jrad]) BY <2>2, <3>3, <4>6
      <4>8. e \in k + 1 .. Len(socks[jrad]) /\ e - 1 \in 1 .. Len(socks[jrad]) - 1
        BY <4>2, <4>4, <4>6, <4>7
      <4>9. socks'[jrad] = Without(socks[jrad], k) BY <2>3, <3>3
      <4> QED BY <3>5, <4>2, <4>5, <4>8, <4>9
    <3> QED BY <2>1, <3>1, <3>3, <3>6
  <2>12. AllAsked' BY <1>1, <2>1 DEF AllAsked
  <2>13. InStep'
    <3>1. ASSUME NEW u, InService(u)' PROVE InService(u)
      BY <2>3, <3>1 DEF InService
    <3> QED BY <1>1, <2>1, <3>1 DEF InStep, Synchronised
  <2> QED BY <2>7, <2>8, <2>9, <2>10, <2>11, <2>12, <2>13
<1> QED BY <1>2, <1>3

(* Where eval_client_return's caller goes on.                              *)
LEMMA AfterEvalCases ==
  ASSUME FleetInv, main = "remove", AfterEval
  PROVE  /\ main' \in {"send", "receive", "setup", "loop"}
         /\ cmd' \in Commands /\ todo' \subseteq Radars
         /\ main' = "send" => cmd' \in {"SYNC", "TIME", "RXFE", "META"}
         /\ main' = "receive" => /\ cmd' \in {"RXFE", "TRIGGER", "META", "READY"}
                                 /\ todo' # {}
         /\ main' = "setup" => booting
         /\ main' = "loop" => ~booting
         /\ main' \in {"send", "receive"} /\ cmd' \in {"TRIGGER", "META", "READY"}
              => cmd \in {"TRIGGER", "META", "READY"}
         /\ main' \in {"setup", "loop"} \/ cmd' \in {"RXFE", "TRIGGER", "META", "READY"}
              => cmd \in {"STALE", "RXFE", "TRIGGER", "META", "READY"}
<1> USE DEF FleetInv
<1> DEFINE more == todo \ {First(todo)}
<1>1. todo \subseteq Radars /\ more \subseteq Radars /\ booting \in BOOLEAN
  BY DEF TypeOK
<1>2. cmd \in {"SYNC", "STALE", "RETRY", "RXFE", "TRIGGER", "META", "READY"}
  BY DEF Control, TypeOK, Commands
<1>3. cmd \in {"RXFE", "TRIGGER", "META", "READY"} => todo # {}
  BY DEF Control, ToAll
<1> HIDE DEF more
<1>4. /\ cmd = "SYNC" => Goto("send", "TIME", {})
      /\ cmd = "STALE" => Goto("send", "RXFE", {})
      /\ cmd = "RETRY" => Goto("send", "SYNC", {})
      /\ cmd = "RXFE" /\ more # {} => Goto("receive", "RXFE", more)
      /\ cmd = "RXFE" /\ more = {} /\ booting => Goto("setup", "SETUP", Radars)
      /\ cmd = "RXFE" /\ more = {} /\ ~booting => Goto("loop", "RXFE", {})
      /\ cmd = "TRIGGER" /\ more # {} => Goto("receive", "TRIGGER", more)
      /\ cmd = "TRIGGER" /\ more = {} => Goto("send", "META", {})
      /\ cmd = "META" => Goto("receive", "READY", todo)
      /\ cmd = "READY" /\ more # {} => Goto("receive", "META", more)
      /\ cmd = "READY" /\ more = {} => Goto("loop", "READY", {})
  BY DEF AfterEval, more
<1>5. cmd = "READY" => ~booting
  BY DEF Control
<1>6. CASE cmd = "SYNC" BY <1>4, <1>6 DEF Goto, Commands
<1>7. CASE cmd = "STALE" BY <1>4, <1>7 DEF Goto, Commands
<1>8. CASE cmd = "RETRY" BY <1>4, <1>8 DEF Goto, Commands
<1>9. CASE cmd = "RXFE" BY <1>1, <1>4, <1>9 DEF Goto, Commands
<1>10. CASE cmd = "TRIGGER" BY <1>1, <1>4, <1>10 DEF Goto, Commands
<1>11. CASE cmd = "META" BY <1>1, <1>3, <1>4, <1>11 DEF Goto, Commands
<1>12. CASE cmd = "READY" BY <1>1, <1>4, <1>5, <1>12 DEF Goto, Commands
<1> QED BY <1>2, <1>6, <1>7, <1>8, <1>9, <1>10, <1>11, <1>12

(* The end of eval_client_return for a command whose errors are done.      *)
LEMMA EvalReturns ==
  ASSUME FleetInv, main = "remove", AfterEval, Returned,
         link' = [u \in Usrps |-> IF Listed(socks, u) THEN link[u] ELSE "none"],
         UNCHANGED <<booting, period, lists, scanning, proc, away, synced>>,
         allFailed' \in BOOLEAN, errorsInARow' \in Nat, faults' \in Nat
  PROVE  FleetInv'
<1> USE DEF FleetInv
<1>1. /\ main' \in {"send", "receive", "setup", "loop"}
      /\ cmd' \in Commands /\ todo' \subseteq Radars
      /\ main' = "send" => cmd' \in {"SYNC", "TIME", "RXFE", "META"}
      /\ main' = "receive" => /\ cmd' \in {"RXFE", "TRIGGER", "META", "READY"}
                              /\ todo' # {}
      /\ main' = "setup" => booting
      /\ main' = "loop" => ~booting
      /\ main' \in {"send", "receive"} /\ cmd' \in {"TRIGGER", "META", "READY"}
           => cmd \in {"TRIGGER", "META", "READY"}
      /\ main' \in {"setup", "loop"} \/ cmd' \in {"RXFE", "TRIGGER", "META", "READY"}
           => cmd \in {"STALE", "RXFE", "TRIGGER", "META", "READY"}
  BY AfterEvalCases
<1>2. /\ clients' = <<>> /\ errs' = <<>> /\ offset' = 0 /\ jrad' = NoRadar
      /\ lost' = {} /\ socks' = socks /\ inactive' = inactive
  BY DEF Returned, lists
<1>3. TypeOK'
  <2>1. link' \in [Usrps -> {"none", "open", "closed", "reset"}] BY DEF TypeOK
  <2>2. <<>> \in Seq(Usrps) /\ <<>> \in Seq(Nat) OBVIOUS
  <2> QED BY <1>1, <1>2, <2>1, <2>2 DEF TypeOK
<1>4. Control' BY <1>1 DEF Control
<1>5. Whole' BY <1>1, <1>2 DEF Whole
<1>6. (ErrorsInOrder /\ OwnErrors /\ AllAsked)'
  BY <1>1 DEF ErrorsInOrder, OwnErrors, AllAsked
<1>7. InStep'
  <2> SUFFICES ASSUME Synchronised', NEW u \in Usrps, NEW v \in Usrps, u # v,
                      InService(u)', link'[u] = "open",
                      InService(v)', link'[v] = "open"
      PROVE  synced'[u] /\ synced'[v]
    BY DEF InStep
  <2>1. Synchronised BY <1>1 DEF Synchronised
  <2>2. InService(u) /\ InService(v) /\ link[u] = "open" /\ link[v] = "open"
    BY <1>2 DEF InService
  <2> QED BY <2>1, <2>2 DEF InStep
<1> QED BY <1>3, <1>4, <1>5, <1>6, <1>7

LEMMA EvaluatedStep ==
  ASSUME FleetInv, Evaluated
  PROVE  FleetInv'
<1>1. CASE Exit BY <1>1, ExitStep
<1>2. CASE ~Exit
  BY <1>2, EvalReturns DEF Evaluated, status, hosts, FleetInv, TypeOK
<1> QED BY <1>1, <1>2

LEMMA EvaluatedMetadataStep ==
  ASSUME FleetInv, EvaluatedMetadata
  PROVE  FleetInv'
<1>1. CASE Exit BY <1>1, ExitStep
<1>2. CASE ~Exit
  <2>1. PICK failed \in BOOLEAN :
          LET none == allFailed /\ (failed \/ socks[First(todo)] = <<>>)
              row  == IF none THEN errorsInARow + 1 ELSE 0 IN
          /\ AfterEval
          /\ allFailed' = none /\ errorsInARow' = row
          /\ link' = [u \in Usrps |->
                        IF Listed(socks, u) THEN link[u] ELSE "none"]
          /\ Returned
          /\ faults' = IF failed THEN faults + 1 ELSE faults
          /\ UNCHANGED <<booting, period, lists, scanning, proc, away, synced>>
    BY <1>2 DEF EvaluatedMetadata, hosts
  <2>2. allFailed' \in BOOLEAN BY <2>1 DEF FleetInv, TypeOK
  <2>3. errorsInARow' \in Nat /\ faults' \in Nat BY <2>1 DEF FleetInv, TypeOK
  <2>4. main = "remove" BY DEF EvaluatedMetadata
  <2> QED BY <2>1, <2>2, <2>3, <2>4, EvalReturns
<1> QED BY <1>1, <1>2

(* Reads outside of eval_client_return.                                    *)
LEMMA UnprotectedStep ==
  ASSUME FleetInv, main \notin {"connect", "down"}, NEW list, Unprotected(list)
  PROVE  FleetInv'
<1>1. Die \/ Stuck BY DEF Unprotected
<1> QED BY <1>1, DieStep, StuckStep

(* The main thread goes on between commands, with the same lists, and with *)
(* clocks that were set together.                                          *)
LEMMA GoesOn ==
  ASSUME FleetInv, main \in {"loop", "setup"},
         main' \in {"loop", "setup", "send"},
         main' = "send" => cmd' = "TRIGGER" /\ period' # {} /\ ~booting',
         main' = "loop" => ~booting', main' = "setup" /\ ~booting' => period' # {},
         cmd' \in Commands, booting' \in BOOLEAN,
         todo' \subseteq Radars, period' \subseteq Radars,
         scanning' \subseteq Radars,
         UNCHANGED <<clients, errs, offset, jrad, lost, lists, status, drivers>>
  PROVE  FleetInv'
<1> USE DEF FleetInv
<1>1. /\ socks' = socks /\ inactive' = inactive /\ proc' = proc
      /\ away' = away /\ link' = link /\ synced' = synced
      /\ faults' = faults /\ allFailed' = allFailed
      /\ errorsInARow' = errorsInARow
  BY DEF lists, status, drivers, hosts
<1>2. TypeOK' BY <1>1 DEF TypeOK
<1>3. Control' BY DEF Control
<1>4. Whole' BY <1>1 DEF Whole
<1>5. (ErrorsInOrder /\ OwnErrors /\ AllAsked)'
  BY DEF ErrorsInOrder, OwnErrors, AllAsked
<1>6. InStep' BY <1>1 DEF InStep, Synchronised, InService
<1> QED BY <1>2, <1>3, <1>4, <1>5, <1>6

LEMMA SetupStep ==
  ASSUME FleetInv, Setup
  PROVE  FleetInv'
<1>1. main = "setup" BY DEF Setup
<1>2. CASE Unprotected(socks[First(todo)])
  BY <1>1, <1>2, UnprotectedStep
<1>3. CASE ~Unprotected(socks[First(todo)])
  BY <1>1, <1>3, GoesOn DEF Setup, FleetInv, TypeOK, Control
<1> QED BY <1>2, <1>3

LEMMA EndSetupStep ==
  ASSUME FleetInv, EndSetup
  PROVE  FleetInv'
<1>1. main = "setup" BY DEF EndSetup
<1>2. CASE booting
  BY <1>1, <1>2, GoesOn DEF EndSetup, FleetInv, TypeOK, cursor
<1>3. CASE ~booting
  <2> DEFINE one == IF socks[0] = <<>> THEN <<>> ELSE <<Head(socks[0])>>
  <2>1. CASE Unprotected(one)
    BY <1>1, <2>1, UnprotectedStep
  <2>2. CASE ~Unprotected(one)
    <3>1. /\ Goto("send", "TRIGGER", {})
          /\ UNCHANGED <<booting, period, clients, errs, offset, jrad,
                         lost, lists, status, scanning, drivers>>
      BY <1>3, <2>2 DEF EndSetup
    <3>2. period # {} BY <1>1, <1>3 DEF FleetInv, Control
    <3> QED BY <1>1, <1>3, <3>1, <3>2, GoesOn
        DEF FleetInv, TypeOK, Goto, Commands
  <2> QED BY <2>1, <2>2
<1> QED BY <1>2, <1>3

LEMMA StartPeriodStep ==
  ASSUME FleetInv, StartPeriod
  PROVE  FleetInv'
<1>1. PICK R \in SUBSET scanning : R # {} /\ period' = R /\ todo' = R
  BY DEF StartPeriod
<1>2. /\ main = "loop" /\ main' = "setup" /\ cmd' = "SETUP"
      /\ UNCHANGED <<booting, clients, errs, offset, jrad, lost, lists, status,
                     scanning, drivers>>
  BY DEF StartPeriod
<1> QED BY <1>1, <1>2, GoesOn DEF FleetInv, TypeOK, Control, Commands

LEMMA ClearFreqStep ==
  ASSUME FleetInv, ClearFreq
  PROVE  FleetInv'
<1>1. main = "loop" /\ \E r \in scanning : Unprotected(socks[r])
  BY DEF ClearFreq
<1> QED BY <1>1, UnprotectedStep

LEMMA ScanStep ==
  ASSUME FleetInv, Scan
  PROVE  FleetInv'
<1>1. /\ main = "loop" /\ scanning' \subseteq Radars
      /\ UNCHANGED <<main, cmd, booting, todo, period, clients, errs, offset,
                     jrad, lost, lists, status, drivers>>
  BY DEF Scan, cursor, FleetInv, TypeOK
<1> QED BY <1>1, GoesOn DEF FleetInv, TypeOK, Control

(* A step of the drivers: a connection that is open was open before, and   *)
(* the clock of its USRP is as it was.                                     *)
LEMMA DriversMove ==
  ASSUME FleetInv,
         UNCHANGED <<main, cmd, booting, cursor, lists, status, scanning>>,
         proc' \in [Usrps -> {"down", "starting", "up", "hung"}],
         away' \subseteq Usrps \ Local,
         link' \in [Usrps -> {"none", "open", "closed", "reset"}],
         synced' \in [Usrps -> BOOLEAN], faults' \in Nat,
         \A u \in Usrps : link'[u] = "open" =>
                            link[u] = "open" /\ synced'[u] = synced[u]
  PROVE  FleetInv'
<1> USE DEF FleetInv
<1>1. /\ UNCHANGED <<main, cmd, booting, todo, period, clients, errs, offset,
                     jrad, lost, socks, inactive, scanning, allFailed,
                     errorsInARow>>
  BY DEF cursor, lists, status
<1>2. TypeOK' BY <1>1 DEF TypeOK
<1>3. Control' BY <1>1 DEF Control
<1>4. Whole' BY <1>1 DEF Whole
<1>5. (ErrorsInOrder /\ OwnErrors)' BY <1>1 DEF ErrorsInOrder, OwnErrors
<1>6. AllAsked' BY <1>1 DEF AllAsked, InService
<1>7. InStep' BY <1>1 DEF InStep, Synchronised, InService
<1> QED BY <1>2, <1>3, <1>4, <1>5, <1>6, <1>7

LEMMA StartDriversStep ==
  ASSUME FleetInv, NEW D, StartDrivers(D)
  PROVE  FleetInv'
BY DriversMove DEF StartDrivers, FleetInv, TypeOK

LEMMA DriverStep ==
  ASSUME FleetInv, NEW u \in Usrps,
         \/ StartRemote(u) \/ Listen(u) \/ Hang(u) \/ Kill(u) \/ Recover(u)
         \/ Leave(u) \/ Return(u)
  PROVE  FleetInv'
<1>1. CASE Listen(u) BY <1>1, DriversMove DEF Listen, FleetInv, TypeOK
<1>2. CASE Hang(u) BY <1>2, DriversMove DEF Hang, Fault, FleetInv, TypeOK
<1>3. CASE Recover(u) BY <1>3, DriversMove DEF Recover, FleetInv, TypeOK
<1>4. CASE Kill(u)
  <2>1. /\ UNCHANGED <<main, cmd, booting, cursor, lists, status, scanning>>
        /\ faults' = faults + 1 /\ proc' = [proc EXCEPT ![u] = "down"]
        /\ synced' = [synced EXCEPT ![u] = FALSE] /\ away' = away
        /\ \E l \in {"closed", "reset"} :
             link' = IF link[u] = "open" THEN [link EXCEPT ![u] = l] ELSE link
    BY <1>4 DEF Kill, Fault
  <2>2. /\ faults \in Nat /\ proc \in [Usrps -> {"down", "starting", "up", "hung"}]
        /\ link \in [Usrps -> {"none", "open", "closed", "reset"}]
        /\ synced \in [Usrps -> BOOLEAN] /\ away \subseteq Usrps \ Local
    BY DEF FleetInv, TypeOK
  <2>3. /\ faults' \in Nat /\ away' \subseteq Usrps \ Local
        /\ proc' \in [Usrps -> {"down", "starting", "up", "hung"}]
        /\ link' \in [Usrps -> {"none", "open", "closed", "reset"}]
        /\ synced' \in [Usrps -> BOOLEAN]
    BY <2>1, <2>2
  <2>4. \A w \in Usrps : link'[w] = "open" =>
                           link[w] = "open" /\ synced'[w] = synced[w]
    BY <2>1, <2>2
  <2> QED BY <2>1, <2>3, <2>4, DriversMove
<1>5. CASE StartRemote(u) BY <1>5, StartDriversStep DEF StartRemote
<1>6. CASE Leave(u)
  BY <1>6, DriversMove DEF Leave, Fault, FleetInv, TypeOK
<1>7. CASE Return(u)
  BY <1>7, DriversMove DEF Return, FleetInv, TypeOK
<1> QED BY <1>1, <1>2, <1>3, <1>4, <1>5, <1>6, <1>7
----------------------------------------------------------------------------
(* The steps together.                                                     *)

LEMMA ServerStep ==
  ASSUME FleetInv, Server
  PROVE  FleetInv'
BY ConnectStep, RestoreStep, SendStep, ReceiveStep, ReceiveTimesStep,
   RemoveLostStep, EvaluatedStep, EvaluatedMetadataStep, SetupStep,
   EndSetupStep, ClearFreqStep DEF Server

LEMMA MissCudaStep ==
  ASSUME FleetInv, MissCuda
  PROVE  FleetInv'
<1>1. Exit \/ (main = "loop" /\ (Die \/ Stuck)) BY DEF MissCuda
<1> QED BY <1>1, ExitStep, DieStep, StuckStep

LEMMA StopAllStep ==
  ASSUME FleetInv, StopAll
  PROVE  FleetInv'
<1>1. /\ main' = "down" /\ booting' = TRUE /\ scanning' = {} /\ Abandoned
      /\ UNCHANGED <<cmd, lists, status, away, faults>>
  BY DEF StopAll
<1>2. /\ proc' \in [Usrps -> {"down", "starting", "up", "hung"}]
      /\ link' \in [Usrps -> {"none", "open", "closed", "reset"}]
      /\ synced' \in [Usrps -> BOOLEAN]
  BY DEF StopAll, FleetInv, TypeOK
<1> QED BY <1>1, <1>2, Ends DEF FleetInv, TypeOK

LEMMA Stutters ==
  ASSUME FleetInv, UNCHANGED vars
  PROVE  FleetInv'
BY DriversMove DEF vars, drivers, hosts, FleetInv, TypeOK

LEMMA KillCudaStep ==
  ASSUME FleetInv, KillCuda
  PROVE  FleetInv'
BY DriversMove, SMTT(20) DEF KillCuda, hosts, FleetInv, TypeOK

LEMMA FleetStep ==
  ASSUME FleetInv, [SupervisedNext]_allVars
  PROVE  FleetInv'
<1>1. CASE UNCHANGED allVars BY <1>1, Stutters DEF allVars
<1>2. CASE MissCuda BY <1>2, MissCudaStep
<1>3. CASE Serve BY <1>3, ServerStep DEF Serve
<1>4. CASE Heartbeat BY <1>4, Stutters DEF Heartbeat
<1>5. CASE Age BY <1>5, Stutters DEF Age
<1>6. CASE StopAll BY <1>6, StopAllStep
<1>7. CASE StartAllDrivers
  BY <1>7, StartDriversStep DEF StartAllDrivers
<1>8. CASE StartAgain BY <1>8, StartServerStep DEF StartAgain
<1>9. CASE EndWait BY <1>9, Stutters DEF EndWait
<1>10. CASE RestartUsrps
  BY <1>10, StartDriversStep DEF RestartUsrps
<1>11. CASE KillCuda BY <1>11, KillCudaStep
<1>12. CASE Program
  BY <1>12, StartPeriodStep, ScanStep DEF Program
<1>13. ASSUME NEW u \in Usrps, Driver(u) PROVE FleetInv'
  BY <1>13, DriverStep DEF Driver
<1> QED BY <1>1, <1>2, <1>3, <1>4, <1>5, <1>6, <1>7, <1>8, <1>9, <1>10, <1>11,
           <1>12, <1>13 DEF SupervisedNext, Watchdog

(* The inductive invariant the theorems below rest on.                     *)
LEMMA FleetInvariant == SupervisedSpec => []FleetInv
<1>1. SupervisedInit => FleetInv BY InitFleet DEF SupervisedInit
<1>2. FleetInv /\ [SupervisedNext]_allVars => FleetInv' BY FleetStep
<1> QED BY <1>1, <1>2, PTL DEF SupervisedSpec

(* The state of the server, its lists, the drivers and the watchdog keep   *)
(* their types.                                                            *)
THEOREM FleetTypes == SupervisedSpec => []SupervisedTypeOK
<1> DEFINE Watch == /\ fresh \in BOOLEAN /\ cuda \in BOOLEAN
                    /\ wd \in {"check", "drivers", "server", "wait"}
<1>1. SupervisedInit => Watch BY DEF SupervisedInit
<1>2. Watch /\ [SupervisedNext]_allVars => Watch'
  <2> SUFFICES ASSUME Watch, [SupervisedNext]_allVars PROVE Watch'
    OBVIOUS
  <2> USE DEF watch
  <2>1. CASE UNCHANGED allVars BY <2>1 DEF allVars
  <2>2. CASE MissCuda \/ Serve \/ Heartbeat \/ Age
    BY <2>2 DEF MissCuda, Serve, Heartbeat, Age
  <2>3. CASE Watchdog
    BY <2>3 DEF Watchdog, StopAll, StartAllDrivers, StartAgain, EndWait,
                RestartUsrps
  <2>4. CASE KillCuda \/ Program BY <2>4 DEF KillCuda, Program
  <2>5. CASE \E u \in Usrps : Driver(u) BY <2>5 DEF Driver
  <2> QED BY <2>1, <2>2, <2>3, <2>4, <2>5 DEF SupervisedNext
<1>3. FleetInv /\ Watch => SupervisedTypeOK
  BY DEF FleetInv, SupervisedTypeOK
<1> QED BY <1>1, <1>2, <1>3, FleetInvariant, PTL DEF SupervisedSpec

(* No USRP falls between the lists: whatever is lost, comes back or is     *)
(* removed by mistake, every configured USRP is on one list of its radar,  *)
(* once, as long as a server serves.                                       *)
THEOREM NoUsrpForgotten == SupervisedSpec => []EachUsrpOnce
<1>1. FleetInv => EachUsrpOnce
  <2> SUFFICES ASSUME FleetInv, main \notin {"connect", "down"}, NEW r \in Radars
      PROVE  /\ ToSet(socks[r] \o inactive[r]) = ToSet(Config[r])
             /\ Len(socks[r] \o inactive[r]) = Len(Config[r])
    BY DEF EachUsrpOnce
  <2>1. socks[r] \in Seq(Usrps) /\ inactive[r] \in Seq(Usrps)
    BY DEF FleetInv, TypeOK
  <2>2. /\ ToSet(socks[r] \o inactive[r]) = ToSet(socks[r]) \cup ToSet(inactive[r])
        /\ Len(socks[r] \o inactive[r]) = Len(socks[r]) + Len(inactive[r])
    BY <2>1, JoinElements
  <2> QED BY <2>2 DEF FleetInv, Whole
<1> QED BY <1>1, FleetInvariant, PTL

(* Two USRPs that are triggered for the same period and answer have had    *)
(* their clocks set by the same USRP_SYNC.                                 *)
THEOREM ClocksAgree == SupervisedSpec => []TriggeredInSync
<1>1. FleetInv => TriggeredInSync
  <2> SUFFICES ASSUME FleetInv, main = "receive", cmd = "TRIGGER",
                      NEW u, NEW v, u # v, Answers(u), Answers(v),
                      u \in UNION {ToSet(socks[r]) : r \in period},
                      v \in UNION {ToSet(socks[r]) : r \in period}
      PROVE  synced[u] /\ synced[v]
    BY DEF TriggeredInSync
  <2>1. period \subseteq Radars /\ socks \in [Radars -> Seq(Usrps)]
    BY DEF FleetInv, TypeOK
  <2>2. InService(u) /\ InService(v) BY <2>1 DEF InService
  <2>3. u \in Usrps /\ v \in Usrps BY <2>1, <2>2 DEF InService, ToSet
  <2> QED BY <2>2, <2>3 DEF FleetInv, InStep, Synchronised, Answers
<1> QED BY <1>1, FleetInvariant, PTL

(* In the answers of one radar, the socket removed is one that was lost.   *)
LEMMA RemovesLost ==
  ASSUME FleetInv, RemoveLost, cmd \notin ToAll, NEW u, InService(u), u \notin lost'
  PROVE  InService(u)'
<1> USE DEF FleetInv
<1>1. main = "remove" /\ errs # <<>> BY DEF RemoveLost
<1>2. CASE ~BadExists
  <2>1. socks' = socks BY <1>2 DEF RemoveLost, Die, Exit, lists
  <2> QED BY <2>1 DEF InService
<1>3. CASE BadExists
  <2>1. RemoveSock(BadRadar, BadIndex) /\ lost' = lost
    BY <1>3 DEF RemoveLost
  <2>2. errs \in Seq(Nat) /\ Head(errs) = errs[1] /\ 1 \in DOMAIN errs
    BY <1>1 DEF TypeOK
  <2>3. jrad \in Radars /\ jrad # NoRadar /\ socks[jrad][errs[1] - offset] \in lost
    BY <1>1, <2>2 DEF OwnErrors, Radars, NoRadar
  <2>4. BadRadar = jrad /\ BadIndex = errs[1] - offset
        /\ BadIndex \in DOMAIN socks[BadRadar]
    BY <1>1, <1>3, <2>2, <2>3, BadSocket
  <2>5. u # socks[jrad][BadIndex] BY <2>1, <2>3, <2>4
  <2>6. \A q \in Radars : \A w : w \in ToSet(socks[q]) /\ w # socks[jrad][BadIndex]
                                   => w \in ToSet(socks'[q])
    <3> DEFINE k == BadIndex
    <3>1. k \in DOMAIN socks[jrad] /\ RemoveSock(jrad, k)
      BY <2>1, <2>4
    <3> HIDE DEF k
    <3>2. jrad \in Radars BY <2>3
    <3>3. \A q \in Radars :
             /\ ToSet(socks'[q]) \subseteq ToSet(socks[q])
             /\ \A w : w \in ToSet(socks[q]) /\ w # socks[jrad][k]
                         => w \in ToSet(socks'[q])
             /\ ToSet(socks'[q]) \cup ToSet(inactive'[q]) = ToSet(Config[q])
             /\ Len(socks'[q]) + Len(inactive'[q]) = Len(Config[q])
      BY <1>1, <3>1, <3>2, RemoveSockLists
    <3> QED BY <3>3 DEF k
  <2> QED BY <2>5, <2>6 DEF InService
<1> QED BY <1>2, <1>3

(* No other step takes one out of service; Restore adds to the lists.      *)
LEMMA StepKeepsHealthy ==
  ASSUME FleetInv, [SupervisedNext]_allVars, cmd \notin ToAll, main # "connect",
         NEW u \in Usrps, InService(u), u \notin lost'
  PROVE  InService(u)'
<1>1. CASE Restore
  <2>1. \A r \in Radars : /\ socks'[r] = socks[r] \o Those(inactive[r], Reachable)
                          /\ socks[r] \in Seq(Usrps) /\ inactive[r] \in Seq(Usrps)
    BY <1>1 DEF Restore, FleetInv, TypeOK
  <2>2. \A r \in Radars : ToSet(socks[r]) \subseteq ToSet(socks'[r])
    <3> SUFFICES ASSUME NEW r \in Radars
        PROVE  ToSet(socks[r]) \subseteq ToSet(socks'[r])
      OBVIOUS
    <3> DEFINE back == Those(inactive[r], Reachable)
    <3>1. back \in Seq(Usrps) BY <2>1, ThoseElements
    <3>2. socks'[r] = socks[r] \o back /\ socks[r] \in Seq(Usrps) BY <2>1
    <3> HIDE DEF back
    <3>3. ToSet(socks[r] \o back) = ToSet(socks[r]) \cup ToSet(back)
      BY <3>1, <3>2, JoinElements
    <3> QED BY <3>2, <3>3
  <2> QED BY <2>2 DEF InService
<1>2. CASE RemoveLost BY <1>2, RemovesLost
<1>3. CASE ~Restore /\ ~RemoveLost
  <2>1. socks' = socks
    <3> USE DEF lists
    <3>1. ASSUME Exit \/ Die \/ Stuck PROVE socks' = socks
      BY <3>1 DEF Exit, Die, Stuck
    <3>2. CASE UNCHANGED allVars BY <3>2 DEF allVars, vars
    <3>3. CASE MissCuda BY <3>1, <3>3 DEF MissCuda
    <3>4. CASE Serve
      <4>1. CASE Send BY <4>1 DEF Send
      <4>2. CASE Receive BY <3>1, <4>2 DEF Receive
      <4>3. ~ReceiveTimes /\ ~Connect
        BY DEF ReceiveTimes, Connect, ConnectAll, NoRoute, ToAll
      <4>4. CASE Evaluated \/ EvaluatedMetadata
        BY <3>1, <4>4 DEF Evaluated, EvaluatedMetadata
      <4>5. CASE Setup \/ EndSetup \/ ClearFreq
        BY <3>1, <4>5 DEF Setup, EndSetup, ClearFreq, Unprotected
      <4> QED BY <1>3, <3>4, <4>1, <4>2, <4>3, <4>4, <4>5 DEF Serve, Server
    <3>5. CASE Heartbeat \/ Age BY <3>5 DEF Heartbeat, Age, vars
    <3>6. CASE Watchdog
      BY <3>6 DEF Watchdog, StopAll, StartAllDrivers, StartAgain, EndWait,
                  RestartUsrps, StartDrivers, StartServer, vars
    <3>7. CASE KillCuda \/ Program
      BY <3>7 DEF KillCuda, Program, StartPeriod, Scan
    <3>8. CASE \E w \in Usrps : Driver(w)
      BY <3>8 DEF Driver, StartRemote, StartDrivers, Listen, Hang, Kill,
                  Recover, Leave, Return, Fault
    <3> QED BY <3>2, <3>3, <3>4, <3>5, <3>6, <3>7, <3>8 DEF SupervisedNext
  <2> QED BY <2>1 DEF InService
<1> QED BY <1>1, <1>2, <1>3

(* The answers to a command for the USRPs of one radar take only those out *)
(* of service whose read raised an exception: the positions stay right     *)
(* while the list shrinks.                                                 *)
THEOREM HealthyStay == SupervisedSpec => KeepsHealthy
<1>1. FleetInv /\ [SupervisedNext]_allVars =>
        [cmd \notin ToAll /\ main # "connect" =>
           \A u \in Usrps : InService(u) /\ u \notin lost' => InService(u)']_vars
  BY StepKeepsHealthy
<1> QED BY <1>1, FleetInvariant, PTL DEF SupervisedSpec, KeepsHealthy
=============================================================================
