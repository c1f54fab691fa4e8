--------------------------- MODULE PppSessionProofs ---------------------------
(***************************************************************************)
(* Proofs about PppSession, for queues of any length and any number of     *)
(* retransmissions.                                                        *)
(***************************************************************************)
EXTENDS PppSession, PppLinkProofs, FiniteSetTheorems, FunctionTheorems,
        SequenceTheorems

-----------------------------------------------------------------------------
(* How many old units a sequence holds. *)

\* The positions of old units are finitely many, and none in an empty sequence.
LEMMA OldsType ==
  ASSUME NEW s \in Seq(Age)
  PROVE  /\ IsFiniteSet({i \in DOMAIN s : s[i] = "old"}) /\ Olds(s) \in Nat
         /\ s = <<>> => Olds(s) = 0
<1> DEFINE P == {i \in DOMAIN s : s[i] = "old"}
<1>1. DOMAIN s = 1..Len(s) /\ Len(s) \in Nat
  OBVIOUS
<1>2. IsFiniteSet(P)
  <2>1. IsFiniteSet(1..Len(s)) /\ P \subseteq 1..Len(s)
    BY <1>1, FS_Interval
  <2> HIDE DEF P
  <2> QED BY <2>1, FS_Subset
<1>3. s = <<>> => P = {}
  BY <1>1
<1> QED BY <1>2, <1>3, FS_CardinalityType, FS_EmptySet DEF Olds

\* Nothing is old in the empty sequence.
LEMMA OldsEmpty == <<>> \in Seq(Age) /\ Len(<<>>) = 0 /\ Olds(<<>>) = 0
<1>1. <<>> \in Seq(Age) /\ Len(<<>>) = 0
  OBVIOUS
<1> QED BY <1>1, OldsType

\* A unit that is appended counts if it is old.
LEMMA OldsAppend ==
  ASSUME NEW s \in Seq(Age), NEW x \in Age
  PROVE  Olds(Append(s, x)) = Olds(s) + (IF x = "old" THEN 1 ELSE 0)
<1> DEFINE P(t) == {i \in DOMAIN t : t[i] = "old"}
           t == Append(s, x)
<1>1. /\ DOMAIN s = 1..Len(s) /\ Len(s) \in Nat /\ DOMAIN t = 1..(Len(s) + 1)
      /\ t[Len(s) + 1] = x /\ \A i \in 1..Len(s) : t[i] = s[i]
  OBVIOUS
<1>2. IsFiniteSet(P(s)) /\ Cardinality(P(s)) \in Nat
  BY OldsType DEF Olds
<1>3. CASE x = "old"
  <2>1. P(t) = P(s) \cup {Len(s) + 1} /\ Len(s) + 1 \notin P(s)
    BY <1>1, <1>3
  <2>2. Cardinality(P(t)) = Cardinality(P(s)) + 1
    BY <1>2, <2>1, FS_AddElement
  <2> QED BY <1>3, <2>2 DEF Olds
<1>4. CASE x # "old"
  <2>1. P(t) = P(s)
    BY <1>1, <1>4
  <2>2. Olds(t) = Olds(s)
    BY <2>1 DEF Olds
  <2>3. Olds(s) \in Nat
    BY OldsType
  <2> QED BY <1>4, <2>2, <2>3
<1> QED BY <1>3, <1>4

\* What is taken from the front is no longer in the rest.
LEMMA OldsTail ==
  ASSUME NEW s \in Seq(Age), s # <<>>
  PROVE  /\ Head(s) \in Age /\ Tail(s) \in Seq(Age)
         /\ Olds(s) = Olds(Tail(s)) + (IF Head(s) = "old" THEN 1 ELSE 0)
<1> DEFINE P == {i \in DOMAIN s : s[i] = "old"}
           Q == {i \in DOMAIN Tail(s) : Tail(s)[i] = "old"}
           R == P \ {1}
           f == [i \in Q |-> i + 1]
<1>1. /\ Len(s) \in Nat \ {0} /\ DOMAIN s = 1..Len(s) /\ Head(s) = s[1] /\ Head(s) \in Age
      /\ Tail(s) \in Seq(Age) /\ DOMAIN Tail(s) = 1..(Len(s) - 1)
      /\ \A i \in 1..(Len(s) - 1) : Tail(s)[i] = s[i + 1]
  OBVIOUS
<1>2. f \in [Q -> R]
  BY <1>1
<1>3. \A a, b \in Q : f[a] = f[b] => a = b
  BY <1>1
<1>4. ASSUME NEW j \in R PROVE \E i \in Q : f[i] = j
  <2>1. j - 1 \in Q /\ f[j - 1] = j
    BY <1>1
  <2> QED BY <2>1
<1>5. f \in Bijection(Q, R)
  BY <1>2, <1>3, <1>4, Fun_IsBij
<1>6. IsFiniteSet(Q) /\ IsFiniteSet(P) /\ Cardinality(Q) \in Nat /\ Cardinality(P) \in Nat
  BY <1>1, OldsType DEF Olds
<1>7. Cardinality(R) = Cardinality(Q)
  BY ZenonT(60), <1>5, <1>6, FS_Bijection DEF ExistsBijection
<1>8. Cardinality(R) = IF 1 \in P THEN Cardinality(P) - 1 ELSE Cardinality(P)
  BY <1>6, FS_RemoveElement
<1>9. 1 \in P <=> Head(s) = "old"
  BY <1>1
<1>10. Olds(s) = Cardinality(P) /\ Olds(Tail(s)) = Cardinality(Q)
  BY DEF Olds
<1> HIDE DEF P, Q, R
<1> QED BY <1>1, <1>6, <1>7, <1>8, <1>9, <1>10

-----------------------------------------------------------------------------
(* The control block, with and without pbufs. *)

\* Whether the pool has a pbuf is nothing that the block keeps.
LEMMA PbufKeeps ==
  ASSUME NEW l, LinkInv(l), NEW b \in BOOLEAN
  PROVE  LET m == WithPbuf(l, b)
         IN  /\ LinkInv(m) /\ m.phase = l.phase /\ m.open = l.open
             /\ m.lcp.timers = l.lcp.timers /\ m.ipcp.timers = l.ipcp.timers
<1> DEFINE g == [l.lcp EXCEPT !.pbuf = b]
           h == [l.ipcp EXCEPT !.pbuf = b]
           n == [l EXCEPT !.lcp = g]
           m == [n EXCEPT !.ipcp = h]
<1>1. l \in Link /\ l.lcp \in Fsm /\ l.ipcp \in Fsm /\ WellTimed(l.lcp) /\ WellTimed(l.ipcp)
  BY DEF LinkInv, Link
<1>2. WithPbuf(l, b) = m
  BY <1>1 DEF WithPbuf, Link
<1>3. g \in Fsm /\ g.state = l.lcp.state /\ g.timers = l.lcp.timers /\ g.starved = l.lcp.starved
  BY <1>1 DEF Fsm
<1>4. h \in Fsm /\ h.state = l.ipcp.state /\ h.timers = l.ipcp.timers /\ h.starved = l.ipcp.starved
  BY <1>1 DEF Fsm
<1> HIDE DEF g, h
<1>5. WellTimed(g) /\ WellTimed(h)
  BY <1>1, <1>3, <1>4 DEF WellTimed
<1>6. LinkInv(n)
  BY <1>3, <1>5, ReplaceFsm
<1>7. n \in Link /\ n.phase = l.phase /\ n.open = l.open /\ n.lcp = g /\ n.ipcp = l.ipcp
  BY <1>1, <1>3, SetLcp
<1> HIDE DEF n
<1>8. LinkInv(m)
  BY <1>4, <1>5, <1>6, <1>7, ReplaceFsm
<1>9. m.phase = n.phase /\ m.open = n.open /\ m.lcp = n.lcp /\ m.ipcp = h
  BY <1>4, <1>7, SetIpcp
<1> HIDE DEF m
<1> QED BY <1>2, <1>3, <1>4, <1>7, <1>8, <1>9

\* A block that a call finds is the block, whether or not there are pbufs.
LEMMA PoolsAre ==
  ASSUME LinkInv(link), NEW l \in Pools
  PROVE  /\ LinkInv(l) /\ l.phase = link.phase /\ l.open = link.open
         /\ l.lcp.timers = link.lcp.timers /\ l.ipcp.timers = link.ipcp.timers
<1>1. PICK b \in BOOLEAN : l = WithPbuf(link, b)
  BY DEF Pools
<1> QED BY <1>1, PbufKeeps

\* tcpip_thread keeps the block in order, and does not wake a dead one.
LEMMA InputStep ==
  ASSUME LinkInv(link), NEW m \in Settled(UNION {Inputs(l) : l \in Pools})
  PROVE  LinkInv(m) /\ (link.phase = "DEAD" => m.phase = "DEAD")
<1>1. PICK l \in Pools : \E n \in Inputs(l) : m = WithPbuf(n, TRUE)
  BY DEF Settled
<1>2. PICK n \in Inputs(l) : m = WithPbuf(n, TRUE)
  BY <1>1
<1>3. LinkInv(l) /\ l.phase = link.phase /\ l.open = link.open
  BY <1>1, PoolsAre
<1>4. LinkInv(n) /\ (~l.open => n = l)
  BY <1>2, <1>3, InputKeeps
<1>5. LinkInv(m) /\ m.phase = n.phase
  BY <1>2, <1>4, PbufKeeps
<1>6. l.open <=> l.phase # "DEAD"
  BY <1>3, OpenIsNotDead
<1> QED BY <1>3, <1>4, <1>5, <1>6

\* The timers that expire are those of an open block.
LEMMA LcpTimerStep ==
  ASSUME LinkInv(link), link.lcp.timers > 0, NEW m \in Settled({LcpTimeout(l) : l \in Pools})
  PROVE  LinkInv(m) /\ link.phase # "DEAD"
<1>1. PICK l \in Pools : m = WithPbuf(LcpTimeout(l), TRUE)
  BY DEF Settled
<1>2. LinkInv(l) /\ l.phase = link.phase /\ l.lcp.timers = link.lcp.timers
  BY <1>1, PoolsAre
<1>3. LinkInv(LcpTimeout(l)) /\ l.open
  BY <1>2, TimeoutKeeps
<1> QED BY <1>1, <1>2, <1>3, PbufKeeps, OpenIsNotDead

\* The same for IPCP's timer.
LEMMA IpcpTimerStep ==
  ASSUME LinkInv(link), link.ipcp.timers > 0, NEW m \in Settled({IpcpTimeout(l) : l \in Pools})
  PROVE  LinkInv(m) /\ link.phase # "DEAD"
<1>1. PICK l \in Pools : m = WithPbuf(IpcpTimeout(l), TRUE)
  BY DEF Settled
<1>2. LinkInv(l) /\ l.phase = link.phase /\ l.ipcp.timers = link.ipcp.timers
  BY <1>1, PoolsAre
<1>3. LinkInv(IpcpTimeout(l)) /\ l.open
  BY <1>2, TimeoutKeeps
<1> QED BY <1>1, <1>2, <1>3, PbufKeeps, OpenIsNotDead

\* pppapi_connect leaves the block in order.
LEMMA ConnectStep ==
  ASSUME LinkInv(link), NEW m \in Settled({ppp_connect(l) : l \in Pools})
  PROVE  LinkInv(m)
<1>1. PICK l \in Pools : m = WithPbuf(ppp_connect(l), TRUE)
  BY DEF Settled
<1> QED BY <1>1, PoolsAre, ConnectKeeps, PbufKeeps
-----------------------------------------------------------------------------
(* The session's invariant. *)

\* Every session begins with an empty line and a new block.
LEMMA InitEstablishes == Init => IInv
<1> SUFFICES ASSUME Init PROVE IInv
  OBVIOUS
<1>1. LinkInv(link) /\ link.phase = "DEAD"
  BY NewLink DEF Init, ppp_new
<1>2. TypeOK
  <2>1. link \in Link
    BY <1>1 DEF LinkInv
  <2>2. rxq \in Seq(Age) /\ Len(rxq) <= QueueLen
    BY OldsEmpty, SessionAssumption DEF Init
  <2>3. buf \in Seq(Age) /\ Len(buf) <= 1
    BY OldsEmpty DEF Init
  <2>4. mbox \in Seq(Age) /\ Len(mbox) <= MboxSize
    BY OldsEmpty, SessionAssumption DEF Init
  <2>5. pc \in TaskPc /\ pool \in 0..1 /\ esp \in {"up", "gone"}
    BY DEF Init, TaskPc
  <2>6. dr \in Age \cup {"empty"} /\ armed \in BOOLEAN
    BY DEF Init
  <2> QED BY <2>1, <2>2, <2>3, <2>4, <2>5, <2>6 DEF TypeOK
<1> QED
  BY <1>1, <1>2 DEF Init, IInv, PoolAndPhase, NothingInTransit, OldBytes, AtMostOneOldByte,
                    Serial, Loop

\* What the buffer of one unit adds to the mailbox, and a unit that is alone.
LEMMA OldsMove ==
  ASSUME NEW s \in Seq(Age), NEW b \in Seq(Age), Len(b) <= 1
  PROVE  /\ s \o b \in Seq(Age) /\ Len(s \o b) <= Len(s) + 1
         /\ Olds(s \o b) = Olds(s) + Olds(b)
<1>1. s \o b \in Seq(Age) /\ Len(s \o b) <= Len(s) + 1
  OBVIOUS
<1>2. CASE b = <<>>
  <2>1. s \o b = s
    BY <1>2
  <2>2. Olds(s \o b) = Olds(s) /\ Olds(b) = 0 /\ Olds(s) \in Nat
    BY <1>2, <2>1, OldsType
  <2> QED BY <1>1, <2>2
<1>3. CASE b # <<>>
  <2>1. PICK x \in Age : b = <<x>>
    <3>1. Len(b) = 1
      <4>1. Len(b) \in Nat \ {0}
        BY <1>3, EmptySeq
      <4>2. \A n \in Nat \ {0} : n <= 1 => n = 1
        OBVIOUS
      <4> QED BY <4>1, <4>2, Zenon
    <3>2. b[1] \in Age /\ b = <<b[1]>>
      BY <3>1
    <3> QED BY <3>2
  <2>2. s \o b = Append(s, x) /\ b = Append(<<>>, x) /\ <<>> \in Seq(Age)
    BY <2>1
  <2>3. Olds(<<>>) = 0 /\ Olds(s) \in Nat
    BY <2>2, OldsType
  <2>4. Olds(b) = IF x = "old" THEN 1 ELSE 0
    <3>1. Olds(Append(<<>>, x)) = Olds(<<>>) + (IF x = "old" THEN 1 ELSE 0)
      BY <2>2, OldsAppend
    <3> QED BY <2>2, <2>3, <3>1
  <2>5. Olds(s \o b) = Olds(s) + (IF x = "old" THEN 1 ELSE 0)
    BY <2>2, OldsAppend
  <2> QED BY <1>1, <2>4, <2>5
<1> QED BY <1>2, <1>3

\* PPPoS_Task.
LEMMA TaskKeeps ==
  ASSUME IInv, TaskStep
  PROVE  IInv'
<1> USE DEF IInv
<1>1. CASE Create
  <2>1. LinkInv(link') /\ link'.phase = "DEAD"
    BY <1>1, NewLink DEF Create, ppp_new
  <2>2. TypeOK'
    BY <1>1, <2>1 DEF Create, TypeOK, LinkInv, TaskPc, Goto, serial
  <2>3. PoolAndPhase' /\ NothingInTransit' /\ OldBytes'
    BY <1>1 DEF Create, PoolAndPhase, NothingInTransit, OldBytes, AtMostOneOldByte,
                Serial, Loop, Goto
  <2> QED BY <2>1, <2>2, <2>3
<1>2. CASE Connect
  <2>1. LinkInv(link')
    BY <1>2, ConnectStep DEF Connect
  <2>2. TypeOK'
    BY <1>2, <2>1 DEF Connect, TypeOK, LinkInv, TaskPc, Serial, Goto, serial
  <2>3. PoolAndPhase' /\ NothingInTransit' /\ OldBytes'
    BY <1>2 DEF Connect, PoolAndPhase, NothingInTransit, OldBytes, AtMostOneOldByte,
                Serial, Loop, Goto
  <2> QED BY <2>1, <2>2, <2>3
<1>3. CASE Purge
  <2>1. TypeOK' /\ LinkInv(link')
    <3>1. rxq' \in Seq(Age) /\ Len(rxq') <= QueueLen
      BY <1>3, OldsEmpty, SessionAssumption DEF Purge
    <3> QED BY <1>3, <3>1 DEF Purge, TypeOK, TaskPc, Serial, Goto, serial
  <2>2. PoolAndPhase' /\ NothingInTransit'
    BY <1>3 DEF Purge, PoolAndPhase, NothingInTransit, Serial, Goto
  <2>3. Olds(rxq') = 0
    BY <1>3, OldsEmpty DEF Purge
  <2>4. OldBytes'
    BY <1>3, <2>3 DEF Purge, OldBytes, AtMostOneOldByte, Loop, Goto
  <2> QED BY <2>1, <2>2, <2>4
<1>4. CASE Arm
  <2>1. rxq' = rxq \/ (Len(rxq) < QueueLen /\ dr \in Age /\ rxq' = Append(rxq, dr))
    BY <1>4 DEF Arm, TypeOK
  <2>2. TypeOK' /\ LinkInv(link')
    <3>1. rxq' \in Seq(Age) /\ Len(rxq') <= QueueLen
      BY <2>1, SessionAssumption DEF TypeOK
    <3> QED BY <1>4, <3>1 DEF Arm, TypeOK, TaskPc, Loop, Goto
  <2>3. PoolAndPhase' /\ NothingInTransit'
    BY <1>4 DEF Arm, PoolAndPhase, NothingInTransit, Serial, Goto
  <2>4. Olds(rxq') \in 0..1
    BY <1>4, <2>1, OldsAppend DEF Arm, OldBytes, TypeOK
  <2>5. Olds(buf') = 0 /\ Olds(mbox') = 0
    BY <1>4, OldsType DEF Arm, NothingInTransit, Serial, TypeOK
  <2>6. OldBytes'
    BY <1>4, <2>4, <2>5 DEF Arm, OldBytes, AtMostOneOldByte, Goto
  <2> QED BY <2>2, <2>3, <2>6
<1>5. CASE Read
  <2>1. PoolAndPhase' /\ NothingInTransit'
    BY <1>5 DEF Read, PoolAndPhase, NothingInTransit, Serial, Goto, task
  <2>2. CASE rxq # <<>>
    <3>1. buf = <<>> /\ Olds(buf) = 0 /\ Olds(mbox) \in Nat /\ Olds(rxq) + Olds(buf) + Olds(mbox) <= 1
      BY <1>5, OldsType DEF Read, NothingInTransit, OldBytes, AtMostOneOldByte, Loop, TypeOK
    <3>2. /\ Head(rxq) \in Age /\ Tail(rxq) \in Seq(Age) /\ Len(Tail(rxq)) <= QueueLen
          /\ Olds(rxq) = Olds(Tail(rxq)) + (IF Head(rxq) = "old" THEN 1 ELSE 0)
      BY <2>2, OldsTail, SessionAssumption DEF TypeOK
    <3>3. buf' = Append(buf, Head(rxq)) /\ rxq' = Tail(rxq) /\ mbox' = mbox /\ pc' = "input"
      BY <1>5, <2>2, <3>1 DEF Read, Goto
    <3>4. Olds(buf') = (IF Head(rxq) = "old" THEN 1 ELSE 0) /\ Olds(rxq') \in Nat
      <4>1. buf \in Seq(Age) /\ rxq' \in Seq(Age)
        BY <3>2, <3>3 DEF TypeOK
      <4>2. Olds(Append(buf, Head(rxq))) = Olds(buf) + (IF Head(rxq) = "old" THEN 1 ELSE 0)
        BY <3>2, <4>1, OldsAppend
      <4>3. Olds(rxq') \in Nat
        BY <4>1, OldsType
      <4> QED BY <3>1, <3>3, <4>2, <4>3
    <3>5. OldBytes'
      BY <3>1, <3>2, <3>3, <3>4 DEF OldBytes, AtMostOneOldByte
    <3>6. buf' \in Seq(Age) /\ Len(buf') <= 1
      BY <3>1, <3>2, <3>3
    <3>7. TypeOK' /\ LinkInv(link')
      BY <1>5, <3>2, <3>3, <3>6 DEF Read, TypeOK, TaskPc, Loop, serial
    <3> QED BY <2>1, <3>5, <3>7
  <2>3. CASE rxq = <<>>
    BY <1>5, <2>1, <2>3 DEF Read, TypeOK, TaskPc, Loop, Goto, serial, OldBytes, AtMostOneOldByte
  <2> QED BY <2>2, <2>3
<1>6. CASE Input
  <2>1. PoolAndPhase' /\ NothingInTransit'
    BY <1>6 DEF Input, PoolAndPhase, NothingInTransit, Serial, Goto
  <2>2. mbox' = mbox \/ (Len(mbox) < MboxSize /\ mbox' = mbox \o buf)
    BY <1>6 DEF Input
  <2>3. /\ mbox' \in Seq(Age) /\ Len(mbox') <= MboxSize
        /\ Olds(mbox') \in Nat /\ Olds(mbox') <= Olds(mbox) + Olds(buf)
    <3>1. mbox \in Seq(Age) /\ Len(mbox) <= MboxSize /\ buf \in Seq(Age) /\ Len(buf) <= 1
      BY DEF TypeOK
    <3>2. Olds(mbox) \in Nat /\ Olds(buf) \in Nat
      BY <3>1, OldsType
    <3>3. /\ mbox \o buf \in Seq(Age) /\ Len(mbox \o buf) <= Len(mbox) + 1
          /\ Olds(mbox \o buf) = Olds(mbox) + Olds(buf)
      BY <3>1, OldsMove
    <3>4. CASE mbox' = mbox
      BY <3>1, <3>2, <3>4
    <3>5. CASE Len(mbox) < MboxSize /\ mbox' = mbox \o buf
      <4>1. Len(mbox \o buf) \in Nat /\ Len(mbox) \in Nat
        BY <3>1, <3>3
      <4>2. Len(mbox') <= MboxSize
        BY <3>3, <3>5, <4>1, SessionAssumption
      <4> QED BY <3>2, <3>3, <3>5, <4>2
    <3> QED BY <2>2, <3>4, <3>5
  <2>4. buf' = <<>> /\ buf' \in Seq(Age) /\ Len(buf') <= 1 /\ Olds(buf') = 0
    BY <1>6, OldsEmpty DEF Input
  <2>5. TypeOK' /\ LinkInv(link')
    BY <1>6, <2>3, <2>4 DEF Input, TypeOK, TaskPc, Loop, Goto, serial
  <2>6. /\ Olds(rxq) \in Nat /\ Olds(buf) \in Nat /\ Olds(mbox) \in Nat
        /\ Olds(rxq) + Olds(buf) + Olds(mbox) <= 1
    BY <1>6, OldsType DEF Input, OldBytes, AtMostOneOldByte, Loop, TypeOK
  <2>7. Olds(rxq') + Olds(buf') + Olds(mbox') <= 1
    BY <1>6, <2>3, <2>4, <2>6 DEF Input
  <2>8. OldBytes'
    BY <1>6, <2>7 DEF Input, OldBytes, AtMostOneOldByte, Goto
  <2> QED BY <2>1, <2>5, <2>8
<1>7. CASE Check
  <2>1. PoolAndPhase' /\ NothingInTransit' /\ OldBytes'
    BY <1>7 DEF Check, PoolAndPhase, NothingInTransit, OldBytes, AtMostOneOldByte, Serial, Loop, Goto
  <2>2. TypeOK' /\ LinkInv(link')
    BY <1>7 DEF Check, TypeOK, TaskPc, Loop, Goto, serial
  <2> QED BY <2>1, <2>2
<1>8. CASE Free
  <2>1. PoolAndPhase' /\ NothingInTransit' /\ OldBytes'
    BY <1>8 DEF Free, PoolAndPhase, NothingInTransit, OldBytes, AtMostOneOldByte, Serial, Loop, Goto
  <2>2. pool' = 1
    BY <1>8 DEF Free, PoolAndPhase
  <2>3. TypeOK' /\ LinkInv(link')
    BY <1>8, <2>2 DEF Free, TypeOK, TaskPc, Goto, serial
  <2> QED BY <2>1, <2>3
<1>9. CASE ModemReset
  <2>1. PoolAndPhase' /\ NothingInTransit' /\ OldBytes'
    BY <1>9 DEF ModemReset, PoolAndPhase, NothingInTransit, OldBytes, AtMostOneOldByte,
                Serial, Loop, Goto
  <2>2. rxq' \in Seq(Age) /\ Len(rxq') = Len(rxq)
    BY <1>9 DEF ModemReset, TypeOK, Age
  <2>3. dr' \in Age \cup {"empty"} /\ esp' \in {"up", "gone"}
    BY <1>9 DEF ModemReset, TypeOK, Age
  <2>4. TypeOK' /\ LinkInv(link')
    BY <1>9, <2>2, <2>3 DEF ModemReset, TypeOK, TaskPc, Goto
  <2> QED BY <2>1, <2>4
<1> QED BY <1>1, <1>2, <1>3, <1>4, <1>5, <1>6, <1>7, <1>8, <1>9 DEF TaskStep

\* tcpip_thread: the block is in order after each of its steps, and a dead one stays dead.
LEMMA TcpipKeeps ==
  ASSUME IInv, ProcessInput \/ LcpTimer \/ IpcpTimer
  PROVE  IInv'
<1> USE DEF IInv
<1>1. LinkInv(link') /\ (link.phase = "DEAD" => link'.phase = "DEAD")
  <2>1. CASE ProcessInput
    BY <2>1, InputStep DEF ProcessInput
  <2>2. CASE LcpTimer
    BY <2>2, LcpTimerStep DEF LcpTimer
  <2>3. CASE IpcpTimer
    BY <2>3, IpcpTimerStep DEF IpcpTimer
  <2> QED BY <2>1, <2>2, <2>3
<1>2. PoolAndPhase'
  BY <1>1 DEF PoolAndPhase, ProcessInput, LcpTimer, IpcpTimer, task
<1>3. CASE ProcessInput
  <2>1. /\ Tail(mbox) \in Seq(Age) /\ Len(Tail(mbox)) <= Len(mbox) /\ Olds(Tail(mbox)) \in Nat
        /\ Olds(Tail(mbox)) <= Olds(mbox)
    <3>1. mbox \in Seq(Age) /\ mbox # <<>>
      BY <1>3 DEF ProcessInput, TypeOK
    <3>2. /\ Tail(mbox) \in Seq(Age)
          /\ Olds(mbox) = Olds(Tail(mbox)) + (IF Head(mbox) = "old" THEN 1 ELSE 0)
      BY <3>1, OldsTail
    <3>3. Olds(Tail(mbox)) \in Nat
      BY <3>2, OldsType
    <3>4. Len(Tail(mbox)) <= Len(mbox)
      BY <3>1
    <3> QED BY <3>2, <3>3, <3>4
  <2>2. TypeOK'
    BY <1>1, <1>3, <2>1, SessionAssumption DEF ProcessInput, TypeOK, LinkInv, task, serial
  <2>3. NothingInTransit'
    BY <1>3 DEF ProcessInput, NothingInTransit, task
  <2>4. Olds(rxq) \in Nat /\ Olds(buf) \in Nat /\ Olds(mbox) \in Nat
    BY OldsType DEF TypeOK
  <2>5. OldBytes'
    BY <1>3, <2>1, <2>4 DEF ProcessInput, OldBytes, AtMostOneOldByte, task
  <2> QED BY <1>1, <1>2, <2>2, <2>3, <2>5
<1>4. CASE LcpTimer \/ IpcpTimer
  <2>1. UNCHANGED <<task, serial, rxq, buf, mbox>>
    BY <1>4 DEF LcpTimer, IpcpTimer
  <2>2. TypeOK'
    BY <1>1, <2>1 DEF TypeOK, LinkInv, task, serial
  <2>3. NothingInTransit' /\ OldBytes'
    BY <2>1 DEF NothingInTransit, OldBytes, AtMostOneOldByte, task
  <2> QED BY <1>1, <1>2, <2>2, <2>3
<1> QED BY <1>3, <1>4

\* The ESP32 and the line: what they add is new.
LEMMA LineKeeps ==
  ASSUME IInv, Send \/ ReceptionStops \/ Disappear
  PROVE  IInv'
<1> USE DEF IInv
<1>1. UNCHANGED <<task, link, buf, mbox>>
  BY DEF Send, ReceptionStops, Disappear
<1>2. LinkInv(link') /\ PoolAndPhase' /\ NothingInTransit'
  BY <1>1 DEF PoolAndPhase, NothingInTransit, task
<1>3. rxq' = rxq \/ (Len(rxq) < QueueLen /\ rxq' = Append(rxq, "new"))
  BY DEF Send, ReceptionStops, Disappear
<1>4. rxq' \in Seq(Age) /\ Len(rxq') <= QueueLen /\ Olds(rxq') = Olds(rxq)
  <2>1. "new" \in Age /\ rxq \in Seq(Age) /\ Len(rxq) <= QueueLen /\ Olds(rxq) \in Nat
    BY OldsType DEF TypeOK, Age
  <2>2. Olds(Append(rxq, "new")) = Olds(rxq)
    BY <2>1, OldsAppend
  <2>3. /\ Append(rxq, "new") \in Seq(Age) /\ Len(Append(rxq, "new")) = Len(rxq) + 1
        /\ Len(rxq) \in Nat
    BY <2>1
  <2>4. CASE rxq' = rxq
    BY <2>1, <2>4
  <2>5. CASE Len(rxq) < QueueLen /\ rxq' = Append(rxq, "new")
    <3>1. Len(rxq') <= QueueLen
      BY <2>3, <2>5, SessionAssumption
    <3> QED BY <2>2, <2>3, <2>5, <3>1
  <2> QED BY <1>3, <2>4, <2>5
<1>5. OldBytes'
  BY <1>1, <1>4 DEF OldBytes, AtMostOneOldByte, task
<1>6. esp' \in {"up", "gone"} /\ dr' \in Age \cup {"empty"} /\ armed' \in BOOLEAN
  BY DEF Send, ReceptionStops, Disappear, TypeOK, Age
<1>7. TypeOK'
  BY <1>1, <1>4, <1>6 DEF TypeOK, task
<1> QED BY <1>2, <1>5, <1>7

\* The invariant holds in every state: whatever the ESP32 sends and when, whichever timer
\* expires, whichever pbuf is missing, and for queues of any length.
THEOREM SessionInvariant == Spec => []IInv
<1>1. ASSUME IInv, UNCHANGED vars PROVE IInv'
  BY <1>1 DEF vars, IInv, TypeOK, PoolAndPhase, NothingInTransit, OldBytes, AtMostOneOldByte
<1>2. IInv /\ [Next]_vars => IInv'
  BY <1>1, TaskKeeps, TcpipKeeps, LineKeeps DEF Next
<1> QED BY <1>2, InitEstablishes, PTL DEF Spec

-----------------------------------------------------------------------------
(* What it implies. *)

\* The types.
THEOREM SessionTypes == Spec => []TypeOK
<1>1. IInv => TypeOK
  BY DEF IInv
<1> QED BY <1>1, SessionInvariant, PTL

\* PPPoS_Task never asks for a second control block.
THEOREM CreateAlwaysSucceeds == Spec => []CreateSucceeds
<1>1. IInv => CreateSucceeds
  BY DEF IInv, PoolAndPhase, CreateSucceeds
<1> QED BY <1>1, SessionInvariant, PTL

\* A block that is free is closed, and has no timer.
THEOREM FreedStaysInert == Spec => []FreedIsInert
<1>1. ASSUME IInv, pool = 1 PROVE ~link.open /\ link.lcp.timers = 0 /\ link.ipcp.timers = 0
  <2>1. LinkInv(link) /\ link.phase = "DEAD"
    BY <1>1 DEF IInv, PoolAndPhase
  <2>2. ~link.open
    BY <2>1, OpenIsNotDead
  <2> QED BY <2>1, <2>2, DeadLink
<1>2. IInv => FreedIsInert
  BY <1>1 DEF FreedIsInert
<1> QED BY <1>2, SessionInvariant, PTL

\* LCP and IPCP never have two timers pending, and have one exactly when they wait.
THEOREM OneTimerAlways == Spec => []OneTimerEach
<1>1. IInv => OneTimerEach
  BY DEF IInv, LinkInv, OneTimerEach
<1> QED BY <1>1, SessionInvariant, PTL

\* IP is never passed to a link that is not negotiated.
THEOREM RunningMeansNegotiated == Spec => []RunningIsNegotiated
<1>1. IInv => RunningIsNegotiated
  BY DEF IInv, LinkInv, LcpBelowIpcp, IpFollowsIpcp, RunningIsNegotiated
<1> QED BY <1>1, SessionInvariant, PTL

\* An open session that does not carry IP has a timer, but for the two exceptions.
THEOREM SomebodyAlwaysWatches == Spec => []SomebodyWatches
<1>1. ASSUME IInv, link.open, link.phase # "RUNNING", ~Rejected, ~Starved
      PROVE  link.lcp.timers + link.ipcp.timers > 0
  <2>1. link \in Link /\ link.lcp \in Fsm /\ link.ipcp \in Fsm
    BY <1>1 DEF IInv, LinkInv, Link
  <2>2. link.lcp.timers \in Nat /\ link.ipcp.timers \in Nat
    BY <2>1 DEF Fsm
  <2>3. WellTimed(link.lcp) /\ WellTimed(link.ipcp) /\ ~link.lcp.starved /\ ~link.ipcp.starved
    BY <1>1 DEF IInv, LinkInv, Starved
  <2>4. link.lcp.state \in Timed \/ link.ipcp.state \in Timed
    <3>1. link.lcp.state \in Timed \/ link.lcp.state = "OPENED"
      BY <1>1 DEF IInv, LinkInv, OpenOrDead
    <3>2. CASE link.lcp.state = "OPENED"
      <4>1. link.ipcp.state \in FsmState /\ link.ipcp.state \notin {"INITIAL", "STARTING"}
        BY <1>1, <2>1, <3>2 DEF Rejected, Fsm
      <4>2. link.ipcp.state \notin {"CLOSED", "STOPPED", "OPENED"}
        BY <1>1, <3>2 DEF IInv, LinkInv, LcpBelowIpcp, IpFollowsIpcp
      <4> QED BY <4>1, <4>2 DEF FsmState
    <3> QED BY <3>1, <3>2
  <2> QED BY <2>2, <2>3, <2>4 DEF WellTimed
<1>2. IInv => SomebodyWatches
  BY <1>1 DEF SomebodyWatches
<1> QED BY <1>2, SessionInvariant, PTL

\* At most one byte from before the reset reaches the new session.
THEOREM OneOldByteAtMost == Spec => []AtMostOneOldByte
<1>1. IInv => AtMostOneOldByte
  BY DEF IInv, OldBytes
<1> QED BY <1>1, SessionInvariant, PTL

\* Nothing is on its way to tcpip_thread while the queue is purged and the UART armed.
THEOREM ArmingIsQuiet == Spec => []QuietWhileArming
<1>1. IInv => QuietWhileArming
  BY DEF IInv, NothingInTransit, QuietWhileArming, Serial
<1> QED BY <1>1, SessionInvariant, PTL
=============================================================================
