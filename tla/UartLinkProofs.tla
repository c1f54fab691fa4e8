---------------------------- MODULE UartLinkProofs ----------------------------
(***************************************************************************)
(* Proofs about UartLink, for any threads, queue length, buffers and       *)
(* number of bytes.                                                        *)
(***************************************************************************)
EXTENDS UartLink, SequenceTheorems, TLAPS

-----------------------------------------------------------------------------
(* The interrupt's functions of the handle. *)

\* Two handles agree on the data register and on what belongs to the transmitter.
SameElsewhere(u, v) ==
  u.DR = v.DR /\ u.Lock = v.Lock /\ u.gState = v.gState /\ u.TxXferCount = v.TxXferCount

Receives(u) == u.RxState = "BUSY_RX" /\ u.RXNEIE /\ u.EIE
Stopped(u)  == u.RxState = "READY" /\ ~u.RXNEIE /\ ~u.EIE

\* Reading the byte of an armed handle empties the data register.  Reception goes on
\* unless the handle is locked, and ErrorCode tells which.
LEMMA ReadByteFacts ==
  ASSUME NEW u \in Uart, NEW late \in BOOLEAN, u.RxState = "BUSY_RX"
  PROVE  LET r == ReadByte(u, late)
         IN  /\ r \in Uart /\ SameElsewhere(r, u) /\ r.RXNE = FALSE /\ r.ORE = late
             /\ u.Lock => Stopped(r) /\ r.ErrorCode = u.ErrorCode
             /\ ~u.Lock => Receives(r) /\ r.ErrorCode = "NONE"
<1> DEFINE v == [u EXCEPT !.RXNE = FALSE, !.ORE = late,
                          !.RXNEIE = FALSE, !.EIE = FALSE, !.RxState = "READY"]
<1>1. v \in Uart /\ SameElsewhere(v, u) /\ v.RXNE = FALSE /\ v.ORE = late
      /\ Stopped(v) /\ v.ErrorCode = u.ErrorCode
  BY DEF Uart, SameElsewhere, Stopped
<1>2. ReadByte(u, late) = Rearm(v)
  BY DEF ReadByte
<1> HIDE DEF v
<1>3. CASE u.Lock
  <2>1. Rearm(v) = v
    BY <1>1, <1>3 DEF Rearm, SameElsewhere
  <2> QED BY <2>1, <1>1, <1>2, <1>3
<1>4. CASE ~u.Lock
  <2>1. Rearm(v) = [v EXCEPT !.ErrorCode = "NONE", !.RxState = "BUSY_RX",
                             !.EIE = TRUE, !.RXNEIE = TRUE]
    BY <1>1, <1>4 DEF Rearm, SameElsewhere, Stopped
  <2>2. /\ Rearm(v) \in Uart /\ SameElsewhere(Rearm(v), v)
        /\ Rearm(v).RXNE = v.RXNE /\ Rearm(v).ORE = v.ORE
        /\ Receives(Rearm(v)) /\ Rearm(v).ErrorCode = "NONE"
    BY <2>1, <1>1 DEF Uart, SameElsewhere, Receives
  <2> QED BY <2>2, <1>1, <1>2, <1>4 DEF SameElsewhere
<1> QED BY <1>3, <1>4

\* Ending a transfer stops reception and leaves the data register and the transmitter alone.
LEMMA EndRxFacts ==
  ASSUME NEW u \in Uart
  PROVE  LET r == UART_EndRxTransfer(u)
         IN  /\ r \in Uart /\ SameElsewhere(r, u) /\ r.RXNE = u.RXNE /\ r.ORE = u.ORE
             /\ Stopped(r)
BY DEF UART_EndRxTransfer, Uart, SameElsewhere, Stopped

\* What the interrupt makes of the handle.
IrqHandle(late) == IF uart.ORE THEN AfterOverrun(uart, late) ELSE ReadByte(uart, late)

\* An interrupt that completes the transfer, with or without an overrun.
LEMMA IrqCompletes ==
  ASSUME uart \in Uart, NEW late \in BOOLEAN, Completes(uart)
  PROVE  LET r == IrqHandle(late)
         IN  /\ r \in Uart /\ SameElsewhere(r, uart) /\ r.RXNE = FALSE /\ r.ORE = late
             /\ uart.Lock => Stopped(r)
             /\ ~uart.Lock => Receives(r)
<1>1. CASE ~uart.ORE
  <2>1. IrqHandle(late) = ReadByte(uart, late) /\ uart.RxState = "BUSY_RX"
    BY <1>1 DEF IrqHandle, Completes
  <2> QED BY ZenonT(60), <2>1, ReadByteFacts
<1>2. CASE uart.ORE
  <2> DEFINE e == [uart EXCEPT !.ErrorCode = "ORE"]
             o == ReadByte(e, late)
  <2>1. /\ e \in Uart /\ SameElsewhere(e, uart) /\ e.RxState = "BUSY_RX"
        /\ e.ErrorCode = "ORE"
    BY DEF Uart, SameElsewhere, Completes
  <2>2. IrqHandle(late) = IF o.ErrorCode = "ORE" THEN UART_EndRxTransfer(o) ELSE o
    BY <1>2 DEF IrqHandle, AfterOverrun, Overrun, Completes, DataInterrupt
  <2> HIDE DEF e
  <2>3. /\ o \in Uart /\ SameElsewhere(o, e) /\ o.RXNE = FALSE /\ o.ORE = late
        /\ e.Lock => Stopped(o) /\ o.ErrorCode = "ORE"
        /\ ~e.Lock => Receives(o) /\ o.ErrorCode = "NONE"
    BY <2>1, ReadByteFacts
  <2> HIDE DEF o
  <2>4. CASE uart.Lock
    <3>1. IrqHandle(late) = UART_EndRxTransfer(o)
      BY <2>1, <2>2, <2>3, <2>4 DEF SameElsewhere
    <3> DEFINE r == UART_EndRxTransfer(o)
    <3>2. r \in Uart /\ SameElsewhere(r, o) /\ r.RXNE = o.RXNE /\ r.ORE = o.ORE /\ Stopped(r)
      BY <2>3, EndRxFacts
    <3> HIDE DEF r
    <3>3. SameElsewhere(r, uart)
      BY <3>2, <2>1, <2>3 DEF SameElsewhere
    <3> QED BY <3>1, <3>2, <3>3, <2>3, <2>4 DEF r
  <2>5. CASE ~uart.Lock
    <3>1. IrqHandle(late) = o
      BY <2>1, <2>2, <2>3, <2>5 DEF SameElsewhere
    <3> QED BY <3>1, <2>1, <2>3, <2>5 DEF SameElsewhere
  <2> QED BY <2>4, <2>5
<1> QED BY <1>1, <1>2

\* An interrupt with an overrun and no byte to read switches reception off.
LEMMA IrqAborts ==
  ASSUME uart \in Uart, NEW late \in BOOLEAN, ~Completes(uart), uart.ORE
  PROVE  LET r == IrqHandle(late)
         IN  /\ r \in Uart /\ SameElsewhere(r, uart) /\ r.RXNE = uart.RXNE /\ r.ORE = TRUE
             /\ Stopped(r)
<1> DEFINE e == [uart EXCEPT !.ErrorCode = "ORE"]
<1>1. e \in Uart /\ SameElsewhere(e, uart) /\ e.RXNE = uart.RXNE /\ e.ORE = TRUE
      /\ e.ErrorCode = "ORE" /\ e.RxState = uart.RxState
  BY DEF Uart, SameElsewhere
<1>2. Overrun(uart, late) = e
  BY <1>1 DEF Overrun, Completes, ReadByte
<1> HIDE DEF e
<1>3. IrqHandle(late) = UART_EndRxTransfer(e)
  BY <1>1, <1>2 DEF IrqHandle, AfterOverrun
<1> QED BY <1>1, <1>3, EndRxFacts DEF SameElsewhere

\* An interrupt with neither leaves the handle alone.
LEMMA IrqNothing ==
  ASSUME uart \in Uart, NEW late \in BOOLEAN, ~Completes(uart), ~uart.ORE,
         DataInterrupt(uart) \/ ErrorInterrupt(uart)
  PROVE  IrqHandle(late) = uart
BY DEF IrqHandle, Completes, DataInterrupt, ErrorInterrupt, ReadByte

\* What the three cases have in common: the byte leaves the data register exactly
\* when the transfer completes.
LEMMA IrqFacts ==
  ASSUME uart \in Uart, NEW late \in BOOLEAN, DataInterrupt(uart) \/ ErrorInterrupt(uart)
  PROVE  LET r == IrqHandle(late)
         IN  /\ r \in Uart /\ SameElsewhere(r, uart)
             /\ (r.RXNE <=> uart.RXNE /\ ~Completes(uart))
<1>1. CASE Completes(uart)
  BY <1>1, IrqCompletes
<1>2. CASE ~Completes(uart) /\ uart.ORE
  BY <1>2, IrqAborts DEF Uart
<1>3. CASE ~Completes(uart) /\ ~uart.ORE
  <2>1. IrqHandle(late) = uart
    BY <1>3, IrqNothing
  <2> QED BY <2>1, <1>3 DEF SameElsewhere, Uart
<1> QED BY <1>1, <1>2, <1>3

-----------------------------------------------------------------------------
(* Types. *)

\* The queue never holds more than it has room for, and every variable stays in its type.
THEOREM TypeCorrect == Spec => []TypeOK
<1>1. Init => TypeOK
  BY UartAssumption DEF Init, TypeOK, Uart
<1>2. TypeOK /\ [Next]_vars => TypeOK'
  <2> SUFFICES ASSUME TypeOK, [Next]_vars PROVE TypeOK'
    OBVIOUS
  <2> USE UartAssumption DEF TypeOK
  <2>1. CASE ByteArrives
    <3>1. sent' \in Nat /\ UNCHANGED <<rxq, last, core, pc, len, written>>
      BY <2>1 DEF ByteArrives
    <3>2. uart' \in Uart
      <4>1. ASSUME NEW n \in Nat PROVE [uart EXCEPT !.RXNE = TRUE, !.DR = n] \in Uart
        BY DEF Uart
      <4>2. [uart EXCEPT !.ORE = TRUE] \in Uart
        BY DEF Uart
      <4>3. sent + 1 \in Nat
        OBVIOUS
      <4> QED BY <2>1, <4>1, <4>2, <4>3 DEF ByteArrives
    <3> QED BY <3>1, <3>2
  <2>2. ASSUME NEW late \in BOOLEAN, HAL_UART_IRQHandler(late) PROVE TypeOK'
    <3>1. uart' = IrqHandle(late)
      BY <2>2 DEF HAL_UART_IRQHandler, IrqHandle
    <3>2. uart' \in Uart
      BY <2>2, <3>1, IrqFacts DEF HAL_UART_IRQHandler
    <3>3. rxq' \in Seq(Nat) /\ Len(rxq') <= QueueLen
      <4>1. uart.DR \in Nat
        BY DEF Uart
      <4>2. rxq' = rxq \/ (Len(rxq) < QueueLen /\ rxq' = Append(rxq, uart.DR))
        <5>1. IF Completes(uart) THEN Enqueue(uart.DR) ELSE rxq' = rxq
          BY <2>2 DEF HAL_UART_IRQHandler
        <5> QED BY <5>1 DEF Enqueue
      <4>3. CASE Len(rxq) < QueueLen /\ rxq' = Append(rxq, uart.DR)
        BY <4>1, <4>3
      <4> QED BY <4>2, <4>3
    <3> QED BY <2>2, <3>2, <3>3 DEF HAL_UART_IRQHandler
  <2>3. ASSUME NEW t \in Threads, LockCore(t) PROVE TypeOK'
    BY <2>3 DEF LockCore, Goto, TxPc
  <2>4. ASSUME NEW t \in Threads, Transmit(t) PROVE TypeOK'
    <3>1. CASE TxEnter(t)
      BY <3>1 DEF TxEnter, Goto, TxPc
    <3>2. CASE TxLock(t)
      BY <3>2 DEF TxLock, Goto, TxPc, Uart
    <3>3. CASE TxSetup(t)
      BY <3>3 DEF TxSetup, Goto, TxPc, Uart
    <3>4. CASE TxByte(t)
      <4>1. uart' \in Uart
        <5>1. ASSUME NEW n \in Nat PROVE [uart EXCEPT !.TxXferCount = n] \in Uart
          BY DEF Uart
        <5>2. uart.TxXferCount \in Nat /\ uart.TxXferCount > 0
          BY <3>4 DEF TxByte, Uart
        <5>3. uart.TxXferCount - 1 \in Nat
          BY <5>2
        <5> QED BY <3>4, <5>1, <5>3 DEF TxByte
      <4>2. written' \in [Threads -> Nat]
        BY SMTT(30), <3>4 DEF TxByte
      <4>3. pc' \in [Threads -> {"idle"} \cup TxPc \cup ArmPc]
        BY <3>4 DEF TxByte, Goto, TxPc
      <4> QED BY <3>4, <4>1, <4>2, <4>3 DEF TxByte
    <3>5. CASE TxComplete(t)
      BY ZenonT(30), <3>5 DEF TxComplete, Goto, TxPc, Uart
    <3>6. CASE TxStop(t)
      BY <3>6 DEF TxStop, Goto, TxPc, Uart
    <3>7. CASE TxReset(t)
      BY <3>7 DEF TxReset, Goto, TxPc, Uart
    <3>8. CASE TxReturn(t)
      BY <3>8 DEF TxReturn, Goto
    <3> QED BY <2>4, <3>1, <3>2, <3>3, <3>4, <3>5, <3>6, <3>7, <3>8 DEF Transmit
  <2>5. CASE Purge
    BY <2>5 DEF Purge, Goto, ArmPc
  <2>6. CASE ArmEnter
    BY <2>6 DEF ArmEnter, Goto, ArmPc
  <2>7. CASE ArmLock
    BY <2>7 DEF ArmLock, Goto, ArmPc, Uart
  <2>8. CASE ArmSet
    BY <2>8 DEF ArmSet, Goto, ArmPc, Uart
  <2>9. CASE ArmError
    BY <2>9 DEF ArmError, Goto, ArmPc, Uart
  <2>10. CASE ArmRxne
    BY <2>10 DEF ArmRxne, Goto, Uart
  <2>11. CASE ReadQueue
    BY <2>11 DEF ReadQueue
  <2>12. CASE UNCHANGED vars
    BY <2>12 DEF vars
  <2> QED BY <2>1, <2>2, <2>3, <2>4, <2>5, <2>6, <2>7, <2>8, <2>9, <2>10, <2>11, <2>12
          DEF Next, Irq, Arm
<1> QED BY <1>1, <1>2, PTL DEF Spec

-----------------------------------------------------------------------------
(* The order of the bytes. *)

\* Only the interrupt, a purge and the reader change the queue, and only the interrupt
\* and an arriving byte change what the data register holds.
LEMMA OrderUnchanged ==
  ASSUME InOrder, UNCHANGED <<sent, rxq, last>>,
         uart'.RXNE = uart.RXNE, uart'.DR = uart.DR
  PROVE  InOrder'
BY DEF InOrder

\* A thread in lwIP changes neither the queue nor the data register.
LEMMA TransmitKeepsBytes ==
  ASSUME TypeOK, NEW t \in Threads, LockCore(t) \/ Transmit(t)
  PROVE  UNCHANGED <<sent, rxq, last>> /\ uart'.RXNE = uart.RXNE /\ uart'.DR = uart.DR
<1> USE DEF TypeOK, Uart
<1>1. CASE LockCore(t)
  BY <1>1 DEF LockCore
<1>2. CASE TxEnter(t)
  BY <1>2 DEF TxEnter
<1>3. CASE TxLock(t)
  BY <1>3 DEF TxLock
<1>4. CASE TxSetup(t)
  BY <1>4 DEF TxSetup
<1>5. CASE TxByte(t)
  BY <1>5 DEF TxByte
<1>6. CASE TxComplete(t)
  BY <1>6 DEF TxComplete
<1>7. CASE TxStop(t)
  BY <1>7 DEF TxStop
<1>8. CASE TxReset(t)
  BY <1>8 DEF TxReset
<1>9. CASE TxReturn(t)
  BY <1>9 DEF TxReturn
<1> QED BY <1>1, <1>2, <1>3, <1>4, <1>5, <1>6, <1>7, <1>8, <1>9 DEF Transmit

\* Arming reception does not either.
LEMMA ArmKeepsBytes ==
  ASSUME TypeOK, Arm
  PROVE  UNCHANGED <<sent, rxq, last>> /\ uart'.RXNE = uart.RXNE /\ uart'.DR = uart.DR
BY DEF Arm, ArmEnter, ArmLock, ArmSet, ArmError, ArmRxne, TypeOK, Uart

\* The interrupt either queues the byte it takes from the data register, or loses it,
\* or leaves both alone; a late byte is lost.
LEMMA IrqBytes ==
  ASSUME TypeOK, Irq
  PROVE  /\ last' = last /\ sent' \in {sent, sent + 1}
         /\ uart'.RXNE => uart.RXNE /\ uart'.DR = uart.DR
         /\ \/ rxq' = rxq
            \/ uart.RXNE /\ ~uart'.RXNE /\ rxq' = Append(rxq, uart.DR)
<1> PICK late \in BOOLEAN : HAL_UART_IRQHandler(late)
  BY DEF Irq
<1>1. uart \in Uart
  BY DEF TypeOK
<1>2. DataInterrupt(uart) \/ ErrorInterrupt(uart)
  BY DEF HAL_UART_IRQHandler
<1>3. uart' = IrqHandle(late)
  BY DEF HAL_UART_IRQHandler, IrqHandle
<1>4. (uart'.RXNE <=> uart.RXNE /\ ~Completes(uart)) /\ uart'.DR = uart.DR
  BY <1>1, <1>2, <1>3, IrqFacts DEF SameElsewhere
<1>5. IF Completes(uart) THEN Enqueue(uart.DR) ELSE rxq' = rxq
  BY DEF HAL_UART_IRQHandler
<1>6. Completes(uart) => uart.RXNE
  BY DEF Completes, DataInterrupt
<1>7. \/ rxq' = rxq
      \/ uart.RXNE /\ ~uart'.RXNE /\ rxq' = Append(rxq, uart.DR)
  BY <1>4, <1>5, <1>6 DEF Enqueue
<1>8. last' = last /\ sent' \in {sent, sent + 1}
  BY DEF HAL_UART_IRQHandler
<1> QED BY <1>4, <1>7, <1>8

\* The bytes stay in the order in which they were sent, and none is there twice.
THEOREM OrderKept == Spec => []InOrder
<1>1. Init => InOrder
  BY DEF Init, InOrder
<1>2. TypeOK /\ InOrder /\ [Next]_vars => InOrder'
  <2> SUFFICES ASSUME TypeOK, InOrder, [Next]_vars PROVE InOrder'
    OBVIOUS
  <2>1. CASE ByteArrives
    <3>1. UNCHANGED <<rxq, last>> /\ sent' = sent + 1 /\ sent \in Nat /\ rxq \in Seq(Nat)
      BY <2>1 DEF ByteArrives, TypeOK
    <3>2. CASE uart.RXNE
      <4>1. uart'.RXNE = uart.RXNE /\ uart'.DR = uart.DR
        BY <2>1, <3>2 DEF ByteArrives, TypeOK, Uart
      <4> QED BY <3>1, <3>2, <4>1 DEF InOrder, TypeOK, Uart
    <3>3. CASE ~uart.RXNE
      <4>1. uart'.DR = sent + 1
        BY <2>1, <3>3 DEF ByteArrives, TypeOK, Uart
      <4>2. \A i \in 1..Len(rxq) : rxq[i] \in Nat /\ rxq[i] <= sent
        BY <3>1 DEF InOrder
      <4>3. last < sent + 1
        BY <3>1 DEF InOrder, TypeOK
      <4> QED BY SMTT(30), <3>1, <4>1, <4>2 DEF InOrder, TypeOK, Uart
    <3> QED BY <3>2, <3>3
  <2>2. CASE Irq
    <3> USE <2>2, IrqBytes
    <3>1. CASE rxq' = rxq
      BY SMTT(30), <3>1 DEF InOrder, TypeOK, Uart
    <3>2. CASE uart.RXNE /\ ~uart'.RXNE /\ rxq' = Append(rxq, uart.DR)
      BY SMTT(30), <3>2 DEF InOrder, TypeOK, Uart
    <3> QED BY <3>1, <3>2
  <2>3. ASSUME NEW t \in Threads, LockCore(t) \/ Transmit(t) PROVE InOrder'
    BY <2>3, TransmitKeepsBytes, OrderUnchanged
  <2>4. CASE Purge
    BY <2>4 DEF Purge, InOrder
  <2>5. CASE Arm
    BY <2>5, ArmKeepsBytes, OrderUnchanged
  <2>6. CASE ReadQueue
    <3>1. rxq \in Seq(Nat) /\ rxq # <<>> /\ last' = rxq[1] /\ rxq' = Tail(rxq)
          /\ UNCHANGED <<uart, sent>>
      BY <2>6 DEF ReadQueue, TypeOK
    <3>2. /\ Len(rxq') = Len(rxq) - 1 /\ Len(rxq) \in Nat \ {0}
          /\ \A i \in 1..Len(rxq') : rxq'[i] = rxq[i + 1] /\ i + 1 \in 1..Len(rxq) /\ 1 < i + 1
      BY <3>1
    <3>3. \A i, j \in 1..Len(rxq') : i < j => rxq'[i] < rxq'[j]
      BY <3>2 DEF InOrder
    <3>4. \A i \in 1..Len(rxq') : last' < rxq'[i] /\ rxq'[i] <= sent'
      BY <3>1, <3>2 DEF InOrder
    <3>5. uart'.RXNE => last' < uart'.DR /\ uart'.DR <= sent'
      BY <3>1, <3>2 DEF InOrder
    <3>6. uart'.RXNE => \A i \in 1..Len(rxq') : rxq'[i] < uart'.DR
      BY <3>1, <3>2 DEF InOrder
    <3>7. last' <= sent'
      BY <3>1, <3>2 DEF InOrder
    <3> QED BY <3>3, <3>4, <3>5, <3>6, <3>7 DEF InOrder
  <2>7. CASE UNCHANGED vars
    BY <2>7, OrderUnchanged DEF vars
  <2> QED BY <2>1, <2>2, <2>3, <2>4, <2>5, <2>6, <2>7 DEF Next
<1> QED BY <1>1, <1>2, TypeCorrect, PTL DEF Spec

-----------------------------------------------------------------------------
(* The handle. *)

\* While a thread transmits it has the core lock, nobody else transmits and nobody arms.
LEMMA Alone ==
  ASSUME TypeOK, OneAtATime, NEW t \in Threads, Transmitting(t)
  PROVE  /\ core = t /\ ~Arming
         /\ \A s \in Threads : s # t => ~Transmitting(s)
BY UartAssumption DEF TypeOK, OneAtATime

\* A step of a transmission is one of a thread that transmits.
LEMMA TransmitNeedsLock ==
  ASSUME NEW t \in Threads, Transmit(t)
  PROVE  Transmitting(t)
BY DEF Transmit, Transmitting, TxPc, TxEnter, TxLock, TxSetup, TxByte, TxComplete, TxStop,
       TxReset, TxReturn

\* A step of a transmission stays in it, with the core lock, or leaves both.
LEMMA TransmitPc ==
  ASSUME TypeOK, NEW t \in Threads, Transmit(t)
  PROVE  /\ \A s \in Threads : s # t => pc'[s] = pc[s]
         /\ \/ pc'[t] \in TxPc /\ core' = core
            \/ pc'[t] = "idle" /\ core' = NoThread
<1> USE DEF TypeOK, Goto, TxPc
<1>1. CASE TxEnter(t)
  BY <1>1 DEF TxEnter
<1>2. CASE TxLock(t)
  BY <1>2 DEF TxLock
<1>3. CASE TxSetup(t)
  BY <1>3 DEF TxSetup
<1>4. CASE TxByte(t)
  BY <1>4 DEF TxByte
<1>5. CASE TxComplete(t)
  BY <1>5 DEF TxComplete
<1>6. CASE TxStop(t)
  BY <1>6 DEF TxStop
<1>7. CASE TxReset(t)
  BY <1>7 DEF TxReset
<1>8. CASE TxReturn(t)
  BY <1>8 DEF TxReturn
<1> QED BY <1>1, <1>2, <1>3, <1>4, <1>5, <1>6, <1>7, <1>8 DEF Transmit

\* PPPoS_Task arms reception without the core lock, step by step.
LEMMA ArmPcs ==
  ASSUME TypeOK, Arm
  PROVE  /\ core' = core /\ len' = len /\ written' = written
         /\ Arming /\ pc'[Reader] \in ArmPc \cup {"idle"}
         /\ \A s \in Threads : s # Reader => pc'[s] = pc[s]
BY UartAssumption
   DEF Arm, ArmEnter, ArmLock, ArmSet, ArmError, ArmRxne, Arming, ArmPc, Goto, TypeOK

\* Every step keeps OneAtATime, if nobody transmits during the arming.
LEMMA OneAtATimeKept ==
  ASSUME QuietArm, TypeOK, OneAtATime, [Next]_vars
  PROVE  OneAtATime'
<1> USE UartAssumption
<1>1. CASE ByteArrives \/ Irq \/ ReadQueue \/ UNCHANGED vars
  <2>1. UNCHANGED <<core, pc>>
    BY <1>1 DEF ByteArrives, Irq, HAL_UART_IRQHandler, ReadQueue, vars
  <2> QED BY <2>1 DEF OneAtATime, Transmitting, Arming
<1>2. ASSUME NEW t \in Threads, LockCore(t) PROVE OneAtATime'
  <2>1. core = NoThread /\ core' = t /\ pc' = [pc EXCEPT ![t] = "tx_enter"] /\ ~Arming
    BY <1>2 DEF LockCore, Goto
  <2>2. \A s \in Threads : ~Transmitting(s)
    BY <2>1 DEF OneAtATime
  <2>3. \A s \in Threads : Transmitting(s)' <=> core' = s
    BY <2>1, <2>2 DEF Transmitting, TypeOK, TxPc
  <2>4. ~Arming'
    BY <2>1 DEF Arming, ArmPc, TypeOK
  <2> QED BY <2>3, <2>4 DEF OneAtATime
<1>3. ASSUME NEW t \in Threads, Transmit(t) PROVE OneAtATime'
  <2>1. Transmitting(t) /\ core = t /\ ~Arming /\ \A s \in Threads : s # t => ~Transmitting(s)
    BY <1>3, TransmitNeedsLock, Alone
  <2>2. \A s \in Threads : s # t => pc'[s] = pc[s]
    BY <1>3, TransmitPc
  <2>3. CASE pc'[t] \in TxPc /\ core' = core
    <3>1. ~Arming'
      BY <2>1, <2>2, <2>3 DEF Arming, ArmPc, TxPc
    <3> QED BY <2>1, <2>2, <2>3, <3>1 DEF OneAtATime, Transmitting
  <2>4. CASE pc'[t] = "idle" /\ core' = NoThread
    <3>1. \A s \in Threads : ~Transmitting(s)'
      BY <2>1, <2>2, <2>4 DEF Transmitting, TxPc
    <3> QED BY <2>4, <3>1 DEF OneAtATime
  <2> QED BY <1>3, <2>3, <2>4, TransmitPc
<1>4. CASE Purge
  <2>1. core' = core /\ pc' = [pc EXCEPT ![Reader] = "arm_enter"] /\ pc[Reader] = "idle"
        /\ \A s \in Threads : ~Transmitting(s)
    BY <1>4 DEF Purge, Goto
  <2>2. core = NoThread
    BY <2>1 DEF OneAtATime, TypeOK
  <2>3. \A s \in Threads : ~Transmitting(s)'
    BY <2>1 DEF Transmitting, TypeOK, TxPc
  <2> QED BY <2>1, <2>2, <2>3 DEF OneAtATime
<1>5. CASE Arm
  <2>1. core = NoThread /\ \A s \in Threads : ~Transmitting(s)
    BY <1>5, ArmPcs DEF OneAtATime
  <2>2. \A s \in Threads : ~Transmitting(s)'
    BY <1>5, <2>1, ArmPcs DEF Transmitting, TxPc, ArmPc
  <2> QED BY <1>5, <2>1, <2>2, ArmPcs DEF OneAtATime
<1> QED BY <1>1, <1>2, <1>3, <1>4, <1>5 DEF Next

\* For the thread that transmits, HandleInUse says where it is.
LEMMA Holder ==
  ASSUME TypeOK, OneAtATime, HandleInUse, NEW t \in Threads, Transmitting(t)
  PROVE  /\ uart.gState = "BUSY_TX" => pc[t] \in {"tx_send", "tx_stop", "tx_reset"}
         /\ uart.Lock => pc[t] = "tx_setup"
<1>1. ~Arming /\ \A s \in Threads : s # t => ~Transmitting(s)
  BY Alone
<1>2. \A s \in Threads : pc[s] \in TxPc => s = t
  BY <1>1 DEF Transmitting
<1>3. pc[Reader] # "arm_set"
  BY <1>1 DEF Arming, ArmPc
<1> QED BY <1>2, <1>3 DEF HandleInUse, TxPc

\* The interrupt changes the handle as IrqHandle says, and no thread.
LEMMA IrqHandleStep ==
  ASSUME TypeOK, NEW late \in BOOLEAN, HAL_UART_IRQHandler(late)
  PROVE  /\ uart' = IrqHandle(late) /\ uart \in Uart
         /\ DataInterrupt(uart) \/ ErrorInterrupt(uart)
         /\ UNCHANGED <<core, pc, len, written>>
BY DEF HAL_UART_IRQHandler, IrqHandle, TypeOK

\* Every step keeps HandleInUse.
LEMMA HandleInUseKept ==
  ASSUME TypeOK, OneAtATime, HandleInUse, [Next]_vars
  PROVE  HandleInUse'
<1> USE UartAssumption
<1>1. CASE UNCHANGED pc /\ uart'.Lock = uart.Lock /\ uart'.gState = uart.gState
  BY <1>1 DEF HandleInUse
<1>2. CASE ByteArrives \/ Irq \/ ReadQueue \/ UNCHANGED vars
  <2>1. CASE ByteArrives
    BY <2>1, <1>1 DEF ByteArrives, TypeOK, Uart
  <2>2. CASE Irq
    BY <2>2, <1>1, IrqHandleStep, IrqFacts DEF Irq, SameElsewhere
  <2> QED BY <1>1, <1>2, <2>1, <2>2 DEF ReadQueue, vars
<1>3. ASSUME NEW t \in Threads, LockCore(t) PROVE HandleInUse'
  BY <1>3 DEF LockCore, Goto, HandleInUse, TypeOK
<1>4. ASSUME NEW t \in Threads, Transmit(t) PROVE HandleInUse'
  <2>1. /\ Transmitting(t)
        /\ uart.gState = "BUSY_TX" => pc[t] \in {"tx_send", "tx_stop", "tx_reset"}
        /\ uart.Lock => pc[t] = "tx_setup"
    BY <1>4, TransmitNeedsLock, Holder
  <2>2. SUFFICES /\ uart'.gState = "BUSY_TX" => pc'[t] \in {"tx_send", "tx_stop", "tx_reset"}
                 /\ uart'.Lock => pc'[t] = "tx_setup"
    BY DEF HandleInUse
  <2> USE <2>1 DEF TypeOK, Uart, Goto
  <2>3. CASE TxEnter(t)
    BY <2>3 DEF TxEnter
  <2>4. CASE TxLock(t)
    BY <2>4 DEF TxLock
  <2>5. CASE TxSetup(t)
    BY <2>5 DEF TxSetup
  <2>6. CASE TxByte(t)
    BY <2>6 DEF TxByte
  <2>7. CASE TxComplete(t)
    BY <2>7 DEF TxComplete
  <2>8. CASE TxStop(t)
    BY <2>8 DEF TxStop
  <2>9. CASE TxReset(t)
    BY <2>9 DEF TxReset
  <2>10. CASE TxReturn(t)
    BY <2>10 DEF TxReturn
  <2> QED BY <1>4, <2>3, <2>4, <2>5, <2>6, <2>7, <2>8, <2>9, <2>10 DEF Transmit
<1>5. CASE Purge
  <2>1. pc' = [pc EXCEPT ![Reader] = "arm_enter"] /\ pc[Reader] = "idle" /\ UNCHANGED uart
    BY <1>5 DEF Purge, Goto
  <2> QED BY <2>1 DEF HandleInUse, TypeOK
<1>6. CASE Arm
  <2> USE DEF HandleInUse, TypeOK, Uart, Goto
  <2>1. CASE ArmEnter
    BY <2>1 DEF ArmEnter
  <2>2. CASE ArmLock
    BY <2>2 DEF ArmLock
  <2>3. CASE ArmSet
    BY <2>3 DEF ArmSet
  <2>4. CASE ArmError
    BY <2>4 DEF ArmError
  <2>5. CASE ArmRxne
    BY <2>5 DEF ArmRxne
  <2> QED BY <1>6, <2>1, <2>2, <2>3, <2>4, <2>5 DEF Arm
<1> QED BY <1>2, <1>3, <1>4, <1>5, <1>6 DEF Next

\* Every step keeps EnabledForAReason.
LEMMA EnabledForAReasonKept ==
  ASSUME TypeOK, OneAtATime, HandleInUse, EnabledForAReason, [Next]_vars
  PROVE  EnabledForAReason'
<1> USE UartAssumption
<1>1. CASE /\ UNCHANGED pc /\ uart'.RxState = uart.RxState
           /\ uart'.RXNEIE = uart.RXNEIE /\ uart'.EIE = uart.EIE
           /\ uart.ORE => uart'.ORE
  BY <1>1 DEF EnabledForAReason
<1>2. CASE ByteArrives \/ ReadQueue \/ UNCHANGED vars
  <2>1. CASE ByteArrives
    BY <2>1, <1>1 DEF ByteArrives, TypeOK, Uart
  <2> QED BY <1>1, <1>2, <2>1 DEF ReadQueue, vars
<1>3. ASSUME NEW late \in BOOLEAN, HAL_UART_IRQHandler(late) PROVE EnabledForAReason'
  <2>1. /\ uart' = IrqHandle(late) /\ uart \in Uart /\ UNCHANGED pc
        /\ DataInterrupt(uart) \/ ErrorInterrupt(uart)
    BY <1>3, IrqHandleStep
  <2>2. CASE Completes(uart)
    <3>1. uart.Lock => Stopped(uart')
      BY <2>1, <2>2, IrqCompletes
    <3>2. ~uart.Lock => Receives(uart')
      BY <2>1, <2>2, IrqCompletes
    <3>3. uart.RXNEIE
      BY <2>2 DEF Completes, DataInterrupt
    <3>4. uart.Lock => pc[Reader] \notin {"arm_err", "arm_rxne"}
      <4> SUFFICES ASSUME uart.Lock, Arming PROVE pc[Reader] = "arm_set"
        BY DEF Arming, ArmPc
      <4>1. \A t \in Threads : ~Transmitting(t)
        BY DEF OneAtATime, TypeOK
      <4> QED BY <4>1 DEF HandleInUse, Transmitting, TxPc
    <3>5. \A t \in Threads : pc[t] # "tx_reset"
      BY <3>3 DEF EnabledForAReason
    <3> QED BY <2>1, <3>1, <3>2, <3>4, <3>5 DEF EnabledForAReason, Stopped, Receives
  <2>3. CASE ~Completes(uart) /\ uart.ORE
    <3>1. Stopped(uart') /\ uart'.ORE = TRUE
      BY <2>1, <2>3, IrqAborts
    <3> QED BY <2>1, <3>1 DEF EnabledForAReason, Stopped
  <2>4. CASE ~Completes(uart) /\ ~uart.ORE
    <3>1. uart' = uart
      BY <2>1, <2>4, IrqNothing
    <3> QED BY <2>1, <3>1, <1>1
  <2> QED BY <2>2, <2>3, <2>4
<1>4. ASSUME NEW t \in Threads, LockCore(t) PROVE EnabledForAReason'
  BY <1>4 DEF LockCore, Goto, EnabledForAReason, TypeOK
<1>5. ASSUME NEW t \in Threads, Transmit(t) PROVE EnabledForAReason'
  <2>1. ~Arming
    BY <1>5, TransmitNeedsLock, Alone
  <2>2. pc'[Reader] \notin {"arm_err", "arm_rxne"}
    BY <1>5, <2>1, TransmitPc DEF Arming, ArmPc, TxPc
  <2> USE <2>1, <2>2 DEF TypeOK, Uart, Goto, EnabledForAReason
  <2>3. CASE TxEnter(t)
    BY <2>3 DEF TxEnter
  <2>4. CASE TxLock(t)
    BY <2>4 DEF TxLock
  <2>5. CASE TxSetup(t)
    BY <2>5 DEF TxSetup
  <2>6. CASE TxByte(t)
    BY <2>6 DEF TxByte
  <2>7. CASE TxComplete(t)
    BY ZenonT(60), <2>7 DEF TxComplete
  <2>8. CASE TxStop(t)
    BY <2>8 DEF TxStop
  <2>9. CASE TxReset(t)
    BY <2>9 DEF TxReset
  <2>10. CASE TxReturn(t)
    BY <2>10 DEF TxReturn
  <2> QED BY <1>5, <2>3, <2>4, <2>5, <2>6, <2>7, <2>8, <2>9, <2>10 DEF Transmit
<1>6. CASE Purge
  BY <1>6 DEF Purge, Goto, EnabledForAReason, TypeOK
<1>7. CASE Arm
  <2>1. \A t \in Threads : pc'[t] # "tx_reset"
    <3>1. \A t \in Threads : ~Transmitting(t)
      BY <1>7, ArmPcs DEF OneAtATime, TypeOK
    <3> QED BY <1>7, <3>1, ArmPcs DEF Transmitting, TxPc, ArmPc
  <2> USE <2>1 DEF TypeOK, Uart, Goto, EnabledForAReason
  <2>2. CASE ArmEnter
    BY <2>2 DEF ArmEnter
  <2>3. CASE ArmLock
    BY <2>3 DEF ArmLock
  <2>4. CASE ArmSet
    BY <2>4 DEF ArmSet
  <2>5. CASE ArmError
    BY <2>5 DEF ArmError
  <2>6. CASE ArmRxne
    BY <2>6 DEF ArmRxne
  <2> QED BY <1>7, <2>2, <2>3, <2>4, <2>5, <2>6 DEF Arm
<1> QED BY <1>2, <1>3, <1>4, <1>5, <1>6, <1>7 DEF Next, Irq

\* The counts of the threads that do not transmit are zero, and only the one that does
\* changes its own.
LEMMA CountsAddKept ==
  ASSUME TypeOK, OneAtATime, HandleInUse, CountsAdd, [Next]_vars
  PROVE  CountsAdd'
<1> USE UartAssumption
<1>1. CASE UNCHANGED <<pc, len, written>> /\ uart'.TxXferCount = uart.TxXferCount
  BY <1>1 DEF CountsAdd, Transmitting
<1>2. CASE ByteArrives \/ Irq \/ ReadQueue \/ UNCHANGED vars
  <2>1. CASE ByteArrives
    BY <2>1, <1>1 DEF ByteArrives, TypeOK, Uart
  <2>2. CASE Irq
    BY <2>2, <1>1, IrqHandleStep, IrqFacts DEF Irq, SameElsewhere
  <2> QED BY <1>1, <1>2, <2>1, <2>2 DEF ReadQueue, vars
<1>3. ASSUME NEW t \in Threads, LockCore(t) PROVE CountsAdd'
  <2>1. /\ pc[t] = "idle" /\ pc' = [pc EXCEPT ![t] = "tx_enter"]
        /\ UNCHANGED <<uart, written>> /\ \A s \in Threads : s # t => len'[s] = len[s]
    BY <1>3 DEF LockCore, Goto, TypeOK
  <2> QED BY <2>1 DEF CountsAdd, Transmitting, TypeOK, TxPc
<1>4. ASSUME NEW t \in Threads, Transmit(t) PROVE CountsAdd'
  <2>1. /\ Transmitting(t) /\ \A s \in Threads : s # t => ~Transmitting(s)
        /\ uart.gState = "BUSY_TX" => pc[t] \in {"tx_send", "tx_stop", "tx_reset"}
        /\ uart.Lock => pc[t] = "tx_setup"
    BY <1>4, TransmitNeedsLock, Alone, Holder
  <2>2. \A s \in Threads : s # t =>
          ~Transmitting(s) /\ pc'[s] = pc[s] /\ len'[s] = len[s] /\ written'[s] = written[s]
    <3>1. \A s \in Threads : s # t => pc'[s] = pc[s]
      BY <1>4, TransmitPc
    <3>2. \A s \in Threads : s # t => len'[s] = len[s] /\ written'[s] = written[s]
      BY <1>4 DEF Transmit, TxEnter, TxLock, TxSetup, TxByte, TxComplete, TxStop, TxReset,
                  TxReturn, TypeOK
    <3> QED BY <2>1, <3>1, <3>2
  <2>3. \A s \in Threads : s # t => written'[s] = 0 /\ ~Transmitting(s)'
    BY <2>2 DEF CountsAdd, Transmitting
  <2>4. SUFFICES
          /\ pc'[t] \in {"tx_enter", "tx_lock", "tx_setup", "idle"} => written'[t] = 0
          /\ pc'[t] = "tx_send" => written'[t] + uart'.TxXferCount = len'[t]
          /\ pc'[t] \in {"tx_stop", "tx_reset", "tx_return"}
               => written'[t] + uart'.TxXferCount + 1 >= len'[t]
    <3>1. pc'[t] \in TxPc \cup {"idle"}
      BY <1>4, TransmitPc
    <3> QED BY <2>3, <2>4, <3>1 DEF CountsAdd, Transmitting, TxPc
  <2>5. /\ written[t] \in Nat /\ len[t] \in Nat /\ uart.TxXferCount \in Nat
        /\ pc[t] \in {"tx_enter", "tx_lock", "tx_setup"} => written[t] = 0
        /\ pc[t] = "tx_send" => written[t] + uart.TxXferCount = len[t]
        /\ pc[t] \in {"tx_stop", "tx_reset", "tx_return"}
             => written[t] + uart.TxXferCount + 1 >= len[t]
    BY DEF CountsAdd, TypeOK, Uart
  <2>6. CASE TxEnter(t)
    <3>1. pc[t] = "tx_enter" /\ uart.gState = "READY" /\ ~uart.Lock
      BY <2>1, <2>6 DEF TxEnter, TypeOK, Uart
    <3> QED BY <2>5, <2>6, <3>1 DEF TxEnter, TypeOK, Goto
  <2>7. CASE TxLock(t)
    BY <2>5, <2>7 DEF TxLock, TypeOK, Goto
  <2>8. CASE TxSetup(t)
    <3>1. uart'.TxXferCount = len[t]
      BY <2>8 DEF TxSetup, TypeOK, Uart
    <3> QED BY <2>5, <2>8, <3>1 DEF TxSetup, TypeOK, Goto
  <2>9. CASE TxByte(t)
    <3>1. uart'.TxXferCount = uart.TxXferCount - 1 /\ uart.TxXferCount > 0 /\ pc[t] = "tx_send"
          /\ len' = len
      BY <2>9 DEF TxByte, TypeOK, Uart
    <3>2. \/ written'[t] = written[t] + 1 /\ pc'[t] = "tx_send"
          \/ written'[t] = written[t] /\ pc'[t] = "tx_stop"
      BY <2>9 DEF TxByte, TypeOK, Goto
    <3> QED BY <2>5, <3>1, <3>2
  <2>10. CASE TxComplete(t)
    <3>1. /\ uart'.TxXferCount = uart.TxXferCount /\ pc[t] = "tx_send"
          /\ pc'[t] \in {"tx_return", "tx_stop"} /\ len' = len /\ written' = written
      BY <2>10 DEF TxComplete, TypeOK, Uart, Goto
    <3> QED BY <2>5, <3>1
  <2>11. CASE TxStop(t)
    BY <2>5, <2>11 DEF TxStop, TypeOK, Goto, Uart
  <2>12. CASE TxReset(t)
    BY <2>5, <2>12 DEF TxReset, TypeOK, Goto, Uart
  <2>13. CASE TxReturn(t)
    BY <2>5, <2>13 DEF TxReturn, TypeOK, Goto
  <2> QED BY <1>4, <2>6, <2>7, <2>8, <2>9, <2>10, <2>11, <2>12, <2>13 DEF Transmit
<1>5. CASE Purge
  BY <1>5 DEF Purge, Goto, CountsAdd, Transmitting, TypeOK, TxPc
<1>6. CASE Arm
  <2>1. uart'.TxXferCount = uart.TxXferCount
    BY <1>6 DEF Arm, ArmEnter, ArmLock, ArmSet, ArmError, ArmRxne, TypeOK, Uart
  <2>2. \A s \in Threads : s # Reader => pc'[s] = pc[s]
    BY <1>6, ArmPcs
  <2>3. written' = written /\ len' = len /\ ~Transmitting(Reader) /\ ~Transmitting(Reader)'
        /\ pc'[Reader] \notin TxPc
    BY <1>6, ArmPcs DEF Arming, Transmitting, TxPc, ArmPc
  <2> QED BY <2>1, <2>2, <2>3 DEF CountsAdd, Transmitting, TxPc
<1> QED BY <1>2, <1>3, <1>4, <1>5, <1>6 DEF Next

\* The four facts of IInv hold throughout when nobody transmits during the arming.
THEOREM HandleInvariant == ASSUME QuietArm PROVE Spec => []IInv
<1>1. Init => IInv
  BY UartAssumption DEF Init, IInv, OneAtATime, HandleInUse, EnabledForAReason, CountsAdd,
     Transmitting, Arming, TxPc, ArmPc
<1>2. TypeOK /\ IInv /\ [Next]_vars => IInv'
  BY OneAtATimeKept, HandleInUseKept, EnabledForAReasonKept, CountsAddKept DEF IInv
<1> QED BY <1>1, <1>2, TypeCorrect, PTL DEF Spec

\* Every buffer finds the UART ready: the core lock makes HAL_BUSY impossible.
THEOREM AlwaysAlone == ASSUME QuietArm PROVE Spec => []TransmitterAlone
<1>1. TypeOK /\ IInv => TransmitterAlone
  <2> SUFFICES ASSUME TypeOK, IInv, NEW t \in Threads, pc[t] = "tx_enter"
               PROVE  uart.gState = "READY" /\ ~uart.Lock
    BY DEF TransmitterAlone
  <2>1. Transmitting(t)
    BY DEF Transmitting, TxPc
  <2> QED BY <2>1, Holder DEF IInv, TypeOK, Uart
<1> QED BY <1>1, TypeCorrect, HandleInvariant, PTL

\* A data interrupt that nobody would answer is never due.
THEOREM NeverStorms == ASSUME QuietArm PROVE Spec => []NoInterruptStorm
<1>1. TypeOK /\ IInv => NoInterruptStorm
  BY DEF IInv, EnabledForAReason, NoInterruptStorm, DataInterrupt, TypeOK, Uart
<1> QED BY <1>1, TypeCorrect, HandleInvariant, PTL

\* What is reported as sent lacks at most its last byte.
THEOREM ReportsHonestly == ASSUME QuietArm PROVE Spec => []ReportedAsSent
<1>1. TypeOK /\ IInv => ReportedAsSent
  BY DEF IInv, CountsAdd, ReportedAsSent, ReportsAll, TypeOK, Uart
<1> QED BY <1>1, TypeCorrect, HandleInvariant, PTL

\* Reception that was going on stops for one of three reasons.
THEOREM StopsForAReason == ASSUME QuietArm PROVE Spec => ReceptionStops
<1> DEFINE Reason == \/ uart.Lock
                     \/ uart.ORE /\ ~uart.RXNE
                     \/ \E t \in Threads : pc[t] = "tx_stop"
<1>1. TypeOK /\ IInv /\ [Next]_vars => [Listening(uart) /\ ~Listening(uart') => Reason]_vars
  <2> SUFFICES ASSUME TypeOK, IInv, Next, Listening(uart), ~Listening(uart'), ~Reason
               PROVE  FALSE
    OBVIOUS
  <2>1. ~(uart'.RxState = uart.RxState /\ (uart.RXNEIE => uart'.RXNEIE))
    BY DEF Listening
  <2>2. CASE ByteArrives \/ ReadQueue \/ Purge
    BY <2>1, <2>2 DEF ByteArrives, ReadQueue, Purge, TypeOK, Uart
  <2>3. CASE Irq
    <3> PICK late \in BOOLEAN : HAL_UART_IRQHandler(late)
      BY <2>3 DEF Irq
    <3>1. uart' = IrqHandle(late) /\ uart \in Uart
          /\ (DataInterrupt(uart) \/ ErrorInterrupt(uart))
      BY IrqHandleStep
    <3>2. CASE Completes(uart)
      <4>1. Receives(uart')
        BY <3>1, <3>2, IrqCompletes
      <4> QED BY <4>1 DEF Receives, Listening
    <3>3. CASE ~Completes(uart) /\ uart.ORE
      BY <3>3 DEF Completes, DataInterrupt, Listening
    <3>4. CASE ~Completes(uart) /\ ~uart.ORE
      <4>1. uart' = uart
        BY <3>1, <3>4, IrqNothing
      <4> QED BY <4>1
    <3> QED BY <3>2, <3>3, <3>4
  <2>4. ASSUME NEW t \in Threads, LockCore(t) \/ Transmit(t) PROVE FALSE
    <3> USE DEF TypeOK, Uart
    <3>1. CASE LockCore(t)
      BY <2>1, <3>1 DEF LockCore
    <3>2. CASE TxEnter(t)
      BY <2>1, <3>2 DEF TxEnter
    <3>3. CASE TxLock(t)
      BY <2>1, <3>3 DEF TxLock
    <3>4. CASE TxSetup(t)
      BY <2>1, <3>4 DEF TxSetup
    <3>5. CASE TxByte(t)
      BY <2>1, <3>5 DEF TxByte
    <3>6. CASE TxComplete(t)
      BY <2>1, <3>6 DEF TxComplete
    <3>7. CASE TxStop(t)
      BY <3>7 DEF TxStop
    <3>8. CASE TxReset(t)
      BY <3>8 DEF TxReset, IInv, EnabledForAReason, Listening
    <3>9. CASE TxReturn(t)
      BY <2>1, <3>9 DEF TxReturn
    <3> QED BY <2>4, <3>1, <3>2, <3>3, <3>4, <3>5, <3>6, <3>7, <3>8, <3>9 DEF Transmit
  <2>5. CASE Arm
    <3> USE DEF TypeOK, Uart
    <3>1. CASE ArmSet
      BY <2>1, <3>1 DEF ArmSet, Listening
    <3>2. CASE ArmEnter \/ ArmLock \/ ArmError \/ ArmRxne
      BY <2>1, <3>2 DEF ArmEnter, ArmLock, ArmError, ArmRxne
    <3> QED BY <2>5, <3>1, <3>2 DEF Arm
  <2> QED BY <2>2, <2>3, <2>4, <2>5 DEF Next
<1> QED BY <1>1, TypeCorrect, HandleInvariant, PTL DEF Spec, ReceptionStops

-----------------------------------------------------------------------------
(* The line implements the lossy channel. *)

\* The oldest byte of a queue in order is the one that the channel delivers.
LEMMA HeadDelivers ==
  ASSUME TypeOK, InOrder, ReadQueue
  PROVE  Channel!Deliver
<1>1. rxq \in Seq(Nat) /\ rxq # <<>> /\ last' = rxq[1] /\ rxq' = Tail(rxq)
      /\ UNCHANGED <<uart, sent>>
  BY DEF ReadQueue, TypeOK
<1>2. /\ Len(rxq) \in Nat \ {0} /\ Len(rxq') = Len(rxq) - 1
      /\ DOMAIN rxq = 1..Len(rxq) /\ DOMAIN rxq' = 1..Len(rxq')
      /\ \A i \in 1..Len(rxq') : rxq'[i] = rxq[i + 1] /\ i + 1 \in 1..Len(rxq)
      /\ \A i \in 1..Len(rxq) : rxq[i] \in Nat
  BY <1>1
<1>3. rxq[1] \in Transit
  BY <1>2 DEF Transit
<1>4. \A i \in 1..Len(rxq) : i # 1 => rxq[1] < rxq[i]
  BY <1>2 DEF InOrder
<1>5. uart.RXNE => uart.DR \in Nat /\ rxq[1] < uart.DR
  BY <1>2 DEF InOrder, TypeOK, Uart
<1>6. \A c \in Transit : rxq[1] <= c
  BY <1>2, <1>4, <1>5 DEF Transit
<1>7. Transit' = Transit \ {rxq[1]}
  <2>1. {rxq'[i] : i \in DOMAIN rxq'} = {rxq[i] : i \in 2..Len(rxq)}
    <3>1. \A i \in 2..Len(rxq) : i - 1 \in 1..Len(rxq') /\ rxq'[i - 1] = rxq[i]
      BY <1>2
    <3>2. \A i \in 1..Len(rxq') : i + 1 \in 2..Len(rxq) /\ rxq'[i] = rxq[i + 1]
      BY <1>2
    <3>3. \A i \in 2..Len(rxq) : \E j \in DOMAIN rxq' : rxq[i] = rxq'[j]
      BY <1>2, <3>1
    <3>4. \A i \in DOMAIN rxq' : \E j \in 2..Len(rxq) : rxq'[i] = rxq[j]
      BY <1>2, <3>2
    <3>5. {rxq'[i] : i \in DOMAIN rxq'} \subseteq {rxq[i] : i \in 2..Len(rxq)}
      BY <3>4
    <3>6. {rxq[i] : i \in 2..Len(rxq)} \subseteq {rxq'[i] : i \in DOMAIN rxq'}
      BY <3>3
    <3> QED BY <3>5, <3>6
  <2>2. {rxq[i] : i \in 2..Len(rxq)} = {rxq[i] : i \in DOMAIN rxq} \ {rxq[1]}
    <3>1. \A i \in 2..Len(rxq) : i \in DOMAIN rxq /\ rxq[i] # rxq[1]
      BY <1>2, <1>4
    <3>2. \A i \in DOMAIN rxq : rxq[i] # rxq[1] => i \in 2..Len(rxq)
      BY <1>2
    <3>3. {rxq[i] : i \in 2..Len(rxq)} \subseteq {rxq[i] : i \in DOMAIN rxq} \ {rxq[1]}
      BY <3>1
    <3>4. {rxq[i] : i \in DOMAIN rxq} \ {rxq[1]} \subseteq {rxq[i] : i \in 2..Len(rxq)}
      BY <3>2
    <3> QED BY <3>3, <3>4
  <2>3. uart.RXNE => uart.DR # rxq[1]
    BY <1>2, <1>5
  <2> QED BY <1>1, <2>1, <2>2, <2>3 DEF Transit
<1> QED BY <1>1, <1>3, <1>6, <1>7 DEF Channel!Deliver

\* Every step of the line sends, loses or delivers, or is no step of the channel.
THEOREM LineImplementsChannel == Spec => ImplementsChannel
<1>1. Init => Channel!Init
  BY DEF Init, Channel!Init, Transit
<1>2. TypeOK /\ InOrder /\ [Next]_vars => [Channel!Next]_(Channel!vars)
  <2> SUFFICES ASSUME TypeOK, InOrder, [Next]_vars PROVE Channel!Next \/ UNCHANGED Channel!vars
    OBVIOUS
  <2>1. CASE ByteArrives
    <3>1. Transit' \in SUBSET (Transit \cup {sent + 1}) /\ sent' = sent + 1 /\ last' = last
      <4>1. rxq' = rxq /\ sent' = sent + 1 /\ last' = last
        BY <2>1 DEF ByteArrives
      <4>2. uart'.RXNE => uart'.DR = sent + 1 \/ (uart.RXNE /\ uart'.DR = uart.DR)
        BY <2>1 DEF ByteArrives, TypeOK, Uart
      <4> QED BY <4>1, <4>2 DEF Transit
    <3> QED BY <3>1 DEF Channel!Next, Channel!Send
  <2>2. CASE Irq
    <3>1. Transit' \in SUBSET Transit
      <4>1. CASE rxq' = rxq
        BY <2>2, <4>1, IrqBytes DEF Transit
      <4>2. CASE uart.RXNE /\ ~uart'.RXNE /\ rxq' = Append(rxq, uart.DR)
        <5>1. \A i \in DOMAIN rxq' : rxq'[i] = uart.DR \/ \E j \in DOMAIN rxq : rxq'[i] = rxq[j]
          BY <4>2 DEF TypeOK, Uart
        <5> QED BY <4>2, <5>1 DEF Transit
      <4> QED BY <2>2, <4>1, <4>2, IrqBytes
    <3>2. last' = last /\ sent' \in {sent, sent + 1}
      BY <2>2, IrqBytes
    <3> QED BY <3>1, <3>2 DEF Channel!Next, Channel!Send, Channel!Lose
  <2>3. ASSUME NEW t \in Threads, LockCore(t) \/ Transmit(t) PROVE UNCHANGED Channel!vars
    BY <2>3, TransmitKeepsBytes DEF Channel!vars, Transit
  <2>4. CASE Purge
    BY <2>4 DEF Purge, Channel!Next, Channel!Lose, Transit
  <2>5. CASE Arm
    BY <2>5, ArmKeepsBytes DEF Channel!vars, Transit
  <2>6. CASE ReadQueue
    BY <2>6, HeadDelivers DEF Channel!Next
  <2>7. CASE UNCHANGED vars
    BY <2>7 DEF vars, Channel!vars, Transit
  <2> QED BY <2>1, <2>2, <2>3, <2>4, <2>5, <2>6, <2>7 DEF Next
<1> QED BY <1>1, <1>2, TypeCorrect, OrderKept, PTL DEF Spec, ImplementsChannel, Channel!Spec
=============================================================================
