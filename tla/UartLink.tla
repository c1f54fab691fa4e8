------------------------------ MODULE UartLink ------------------------------
(***************************************************************************)
(* The serial line to the ESP32: the HAL's handle huart6, the USART6       *)
(* interrupt, the byte queue xQueue_pppos it fills, the threads that call  *)
(* HAL_UART_Transmit from lwIP's output callback, and PPPoS_Task, which    *)
(* arms reception and reads the queue.                                     *)
(*                                                                         *)
(* A thread may be preempted between any two statements that touch the     *)
(* handle; the interrupt runs to the end once it has started.  A byte is   *)
(* its position in what the ESP32 has sent: 1, 2, 3, ...                   *)
(***************************************************************************)
EXTENDS Naturals, Sequences

CONSTANTS
  Threads,    \* the threads that run lwIP code: tcpip_thread, PPPoS_Task and the socket users
  Reader,     \* PPPoS_Task
  NoThread,   \* nobody
  QueueLen,   \* DATA_SIZE, the length of xQueue_pppos (1024 in the code)
  MaxLen,     \* bound: the longest buffer handed to the output callback
  MaxByte,    \* bound: how many bytes the ESP32 sends
  QuietArm    \* TRUE: nobody transmits while PPPoS_Task arms reception (see LockCore)

ASSUME UartAssumption ==
  /\ Reader \in Threads
  /\ NoThread \notin Threads
  /\ QueueLen \in Nat \ {0}
  /\ MaxLen \in Nat \ {0}
  /\ MaxByte \in Nat
  /\ QuietArm \in BOOLEAN

VARIABLES
  uart,     \* the handle huart6 and the registers of USART6
  sent,     \* how many bytes the ESP32 has put on the wire
  rxq,      \* xQueue_pppos
  last,     \* the last byte PPPoS_Task has taken from it
  core,     \* the owner of lock_tcpip_core
  pc,       \* where each thread is
  len,      \* the length of the buffer each thread is transmitting
  written   \* how many bytes of it have gone to the data register

vars == <<uart, sent, rxq, last, core, pc, len, written>>

TxPc  == {"tx_enter", "tx_lock", "tx_setup", "tx_send", "tx_stop", "tx_reset", "tx_return"}
ArmPc == {"arm_enter", "arm_lock", "arm_set", "arm_err", "arm_rxne"}

Uart ==
  [Lock : BOOLEAN,                    \* HAL_LOCKED?
   gState : {"READY", "BUSY_TX"},
   RxState : {"READY", "BUSY_RX"},
   ErrorCode : {"NONE", "ORE"},
   TxXferCount : Nat,
   RXNEIE : BOOLEAN, EIE : BOOLEAN,   \* CR1.RXNEIE and CR3.EIE
   RXNE : BOOLEAN, ORE : BOOLEAN,     \* SR.RXNE and SR.ORE
   DR : Nat]                          \* the byte in the data register

TypeOK ==
  /\ uart \in Uart
  /\ sent \in Nat
  /\ rxq \in Seq(Nat) /\ Len(rxq) <= QueueLen
  /\ last \in Nat
  /\ core \in Threads \cup {NoThread}
  /\ pc \in [Threads -> {"idle"} \cup TxPc \cup ArmPc]
  /\ len \in [Threads -> Nat]
  /\ written \in [Threads -> Nat]

Init ==
  /\ uart = [Lock |-> FALSE, gState |-> "READY", RxState |-> "READY", ErrorCode |-> "NONE",
             TxXferCount |-> 0, RXNEIE |-> FALSE, EIE |-> FALSE,
             RXNE |-> FALSE, ORE |-> FALSE, DR |-> 0]
  /\ sent = 0 /\ rxq = <<>> /\ last = 0
  /\ core = NoThread
  /\ pc = [t \in Threads |-> "idle"]
  /\ len = [t \in Threads |-> 0]
  /\ written = [t \in Threads |-> 0]

-----------------------------------------------------------------------------
(* The hardware.  A byte that arrives while RXNE is set is lost and sets    *)
(* ORE; the data register keeps the earlier byte.  The receiver runs from   *)
(* HAL_UART_Init on, whether or not anybody has armed reception.            *)

ByteArrives ==
  /\ sent < MaxByte
  /\ sent' = sent + 1
  /\ uart' = IF uart.RXNE
               THEN [uart EXCEPT !.ORE = TRUE]
               ELSE [uart EXCEPT !.RXNE = TRUE, !.DR = sent + 1]
  /\ UNCHANGED <<rxq, last, core, pc, len, written>>

-----------------------------------------------------------------------------
(* The interrupt: HAL_UART_IRQHandler, UART_Receive_IT and the application's *)
(* HAL_UART_RxCpltCallback, as functions of the handle.                      *)

\* Mutant: ErrorCode is not cleared.
Rearm_KeepsError(u) ==
  IF u.RxState = "READY" /\ ~u.Lock
    THEN [u EXCEPT !.RxState = "BUSY_RX", !.EIE = TRUE, !.RXNEIE = TRUE]
    ELSE u

\* HAL_UART_Receive_IT called by the callback; HAL_BUSY leaves the handle alone.
Rearm(u) ==
  IF u.RxState = "READY" /\ ~u.Lock
    THEN [u EXCEPT !.ErrorCode = "NONE", !.RxState = "BUSY_RX", !.EIE = TRUE, !.RXNEIE = TRUE]
    ELSE u

\* Mutant: the data register still counts as full after it has been read.
ReadByte_Again(u, late) ==
  IF u.RxState = "BUSY_RX"
    THEN Rearm([u EXCEPT !.ORE = late, !.RXNEIE = FALSE, !.EIE = FALSE, !.RxState = "READY"])
    ELSE u

\* UART_Receive_IT for a transfer of one byte: reading SR and then DR clears
\* RXNE and ORE.  "late" is a byte that arrives between the two reads: it is
\* lost, and leaves ORE set with nothing to read.
ReadByte(u, late) ==
  IF u.RxState = "BUSY_RX"
    THEN Rearm([u EXCEPT !.RXNE = FALSE, !.ORE = late,
                         !.RXNEIE = FALSE, !.EIE = FALSE, !.RxState = "READY"])
    ELSE u

UART_EndRxTransfer(u) ==
  [u EXCEPT !.RXNEIE = FALSE, !.EIE = FALSE, !.RxState = "READY"]

\* The handler takes either enable bit for an overrun.  (The chip raises one for
\* EIE alone only with DMA; nothing below depends on that.)
DataInterrupt(u)  == u.RXNE /\ u.RXNEIE
ErrorInterrupt(u) == u.ORE /\ (u.RXNEIE \/ u.EIE)

\* An interrupt that finds ORE: the byte in DR is read first, and its callback
\* may arm the next transfer, which clears ErrorCode.
Overrun(u, late) ==
  LET e == [u EXCEPT !.ErrorCode = "ORE"]
  IN  IF DataInterrupt(u) THEN ReadByte(e, late) ELSE e

\* Only an ErrorCode that still says ORE aborts the transfer.  Then the weak,
\* empty HAL_UART_ErrorCallback is called.
AfterOverrun(u, late) ==
  LET o == Overrun(u, late)
  IN  IF o.ErrorCode = "ORE" THEN UART_EndRxTransfer(o) ELSE o

\* The callback runs, and queues the byte, when a transfer of one byte ends.
Completes(u) == DataInterrupt(u) /\ u.RxState = "BUSY_RX"

\* Mutant: the queue is not checked for room.
Enqueue_Unbounded(b) == rxq' = Append(rxq, b)

\* xQueueSendFromISR: a byte that finds the queue full is lost, and nobody looks.
Enqueue(b) == rxq' = IF Len(rxq) < QueueLen THEN Append(rxq, b) ELSE rxq

HAL_UART_IRQHandler(late) ==
  /\ DataInterrupt(uart) \/ ErrorInterrupt(uart)
  /\ late => Completes(uart) /\ sent < MaxByte
  /\ sent' = IF late THEN sent + 1 ELSE sent
  /\ IF Completes(uart) THEN Enqueue(uart.DR) ELSE UNCHANGED rxq
  /\ uart' = IF uart.ORE THEN AfterOverrun(uart, late) ELSE ReadByte(uart, late)
  /\ UNCHANGED <<last, core, pc, len, written>>

-----------------------------------------------------------------------------
(* A thread in lwIP: it takes the core lock, and the output callback passes *)
(* a buffer to HAL_UART_Transmit, which is called with a timeout of 50 ms.  *)

Transmitting(t) == pc[t] \in TxPc
Arming          == pc[Reader] \in ArmPc

Goto(t, there) == pc' = [pc EXCEPT ![t] = there]

\* Mutant: lwIP without its core lock.
LockCore_Free(t) ==
  /\ pc[t] = "idle"
  /\ QuietArm => ~Arming
  /\ core' = t
  /\ \E n \in 1..MaxLen : len' = [len EXCEPT ![t] = n]
  /\ Goto(t, "tx_enter")
  /\ UNCHANGED <<uart, sent, rxq, last, written>>

\* LOCK_TCPIP_CORE, then the output callback with len bytes (it ignores an empty
\* buffer).  QuietArm says that this does not happen while PPPoS_Task arms
\* reception: PPP has then sent its first LCP request, nothing it could answer
\* has been received, and its retransmission timer is 6 s away.
LockCore(t) ==
  /\ pc[t] = "idle" /\ core = NoThread
  /\ QuietArm => ~Arming
  /\ core' = t
  /\ \E n \in 1..MaxLen : len' = [len EXCEPT ![t] = n]
  /\ Goto(t, "tx_enter")
  /\ UNCHANGED <<uart, sent, rxq, last, written>>

\* gState and Lock are tested; either one makes the call return HAL_BUSY.
TxEnter(t) ==
  /\ pc[t] = "tx_enter"
  /\ Goto(t, IF uart.gState = "READY" /\ ~uart.Lock THEN "tx_lock" ELSE "tx_return")
  /\ UNCHANGED <<uart, sent, rxq, last, core, len, written>>

TxLock(t) ==
  /\ pc[t] = "tx_lock"
  /\ uart' = [uart EXCEPT !.Lock = TRUE]
  /\ Goto(t, "tx_setup")
  /\ UNCHANGED <<sent, rxq, last, core, len, written>>

TxSetup(t) ==
  /\ pc[t] = "tx_setup"
  /\ uart' = [uart EXCEPT !.ErrorCode = "NONE", !.gState = "BUSY_TX",
                          !.TxXferCount = len[t], !.Lock = FALSE]
  /\ Goto(t, "tx_send")
  /\ UNCHANGED <<sent, rxq, last, core, len, written>>

\* One turn of the loop: the count goes down before the wait for TXE, and the
\* wait can time out.
TxByte(t) ==
  /\ pc[t] = "tx_send" /\ uart.TxXferCount > 0
  /\ uart' = [uart EXCEPT !.TxXferCount = @ - 1]
  /\ \/ /\ written' = [written EXCEPT ![t] = @ + 1]
        /\ UNCHANGED pc
     \/ /\ Goto(t, "tx_stop")
        /\ UNCHANGED written
  /\ UNCHANGED <<sent, rxq, last, core, len>>

\* The wait for TC after the last byte; it can time out too.
TxComplete(t) ==
  /\ pc[t] = "tx_send" /\ uart.TxXferCount = 0
  /\ \/ /\ uart' = [uart EXCEPT !.gState = "READY"]
        /\ Goto(t, "tx_return")
     \/ /\ Goto(t, "tx_stop")
        /\ UNCHANGED uart
  /\ UNCHANGED <<sent, rxq, last, core, len, written>>

\* Mutant: the states are reset before the interrupts are disabled.
TxStop_StateFirst(t) ==
  /\ pc[t] = "tx_stop"
  /\ uart' = [uart EXCEPT !.gState = "READY", !.RxState = "READY"]
  /\ Goto(t, "tx_reset")
  /\ UNCHANGED <<sent, rxq, last, core, len, written>>

\* UART_WaitOnFlagUntilTimeout gives up: it disables the receive interrupts and
\* makes both states READY, although nothing is wrong with reception.
TxStop(t) ==
  /\ pc[t] = "tx_stop"
  /\ uart' = [uart EXCEPT !.RXNEIE = FALSE]
  /\ Goto(t, "tx_reset")
  /\ UNCHANGED <<sent, rxq, last, core, len, written>>

\* Mutant: the timeout path does not unlock the handle, and leaves it busy.
TxReset_KeepsBusy(t) ==
  /\ pc[t] = "tx_reset"
  /\ uart' = [uart EXCEPT !.EIE = FALSE, !.RxState = "READY"]
  /\ Goto(t, "tx_return")
  /\ UNCHANGED <<sent, rxq, last, core, len, written>>

TxReset(t) ==
  /\ pc[t] = "tx_reset"
  /\ uart' = [uart EXCEPT !.EIE = FALSE, !.gState = "READY", !.RxState = "READY", !.Lock = FALSE]
  /\ Goto(t, "tx_return")
  /\ UNCHANGED <<sent, rxq, last, core, len, written>>

\* Mutant: one byte left over counts as none.
ReportsAll_OffByOne == uart.TxXferCount <= 1

\* What the output callback tells PPP is len - huart6.TxXferCount, whatever
\* HAL_UART_Transmit returned; PPP takes the frame as sent when that equals len.
ReportsAll == uart.TxXferCount = 0

\* Mutant: an early return on an error keeps the core lock.
TxReturn_KeepsLock(t) ==
  /\ pc[t] = "tx_return"
  /\ core' = IF ReportsAll THEN NoThread ELSE core
  /\ len' = [len EXCEPT ![t] = 0]
  /\ written' = [written EXCEPT ![t] = 0]
  /\ Goto(t, "idle")
  /\ UNCHANGED <<uart, sent, rxq, last>>

TxReturn(t) ==
  /\ pc[t] = "tx_return"
  /\ core' = NoThread
  /\ len' = [len EXCEPT ![t] = 0]
  /\ written' = [written EXCEPT ![t] = 0]
  /\ Goto(t, "idle")
  /\ UNCHANGED <<uart, sent, rxq, last>>

-----------------------------------------------------------------------------
(* PPPoS_Task: at the start of a session it purges the queue and calls      *)
(* HAL_UART_Receive_IT; pppos_read takes the bytes one at a time.           *)

Purge ==
  /\ pc[Reader] = "idle"
  /\ QuietArm => \A t \in Threads : ~Transmitting(t)
  /\ rxq' = <<>>
  /\ Goto(Reader, "arm_enter")
  /\ UNCHANGED <<uart, sent, last, core, len, written>>

\* HAL_BUSY, when reception is still armed or the handle is locked, is ignored.
ArmEnter ==
  /\ pc[Reader] = "arm_enter"
  /\ Goto(Reader, IF uart.RxState = "READY" /\ ~uart.Lock THEN "arm_lock" ELSE "idle")
  /\ UNCHANGED <<uart, sent, rxq, last, core, len, written>>

ArmLock ==
  /\ pc[Reader] = "arm_lock"
  /\ uart' = [uart EXCEPT !.Lock = TRUE]
  /\ Goto(Reader, "arm_set")
  /\ UNCHANGED <<sent, rxq, last, core, len, written>>

ArmSet ==
  /\ pc[Reader] = "arm_set"
  /\ uart' = [uart EXCEPT !.ErrorCode = "NONE", !.RxState = "BUSY_RX", !.Lock = FALSE]
  /\ Goto(Reader, "arm_err")
  /\ UNCHANGED <<sent, rxq, last, core, len, written>>

\* The interrupts are enabled one by one: the error interrupt comes first, and an
\* overrun left over from before can be served before RXNEIE is set.
ArmError ==
  /\ pc[Reader] = "arm_err"
  /\ uart' = [uart EXCEPT !.EIE = TRUE]
  /\ Goto(Reader, "arm_rxne")
  /\ UNCHANGED <<sent, rxq, last, core, len, written>>

ArmRxne ==
  /\ pc[Reader] = "arm_rxne"
  /\ uart' = [uart EXCEPT !.RXNEIE = TRUE]
  /\ Goto(Reader, "idle")
  /\ UNCHANGED <<sent, rxq, last, core, len, written>>

\* Mutant: the byte is looked at but not removed.
ReadQueue_Peek ==
  /\ pc[Reader] = "idle" /\ rxq # <<>>
  /\ last' = Head(rxq)
  /\ UNCHANGED <<uart, sent, rxq, core, pc, len, written>>

ReadQueue ==
  /\ pc[Reader] = "idle" /\ rxq # <<>>
  /\ last' = Head(rxq) /\ rxq' = Tail(rxq)
  /\ UNCHANGED <<uart, sent, core, pc, len, written>>

-----------------------------------------------------------------------------
Transmit(t) ==
  \/ TxEnter(t) \/ TxLock(t) \/ TxSetup(t) \/ TxByte(t) \/ TxComplete(t)
  \/ TxStop(t) \/ TxReset(t) \/ TxReturn(t)

Arm == ArmEnter \/ ArmLock \/ ArmSet \/ ArmError \/ ArmRxne

Irq == \E late \in BOOLEAN : HAL_UART_IRQHandler(late)

Next ==
  \/ ByteArrives
  \/ Irq
  \/ \E t \in Threads : LockCore(t) \/ Transmit(t)
  \/ Purge \/ Arm \/ ReadQueue

Spec == Init /\ [][Next]_vars

\* A thread that holds the core lock keeps running: each wait of HAL_UART_Transmit
\* ends at the latest when its timeout has passed, and the scheduler shares the
\* processor between the threads, which all have the same priority.
FairSpec == Spec /\ \A t \in Threads : WF_vars(Transmit(t))

-----------------------------------------------------------------------------
(* Properties. *)

\* The bytes of the data register, the queue and the reader are in the order in
\* which the ESP32 sent them and none is there twice: overruns, a full queue and
\* a purge lose bytes, but nothing re-reads a register or a slot.
InOrder ==
  /\ last <= sent
  /\ \A i, j \in 1..Len(rxq) : i < j => rxq[i] < rxq[j]
  /\ \A i \in 1..Len(rxq) : last < rxq[i] /\ rxq[i] <= sent
  /\ uart.RXNE => last < uart.DR /\ uart.DR <= sent
  /\ uart.RXNE => \A i \in 1..Len(rxq) : rxq[i] < uart.DR

\* The bytes that may still reach the reader.
Transit == {rxq[i] : i \in DOMAIN rxq} \cup (IF uart.RXNE THEN {uart.DR} ELSE {})

\* The line, with its overruns, its purges and its interrupts that come late,
\* implements the lossy channel that keeps the order and never duplicates.
Channel == INSTANCE ByteChannel WITH transit <- Transit
ImplementsChannel == Channel!Spec

\* HAL_UART_Transmit has no queue: a second caller would get HAL_BUSY and its frame
\* would be dropped.  lwIP's core lock keeps every caller alone, so the handle is
\* always ready when a buffer is handed over, also after a transfer that timed out.
TransmitterAlone ==
  \A t \in Threads : pc[t] = "tx_enter" => uart.gState = "READY" /\ ~uart.Lock

\* UART_Receive_IT returns without reading DR when RxState is not BUSY_RX, so a data
\* interrupt in that state would be raised again at once, for ever: whenever one is
\* due, the handle is receiving or the overrun branch switches the interrupt off.
NoInterruptStorm ==
  DataInterrupt(uart) => uart.RxState = "BUSY_RX" \/ uart.ORE

\* The loop of HAL_UART_Transmit counts a byte before it is written.  When the output
\* callback reports a complete buffer, at most the last byte of it (the closing flag
\* of a PPP frame) has not been written.
ReportedAsSent ==
  \A t \in Threads : pc[t] = "tx_return" /\ ReportsAll => written[t] + 1 >= len[t]

\* Reception goes on by itself as long as it is armed.  Only three things stop it:
\* a byte whose interrupt falls into the locked section of HAL_UART_Transmit (the
\* callback's HAL_UART_Receive_IT gets HAL_BUSY), an overrun with nothing left to
\* read, and a transmission that times out.
Listening(u) == u.RxState = "BUSY_RX" /\ u.RXNEIE
ReceptionStops ==
  [][Listening(uart) /\ ~Listening(uart') =>
       \/ uart.Lock
       \/ uart.ORE /\ ~uart.RXNE
       \/ \E t \in Threads : pc[t] = "tx_stop"]_vars

\* Whatever the line does, a transmission ends and the core lock is released: no
\* caller of lwIP waits for ever behind the UART.
CoreLockReleased == \A t \in Threads : core = t ~> core # t

\* What the header of the HAL's UART functions says of an overrun in interrupt mode:
\* the error code is set when HAL_UART_ErrorCallback is called.
OverrunReported ==
  ErrorInterrupt(uart) => Overrun(uart, FALSE).ErrorCode = "ORE"

-----------------------------------------------------------------------------
(* The inductive invariant behind the safety properties, for QuietArm.      *)

\* Who transmits holds the core lock, and nobody transmits while reception is armed.
OneAtATime ==
  /\ \A t \in Threads : Transmitting(t) <=> core = t
  /\ Arming => core = NoThread

\* The handle is locked, and its transmitter busy, only in these sections.
HandleInUse ==
  /\ uart.gState = "BUSY_TX" => \E t \in Threads : pc[t] \in {"tx_send", "tx_stop", "tx_reset"}
  /\ uart.Lock => pc[Reader] = "arm_set" \/ \E t \in Threads : pc[t] = "tx_setup"

\* A receive interrupt that is enabled while the handle does not receive finds an
\* overrun, which will disable it.
EnabledForAReason ==
  /\ uart.RxState = "READY" /\ (uart.RXNEIE \/ uart.EIE) => uart.ORE
  /\ uart.RxState = "READY" /\ pc[Reader] \in {"arm_err", "arm_rxne"} => uart.ORE
  /\ \A t \in Threads : pc[t] = "tx_reset" => ~uart.RXNEIE

\* What the HAL still counts and what has been written make up the buffer, but for
\* the byte it has counted before a wait that timed out.
CountsAdd ==
  \A t \in Threads :
    /\ pc[t] \in {"tx_enter", "tx_lock", "tx_setup"} \/ ~Transmitting(t) => written[t] = 0
    /\ pc[t] = "tx_send" => written[t] + uart.TxXferCount = len[t]
    /\ pc[t] \in {"tx_stop", "tx_reset", "tx_return"}
         => written[t] + uart.TxXferCount + 1 >= len[t]

\* These four facts, with TypeOK, are kept by every step and imply TransmitterAlone,
\* NoInterruptStorm, ReportedAsSent and ReceptionStops.
IInv == OneAtATime /\ HandleInUse /\ EnabledForAReason /\ CountsAdd
=============================================================================
