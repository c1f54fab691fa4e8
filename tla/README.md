# A TLA+ model of the stm32f469i-disc-esp32 firmware

The firmware runs on an STM32F469I-Discovery board under FreeRTOS. It draws a
user interface with TouchGFX, reaches the network over PPP on a serial line to an
ESP32, makes HTTP(S) requests, and offers its SD card to FatFs and to a USB host.
Its own code is small and concurrent: tasks, interrupts and callbacks share
handles, queues and buffers with vendored libraries whose rules they must obey.
This directory models that code, checks it with TLC and proves the most important
facts with TLAPS.

Paths below are relative to the repository and given without `src/`.
`PROJECT.json` maps each definition to the lines it models and lists the runs,
the mutants, the findings, the hazards and the theorems.

## 1. Inventory

| Component | Source | State | Operations | Modelled |
|---|---|---|---|---|
| Serial line | `PPPoS/App/pppd.cpp`, the HAL's `stm32f4xx_hal_uart.c`, `Core/Src/stm32f4xx_it.c` | `huart6` and its registers, `xQueue_pppos`, lwIP's core lock | the USART6 interrupt, transmit with a timeout, arm reception, purge, read | `UartLink` |
| PPP and `PPPoS_Task` | `PPPoS/App/pppd.cpp`, lwIP's `netif/ppp` | control block: phase, LCP, IPCP, timers; the pool of one block, the pool of pbufs; the mailbox | create, connect, purge, arm, read, input, check, free, reset; packets and timeouts in tcpip_thread | `Fsm`, `PppLink`, `PppSession` |
| Web tasks | `Core/Src/https_client_task.cpp`, `Core/Src/main.c`, `Core/Inc/web.h` | `web_queue_request`, `web_queue_response`, `in_buff` | announce a session, request, carry out, respond | `WebService` |
| HTTPClient and sockets | `HTTPSClient/` | the static `m_sock`, `ctx` and `ssl`; the 8 kB buffer and its length | connect, send, receive the head, a body, chunks; close | `HttpClient` |
| SD card | `FATFS/Target`, `USB_DEVICE/App/usbd_storage_if.c` | `hsd`, `SDQueueID`, the scratch buffer | read and write by DMA with a completion queue; polled access from the USB interrupt | no; only the USB interrupt uses it at this commit |
| Display | `TouchGFX/target` | `refreshRequested`, `displayRefreshing`, the vsync queue, the frame buffer semaphore; in the framework the gate `isAllowed`, `lockDMAToPorch` and the DMA2D's queue | tearing-effect, end-of-refresh and DMA2D interrupts; the task's frame: wait, begin, draw, flush, request | `Display` |
| Touch, keys, load | `TouchGFX/target` | last key, debouncing, cycle counts | sample | no; sequential, polled once a frame |
| USB device | `USB_DEVICE` | ST's library | descriptors and glue | no |
| Start-up | `Core/Src/main.c` and others | none after start | initialisation | as the initial states of the others |
| Ethernet | `LWIP` | - | - | no; the board has none and the build leaves it out |
| HTTPMap, TCP server, UDP | `HTTPSClient` | - | - | no; no task uses them |

How they interact:

    ESP32 --bytes--> USART6 IRQ --xQueue_pppos--> PPPoS_Task --tcpip_mbox--> tcpip_thread
      ^                 |  (one handle, huart6)       |  create/free, core lock     |
      +---HAL_UART_Transmit (core lock held)----------+-----------------------------+
                                                                | status callback
    HTTPSClientTest_Task <--web_queue_response-- HTTPSClient_Task +--httpc_READY
            +------------web_queue_request---------->  |
                                                   HTTPClient --sockets (core lock)--> lwIP

    panel --tearing effect--> DSI IRQ --vsync_queue--> TouchGFX_Task --queue--> DMA2D
      ^                          |  refreshRequested,      |   frame buffer       |
      +--refresh in two halves---+  lockDMAToPorch         +---- semaphore -------+

What is hard in this code:

* **Interleaving.** The receive interrupt and a thread in `HAL_UART_Transmit`
  change the same handle; `HAL_UART_Receive_IT` is called from both sides. The
  HAL's lock is a flag that makes the loser return `HAL_BUSY`, which nobody
  looks at. `PPPoS_Task` arms without the core lock and reads the phase without it.
  The display's interrupts and its task hand flags back and forth over the only
  frame buffer without any lock.
* **Lost, delayed and repeated input.** Bytes are lost to overruns, to a full
  queue, to a purge; a peer resets at any moment or stops without a word; an
  HTTP response is cut into pieces at any byte.
* **Timeouts.** A transmission that times out undoes reception; a receive that
  times out is no error for HTTPClient; a put to a full queue blocks lwIP for a second.
* **Order.** A block is freed while input for it waits in the mailbox; two kinds
  of messages share the response queue.
* **Liveness.** Sessions must end and begin again whatever the peer does, and no
  driver may keep the core lock for ever.

What makes each component correct:

* serial line: bytes keep their order and are not repeated; one transmitter; an
  interrupt is always answered; reception stops only for known reasons; the core
  lock is released.
* PPP: one timer per automaton exactly when it waits; IP only over a negotiated
  link; the only control block comes back before it is asked for again; a freed
  block is harmless; a dead session is followed by a new one.
* web tasks: the shared buffer has one owner; the announcement is noticed; a
  message taken as a response is one.
* HTTPClient: what is delivered is the body; success means all of it; the one
  socket comes back; a request returns; no length goes wrong unless the peer stops.
* display: nothing is drawn into what is being sent; the processor and the DMA2D
  do not draw at once; drawing waits only for a refresh that goes on; every frame
  reaches the panel. Where a tearing effect falls into a refresh the code keeps less than
  that: see section 3.

`PROJECT.json` lists the individual hazards at their lines, with the property
that would catch each, or why none does yet.

## 2. Plan

Order of work, the most central behaviour first:

1. `UartLink` with the abstract channel `ByteChannel`, and its proofs. *(done)*
2. `Fsm`, `PppLink`, `PppSession`, and their proofs. *(done)*
3. `WebService` and `HttpClient`, and their proofs. *(done; with three counterexamples in
   `HttpClient`, in the code's own terms, for timeouts, chunks and large headers)*
4. `Display`, and its proofs. *(done)* The abstract statement that a buffer is not
   drawn into while it is sent is the invariant `NotDrawnWhileSent`; as a
   specification of its own it would say the same in more words, because its
   exceptions are states of `Display`.
5. TLS after the handshake in `HttpClient`, and a pbuf pool that runs dry in
   `PppSession`. *(done)*
6. Proofs for `PppSession`, by one lemma per function of `Fsm` and `PppLink`, and for
   `HttpClient`, first that memory is in order and from that what is delivered. *(done)*

An earlier plan had a module on the SD card. Reading showed that nothing can be
said of it at this commit: `MX_FATFS_Init` links the DMA driver, but no task
mounts a volume or opens a file, and `SDIO_IRQHandler` does not exist, so a
transfer by DMA could not even complete. Only the USB interrupt uses the card.

Composition: `PppSession` uses `UartLink` through its contract rather than its
statements. What the session needs of the line is `ByteChannel` (bytes are lost
but keep their order), the three causes for which reception stops, and one stale
byte in the data register; `PppSession` has exactly these as its `Send`,
`ReceptionStops` and `dr`. What the line needs of the session is `QuietArm`, and
`PppSession` checks it as `QuietWhileArming`. `WebService` sees the session only
as `SessionUp`, which may come at any time and any number of times up to its bound, and
`HttpClient` as one step of unbounded length.

## 3. The modules

### UartLink, ByteChannel, MCUartLink

`uart` is `huart6` with the enable bits and flags of USART6 that matter; a byte is
its position in what the ESP32 sends. Each thread has a `pc`; a thread's step
ends where it next touches shared state, so that the interrupt
(`HAL_UART_IRQHandler`, one atomic step with `UART_Receive_IT` and
`HAL_UART_RxCpltCallback`) falls between any two of them:

| Action | Code |
|---|---|
| `ByteArrives` | the receiver: RXNE, or ORE when the last byte has not been read |
| `HAL_UART_IRQHandler(late)` | the handler; `late` is a byte that arrives between its reads of SR and DR |
| `LockCore` ... `TxReturn` | the core lock, `HAL_UART_Transmit` statement by statement, the output callback |
| `TxStop`, `TxReset` | the timeout branch of `UART_WaitOnFlagUntilTimeout` |
| `Purge`, `ArmEnter` ... `ArmRxne` | `xQueueReset` and `HAL_UART_Receive_IT` by `PPPoS_Task` |
| `ReadQueue` | one byte taken by `pppos_read` |

Parity, framing and noise errors are left out (the handler treats them as an
overrun without the abort), and so is the bit-level `CR1`. `QuietArm` is the only
restriction of the environment: nobody transmits while `PPPoS_Task` arms. The code
has no lock there; it holds because PPP has just sent its first request, nothing
it would answer has been received (`QuietWhileArming` of `PppSession`), its
retransmission timer is 6 s away, and no socket can send before IP is up.

`ByteChannel` is the abstract specification: a channel that may lose bytes but
delivers the others in order and once. `UartLink` implements it with `transit`
mapped to the queue and the data register.

### Fsm, PppLink, PppSession

`Fsm` holds the functions of `fsm.c` as operators from an automaton to an
automaton and a callback. `PppLink` composes LCP and IPCP with the phase as
`auth.c`, `lcp.c`, `ipcp.c`, `ppp.c` and `pppos.c` do; a C call chain is one
operator. `PppSession` adds the task's loop, the mailbox, the timers, the pool and
the ESP32. A unit of received data carries only its age; what it says is chosen
from `Inputs(link)` when PPP reads it, which is every packet that a peer may send
in that state, in any order. Left out: the bytes of frames and options (a packet
is acceptable or not), protocols the build does not have, and packets PPP sends
(the peer may answer anything anyway, and lost packets are answers that never
come). `modem_reset` waits two seconds; that the mailbox is empty after it is its
guard. `LinkInv` says in what order a block is between two calls of `PppLink`'s
functions, and `IInv` of `PppSession` what the task and the mailbox know of it.

### WebService

Both queues, the callback that posts `httpc_READY` under the core lock with a
timeout of a second, and the two tasks. The test task makes one request and then
idles, as in the code, so the queue can fill up behind it. The task takes whatever
comes next as its response, and yet reads `in_buff` only when the client has finished
(`BufferHandedOver`): `OneRequest` says why, and would fail for a task that repeats its
request.

### HttpClient, MCHttpClient

`HTTPClient::connect` as a state machine over `pc`, with the receive buffer cell by
cell, because the code searches beyond its length for what earlier receives
left. A symbol is a piece of text that is never split (a status, a header
without its end, a size), one byte of the body, a CR or an LF. `Receive(min, max)`
is the set of outcomes of `HTTPClient::recv` with `receive_all` and `receive`: a piece
of any length, the end of the connection, a reset, silence, or a pause longer than
the timeout. Over TLS (`ReceiveTls`) it is one `wolfSSL_read`: a piece, whatever
minimum was asked for, or a failure. wolfSSL's failure is -1, and so is every
later read; `recv` stores it in a `size_t` and finds it larger than 0, so it is a
success with a length of 2^32-1, which the model writes as -1. Only TLS's own
closing gives 0, an error. What becomes of -1 depends on where it arrives: a
protocol error (status, size of a chunk), a buffer that shrinks by one byte at
each call and then a line that is skipped for ever (headers), or a `memmove` of
4 GB (body), before which as many old bytes of the buffer as the body still lacks are
delivered (`HTTPClient.cpp:661`). The firmware's only address at this commit is a plain one
(`Core/Src/main.c:1047`), so this is latent. `BodyIsPrefix` excepts exactly this case
(`TlsFault`). Undefined behaviour is explicit: an uninitialised length used as an
index, a `memmove` of a negative size and a look in front of the buffer lead to
every outcome the build may produce, with `hardfault` for memory that is lost.
The invariant `IInv` has two halves:
`MemoryInv` keeps lengths and ends of lines in order, `DeliveryInv` says at which
position of the answer the buffer stands.

`Responses` may be any answers that are well formed (`AnswerAssumption`): the headers
do not announce what does not follow, and the body follows the empty line. One part of it is
a restriction: nothing in a body looks like an empty line or a header with a length.
It matters only to a client that has skipped the end of the headers (`http_skip`) and
reads on in the body; without it, what such a client delivers would depend on what is written
there. Chunked answers are free of the assumption, and what is said of delivery
is not said of them, because of `http_chunk`.

Not modelled: URL parsing and request formatting beyond success and failure,
redirects (never enabled by a caller), basic authentication, and the TLS
handshake and records.

### Display, DisplayProofs

The panel asks for a picture with its tearing effect, 60 times a second. The
interrupt wakes `TouchGFX_Task` and, if the task has asked for it, sends the
frame buffer in two halves. There is one buffer, so the task must not draw while
it is sent: the interrupt sets `lockDMAToPorch`, which the task turns into a shut
gate (`isAllowed`), and the end of the refresh opens it.

| Action | Code |
|---|---|
| `EnableInterrupts` | the beginning of `TouchGFXHAL::taskEntry` |
| `DiscardVSync`, `WaitForVSync` | `OSWrappers::waitForVSync` |
| `SwapFrameBuffers`, `BeginFrame`, `SetAllowed` | `HAL::backPorchExited`, `TouchGFXHAL::beginFrame`, and the line of `HAL::tick` that sets the gate |
| `TryTakeSemaphore`, `Push` | `DMA_Interface::addToQueue`, an operation for the DMA2D |
| `LockFrameBuffer`, `SpinUntilAllowed`, `TakeSemaphore`, `UnlockFrameBuffer` | drawing with the processor |
| `DrawingDone`, `FlushDMA`, `RequestRefresh` | the end of the widgets, `HAL::endFrame`, `TouchGFXHAL::endFrame` |
| `TearingEffect`, `LeftSent`, `RightSent` | the two DSI callbacks |
| `StartDMA` | the part of `DMA_Interface::start` behind its tests: `execute` |
| `TransferComplete` | the hardware of the DMA2D |
| `DMA2DCompleted`, `GoOn` | its interrupt, `STM32DMA::signalDMAInterrupt`: `executeCompleted` up to the pop, and the rest of it |

The task's steps end where it touches what an interrupt changes. The DSI interrupt has
priority 5 and is one step. The DMA2D's is set to 5 by the HAL's code and then to 9 by
`TouchGFXGeneratedHAL::configureInterrupts`, so the DSI interrupt nests in it: its
handler is two steps, between which the task does not run (`Step`). In the same way `start` is two
steps when the task calls it, its tests (`Push`) and `execute` (`StartDMA`), and one
when the end of a refresh calls it. What the framework believes of the DMA2D
(`dma.isRunning`) and what the hardware does (`dma2d`) are separate variables.

The framework is a prebuilt library. Its functions are modelled from the inline code
in its headers and from its object code, as far as they change what is shared, and
are marked external. `unsent`, `covers`, `overtaken`, `overtook`, `late` and `startedTwice` are
history for the properties; only `overtaken` guards anything, through its bound.

`addToQueue` disables the interrupt of the DMA2D from before it tries to take the
semaphore until the operation is queued and started (`Masked`); a completion waits
meanwhile. The DSI interrupt may come.

A refresh takes about as long as a period of the tearing effect, so one may fall into it. The
code has no answer to that, in three ways:

* the tearing effect finds the request withdrawn and unlocks the gate, and the next
  frame may draw into what is still being sent: the exception `overtaken > 0` of
  `NotDrawnWhileSent`;
* when the signal of the tearing effect that began the refresh was discarded, the
  overtaking one wakes the task with the lock set, and the end of the refresh may come
  before the task shuts the gate, which then stays shut: `display_overtaken`;
* the end of the refresh may come while the task draws, in particular inside `start` or the DMA2D's
  handler, and start an operation that is being started. Its first completion then gives the
  semaphore back while the DMA2D draws it again, so from there on
  (`startedTwice`) nothing is claimed of who draws. The window is a few instructions wide.

Nor has it one to a task that is held up for the 16 ms of a refresh between its
waking and `SetAllowed`: the gate is shut after the refresh has opened it. All threads
have the same priority and share the processor in slices of a millisecond, so
this takes long interrupts too. `late` says that it has happened, precisely: that a refresh
has ended or has been overtaken (`Late`) that began with the waking of a task that is still
on its way, or later. A refresh that was overtaken before does not count, because it may have
begun long before the waking. `GateIsOpened`, `FrameReachesPanel` and
`RenderingEnds` hold until the task has been late or a refresh has been overtaken.

## 4. Runs

| Run | States | Shows |
|---|---|---|
| `uart_link` | about 47,000 | the safety, step and liveness properties of `UartLink`, the inductive invariant and the refinement |
| `uart_overrun` | violation | an overrun served together with a byte is not reported |
| `ppp_session` | about 37,000 | negotiation, session loop and reconnection, also without pbufs, and the inductive invariant |
| `ppp_disconnect` | violation | a silent peer is not noticed in a running session |
| `web_service` | about 300 | the single request, ownership of the buffer, the announcement, release of the lock |
| `web_response` | violation | an announcement is taken for a response |
| `http_client` | about 52,000 | delivery, success, the socket, wrong lengths, the end of requests, with TLS and without, and the inductive invariant |
| `http_timeout` | violation | the timeout does not end a request |
| `http_chunk` | violation | the end of a chunk is sought in its data |
| `http_skip` | violation | the header after one that is too large is skipped too |
| `display` | about 12,000 | exclusive drawing and no lost frame, and until the task has been late or a refresh overtaken, a gate that opens and frames that reach the panel and end; the inductive invariant |
| `display_overtaken` | violation | a task that is never late shuts the gate after the refresh has opened it, when that refresh was begun by a tearing effect whose signal it discarded |

### Bounds

* `UartLink`: three threads (a transmitter, a waiting one and the reader, which
  also transmits), a queue of two bytes, buffers of up to two bytes, four bytes
  sent. Two bytes fill the queue, the third waits in DR and the fourth is an
  overrun; a buffer of two has a first, a last and a byte that times out. The
  theorems need none of these bounds.
* `PppSession`: two transmissions of each kind, so that a timer both retransmits
  and gives up; two units in the queue and the mailbox. The number of sessions is
  not bounded. The violation run uses the smallest values.
* `WebService`: queues of three messages instead of five and six sessions, enough
  to fill the response queue after the test task has stopped reading it, and once more.
* `HttpClient`: a buffer of five cells, which a header and its end nearly fill,
  one longer header exceeds and a body overflows; room for two bytes; two
  attempts to connect; one long pause per connection; eight responses, one for
  each shape the code distinguishes, each cut off after any symbol. The number of
  requests is not bounded.

* `Display`: room for two operations in the DMA2D's queue, so that it is empty,
  has a last one, and is full; one tearing effect during a refresh, because the
  refresh takes about one period. Frames and operations are not bounded. The
  theorems need neither bound, except `KeepsFrames`, which is about the second.

Deadlock is checked in `ppp_session` and `display`, where something always goes on. The others may
stop: the bytes or sessions of the bound run out, or the program is in a HardFault.

### Fairness

* `UartLink`: weak fairness of each transmitting thread. Each wait of
  `HAL_UART_Transmit` ends by its timeout, and the scheduler shares the processor.
  Nothing is assumed of the ESP32, the interrupt's arrival, or waiting threads.
* `PppSession`: weak fairness of the task, of tcpip_thread for its mailbox, and of
  each timer, because `sys_check_timeouts` runs in the same loop. A timer is
  exempt while it would change nothing. Nothing is assumed of the ESP32.
* `WebService`: the callback's put ends at its timeout; the tasks run. A request
  under way need not end (see `http_timeout`).
* `HttpClient`: weak fairness of the request as a whole. A poll that brings
  nothing is a stuttering step, so a loop that waits for a silent peer is not
  helped by it.

* `Display`: weak fairness of the task and of the interrupts: the panel sends its
  tearing effect for ever, a refresh and a DMA2D operation that have begun end.
  Strong fairness of `DrawingDone`: a frame consists of finitely many operations.

### Findings

Each is a run whose counterexample is in the code's own terms; `PROJECT.json`
quotes the lines.

1. `uart_overrun` - the HAL's documentation promises an error code; the callback
   arms the next byte and clears it. The firmware is lucky: reception survives.
2. `ppp_disconnect` - a comment expects the phase DEAD "when the client
   disconnects"; with echo requests off nothing notices.
3. `web_response` - the response queue also carries announcements.
4. `http_timeout` - recv reports a timeout and a reset as success with no bytes,
   and its callers ask again.
5. `http_chunk` - the length is stale when a chunk ends where a receive ended.
6. `http_skip` - a line end that is split over two receives is not seen.
7. `display_overtaken` - the gate is shut by a decision that is older than the end of
   the refresh it waits for. No request is left that would start another one, so the
   display stands still. The task need not be late for it.

## 5. Proofs

### Serial line

`UartLinkProofs` proves, for every set of threads, queue length, buffer length and
number of bytes:

* from the type invariant alone and for either value of `QuietArm`: `TypeCorrect`,
  `OrderKept` and `LineImplementsChannel`, so the order of the bytes does not
  depend on anybody being quiet;
* under `QuietArm`: `HandleInvariant`, and from it `AlwaysAlone`, `NeverStorms`,
  `ReportsHonestly` and `StopsForAReason`.

The safety properties about the handle are not inductive. `TransmitterAlone` says
what a caller finds on entry; that it is so depends on where everybody else may
be. `IInv` adds this in four parts, each kept by a lemma of its own:

* `OneAtATime`: a thread transmits if and only if it owns the core lock, and
  nobody owns it while reception is armed;
* `HandleInUse`: the handle is busy or locked only in named sections of the
  thread that transmits or arms;
* `EnabledForAReason`: an interrupt that is enabled while the handle does not
  receive finds an overrun, which will disable it. This is the delicate one: in
  `ArmError` and `TxStop` the bits are set and cleared one by one, and the order
  in the code is what keeps it;
* `CountsAdd`: what is counted and what is written make up the buffer, but for one
  byte after a timeout.

The lemmas about the interrupt (`IrqCompletes`, `IrqAborts`, `IrqNothing`) say once
what the nested HAL functions make of the handle; the rest cites them.
`LineImplementsChannel` uses `InOrder`: because the queue is in order, its head is
the oldest byte in transit.

### Display

`DisplayProofs` proves, for every length of the DMA2D's queue, every number of
overtaking tearing effects and a task as late as it may be, that `IInv` of `Display`
is an invariant, and from it `DisplayTypeCorrect`, `SentUndisturbed`,
`DrawsAlone`, `WaitsForAReason` (which is `GateIsOpened`) and `TwiceOnlyOvertaken`; with at
most one overtaking tearing effect, `KeepsFrames`. The only assumption is the last one; what
the properties except, they except in states that are in the model. None of the properties is inductive, because each relates what the task and
a refresh do at one moment, and the two know of each other only through flags set
earlier. The parts of `IInv` say what the flags mean:

* `QueueBounded`, `SemaphoreHeld`: operations are queued under the semaphore, and
  there are none between two frames;
* `HardwareKnown`: the hardware transfers, or has a completion to report, only while
  `isRunning` says so, until an operation is started twice;
* `StartedOnce`: which happens only after a refresh has been overtaken;
* `GateShut`: a refresh begins only between two frames, and until it ends or is
  overtaken the task is before the gate or stopped by it;
* `GateOpens`: whoever is stopped by the gate is stopped by a refresh. This is the
  part that ends when the task has been late or a refresh overtaken;
* `FlagsHandedOver`: the framework's two flags from the end of one frame to the
  beginning of the next;
* `FrameCovered`: when `beginFrame` withdraws a request, a refresh has begun that
  sends both halves of the frame.

### Web tasks

`WebServiceProofs` proves, for every length of the queues and any number of
sessions, `WebTypeCorrect`, `RequestOnce` and `BufferOwned`. `BufferHandedOver` is not
inductive, since nothing in it keeps a second request from being under way; `OneRequest`
is: the only request is in the queue, or with the client, or answered, and an OK in the
response queue means the last. `PutMessage` and `TakeMessage` say what the announcements
do to that queue: they never put an OK into it.

### PPP

`PppSessionProofs` proves, for every value of the retransmission counters, every
length of the byte queue and the mailbox, everything the ESP32 may send and every pbuf
that may be missing, that `IInv` of `PppSession` is an invariant (`SessionInvariant`),
and from it every safety property that the run checks. The proof has the layers of
the code:

* `FsmProofs`: for each function of `fsm.c`, on an automaton that is well timed, the
  result is well timed (`WellTimed`) and the callback tells its caller what changed
  (`Sound`: up if and only if the automaton has become OPENED, and so on). `InputSound`
  collects them for every packet.
* `PppLinkProofs`: for each callback of LCP and IPCP, and each of the call chains that
  they start, the block is in order after it (`LinkInv`). `ConnectKeeps`,
  `TimeoutKeeps` and `InputKeeps` are what the session uses.
* `PppSessionProofs`: one lemma per action.

`OneTimerEach` and `RunningIsNegotiated` are not inductive: that a callback may bring
IP up rests on the phase, which rests on LCP, which must not be left while IPCP is up.
`LinkInv` therefore adds to `WellTimed` of both automata

* `OpenOrDead`: the block is open, with an LCP that is under way, or it is dead, with
  an LCP that has not started;
* `LcpBelowIpcp`: the phase follows LCP, and IPCP exists only above an open LCP. An
  IPCP that has been started has not ended, because its end closes LCP;
* `IpFollowsIpcp`: IP, the phase RUNNING and an open IPCP are the same.

`CreateSucceeds`, `FreedIsInert` and `QuietWhileArming` need what the task knows
without looking: `PoolAndPhase` (the block is in use from create to free, and dead at both
ends), `NothingInTransit` (the buffer is empty but during an input, the mailbox before
the first one) and `OldBytes`. The theorems do not rest on timing, except for
`ModemReset`'s guard.

`fsm_rconfreq` of the model is written with IF where a CASE with overlapping guards
would do for TLC, because the provers can say nothing of which arm such a CASE takes.

### HttpClient

`HttpClientProofs` and `HttpDeliveryProofs` prove, for a buffer of at least four
bytes, a room of any size, any number of attempts and pauses, any answers that
`AnswerAssumption` allows, any cuts between receives, TLS or not, that `IInv` of
`HttpClient` is an invariant (`RequestInvariant`), and from it all safety properties of the
run. The first module shows `MemoryInv` inductive on its own, without
looking at what the bytes mean:

* `LinesEnd`: where the next receive begins a line, none is left in the buffer, and
  behind the last byte that counts of the headers is a NUL. It is what keeps
  the search for a line end, which has no length, within what has been received:
  the line that it finds is among the bytes that count (`LineFits`, `NextLineFacts`);
* `LengthFits`: the length of -1 comes from TLS only, and a receive into the body always
  has room, so that it does not ask for nothing for ever;
* `StopIsSeen`: without TLS a connection that is known to be closed has delivered
  everything, and the end of a chunk is missing only when the peer has stopped or
  paused. `FaultsForAReason` rests on it;
* `AttemptLeft`: a request that still connects has an attempt left.

The second adds `DeliveryInv`. While headers are read, the buffer stands behind a line
end of the answer (`HeadRead`), and holds, with what is on its way, what follows there; so the
empty line that the client sees is one that is in the answer, and by
`AnswerAssumption` the body follows. From then on c symbols have been delivered, the
buffer continues at the next one, and c and what is missing make up the length
(`BodyRead`). When TLS has failed in the headers there is no line in the buffer any more, and what
follows is an error, a HardFault or a skipping that never ends, none of which delivers. When
it has failed in a body, old bytes of the buffer are delivered and the HardFault
follows at once; `DeliveryInv` and `BodyIsPrefix` say nothing of that state (`TlsFault`). The skipping of headers (`http_skip`) loses lengths but no
position, so `BodyIsPrefix` holds with it. `OkMeansComplete` speaks of the length that the client
knows of, because the code takes a body without one for an empty body.

### What stays with TLC

Every liveness property (`Reconnects` and its like), because fairness and ENABLED are out of
the prover's reach, and the runs that show a violation. Every safety property, step property and
refinement that a passing run checks is proved. `QuietArm` is an assumption of
`UartLinkProofs`; its untimed part is the theorem `ArmingIsQuiet` about the session, its
timed part (6 s against a few instructions) is argued above. The two are not
composed into one theorem, since `PppSession` has the line only through its contract.

## 6. Not modelled

* **SD card**: see section 2. What the USB interrupt's polling does to the others,
  lost bytes and a late task, is in `UartLink` (overruns) and `Display` (`late`).
* **Touch, keys, processor load**: no state is shared; the debouncing of the keys
  is a counter in one function.
* **The interface list**: `PPPoS_Task` calls `netif_set_default` and
  `netif_set_link_up` without the core lock. `QuietWhileArming` shows that no input
  of PPP is on its way at that moment; other users of lwIP are not modelled.
* **The second byte of a response**: the queue's elements are two bytes, the
  variable one; what lies next to it is a matter of the stack's layout.
* **What the code has no answer to** is in the model and excepted from the properties by name: a
  peer that rejects IPCP (`Rejected`), a request that finds no pbuf and
  starts no timer (`Starved`), a TLS set-up that fails and leaves the socket
  open (in `SocketGivenBack`), TLS that fails in a body (`TlsFault`), a rendering task
  that is late (`late`), a refresh that is overtaken (`overtook`, `startedTwice`).
* The bytes of PPP frames and options, the TLS handshake and records, what is drawn,
  and real time other than as "may time out".
* Vendored libraries appear only where the firmware's behaviour depends on them.
  Most of the repository's lines are these and tables of pixels, so the map covers
  a small share of the lines and most of the firmware's own concurrent code.
