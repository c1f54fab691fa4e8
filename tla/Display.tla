------------------------------ MODULE Display ------------------------------
(***************************************************************************)
(* The display: TouchGFX_Task renders into the only frame buffer, with the *)
(* processor or through the queue of the DMA2D, and the DSI interrupt      *)
(* sends the buffer to the panel in two halves.  The tearing effect paces  *)
(* both: it wakes the task and starts a refresh when one is requested.     *)
(*                                                                         *)
(* The interrupts of the DSI are one step each, which may come between any *)
(* two steps of the task.  They may also fall into the handler of the      *)
(* DMA2D, whose priority is lower (9 against 5): that handler is two       *)
(* steps, between which the task does not run.  What is drawn does not     *)
(* matter, only when.                                                      *)
(***************************************************************************)
EXTENDS Naturals

CONSTANTS
  QueueLen,    \* queue_storage: how many operations the DMA2D's queue has room for (96)
  Overtakes    \* bound: tearing effects that may come while one refresh is going on

ASSUME DisplayAssumption == QueueLen \in Nat \ {0} /\ Overtakes \in Nat

VARIABLES
  pc,                  \* where the task is
  vsync_queue,         \* how many messages it holds
  frame_buffer_sem,    \* 1: available
  refreshRequested,
  displayRefreshing,
  updateRegion,        \* the half that is being sent
  lockDMAToPorch,
  dma,                 \* DMA_Interface: operations queued, isRunning, isAllowed
  dma2d,               \* the hardware: it is transferring, a completion waits for its interrupt
  handler,             \* "popped": in the DMA2D's handler, after executeCompleted's pop
  frameBufferUpdatedThisFrame,
  swapRequested,
  (* What the properties need to know of the past. *)
  unsent,              \* the halves of the last frame that have not reached the panel
  covers,              \* those of them that the refresh sends as the last frame left them
  overtaken,           \* tearing effects since the refresh began
  (* What has happened that the code has no answer to. *)
  overtook,            \* a tearing effect has come while a refresh was going on
  late,                \* the task has got to SetAllowed later than a refresh takes
  startedTwice         \* an operation has been executed again before it was popped

hal     == <<lockDMAToPorch, frameBufferUpdatedThisFrame, swapRequested>>
refresh == <<refreshRequested, displayRefreshing, updateRegion>>
blit    == <<dma, dma2d, handler, startedTwice>>
past    == <<unsent, covers, overtaken, overtook, late>>
vars    == <<pc, vsync_queue, frame_buffer_sem, blit, hal, refresh, past>>

Half == {"left", "right"}

Waking  == {"swap", "begin", "gate"}
Drawing == {"draw", "push", "execute", "spin", "take", "cpu"}
Ending  == {"flush", "request"}

\* Here addToQueue has disabled the interrupt of the DMA2D.
Masked  == {"push", "execute"}

TypeOK ==
  /\ pc \in {"start", "discard", "wait"} \cup Waking \cup Drawing \cup Ending
  /\ vsync_queue \in 0..1 /\ frame_buffer_sem \in 0..1
  /\ refreshRequested \in BOOLEAN /\ displayRefreshing \in BOOLEAN
  /\ updateRegion \in Half
  /\ lockDMAToPorch \in BOOLEAN
  /\ dma \in [queue : 0..QueueLen, isRunning : BOOLEAN, isAllowed : BOOLEAN]
  /\ dma2d \in [busy : BOOLEAN, completed : BOOLEAN] /\ handler \in {"idle", "popped"}
  /\ frameBufferUpdatedThisFrame \in BOOLEAN /\ swapRequested \in BOOLEAN
  /\ unsent \subseteq Half /\ covers \subseteq Half
  /\ overtaken \in 0..Overtakes
  /\ overtook \in BOOLEAN /\ late \in BOOLEAN /\ startedTwice \in BOOLEAN

\* After TouchGFXHAL::initialize.
Init ==
  /\ pc = "start"
  /\ vsync_queue = 0 /\ frame_buffer_sem = 1
  /\ refreshRequested = TRUE /\ displayRefreshing = FALSE /\ updateRegion = "left"
  /\ lockDMAToPorch = FALSE
  /\ dma = [queue |-> 0, isRunning |-> FALSE, isAllowed |-> FALSE]
  /\ dma2d = [busy |-> FALSE, completed |-> FALSE] /\ handler = "idle"
  /\ frameBufferUpdatedThisFrame = FALSE /\ swapRequested = FALSE
  /\ unsent = Half /\ covers = {} /\ overtaken = 0
  /\ overtook = FALSE /\ late = FALSE /\ startedTwice = FALSE

\* A step of the task, which no interrupt handler is keeping from running.
Step(from, to) == handler = "idle" /\ pc = from /\ pc' = to

-----------------------------------------------------------------------------
(* The task's way into a frame. *)

EnableInterrupts ==
  /\ Step("start", "discard")
  /\ UNCHANGED <<vsync_queue, frame_buffer_sem, blit, hal, refresh, past>>

\* Mutant: a signal from before is taken for the next one.
DiscardVSync_Keeps ==
  /\ Step("discard", "wait")
  /\ UNCHANGED <<vsync_queue, frame_buffer_sem, blit, hal, refresh, past>>

\* waitForVSync first empties the queue.
DiscardVSync ==
  /\ Step("discard", "wait")
  /\ vsync_queue' = 0
  /\ UNCHANGED <<frame_buffer_sem, blit, hal, refresh, past>>

WaitForVSync ==
  /\ Step("wait", "swap") /\ vsync_queue = 1
  /\ vsync_queue' = 0
  /\ UNCHANGED <<frame_buffer_sem, blit, hal, refresh, past>>

\* HAL::swapFrameBuffers; there is nothing to swap, but the flags are cleared.
Swapped ==
  /\ swapRequested' = FALSE
  /\ frameBufferUpdatedThisFrame' = (frameBufferUpdatedThisFrame /\ ~swapRequested)

SwapFrameBuffers ==
  /\ Step("swap", "begin")
  /\ Swapped
  /\ UNCHANGED <<vsync_queue, frame_buffer_sem, lockDMAToPorch, blit, refresh, past>>

BeginFrame ==
  /\ Step("begin", "gate")
  /\ refreshRequested' = FALSE
  /\ UNCHANGED <<vsync_queue, frame_buffer_sem, blit, hal, displayRefreshing, updateRegion, past>>

\* Mutant: drawing is always allowed.
SetAllowed_Always ==
  /\ Step("gate", "draw")
  /\ dma' = [dma EXCEPT !.isAllowed = TRUE]
  /\ UNCHANGED <<vsync_queue, frame_buffer_sem, dma2d, handler, startedTwice, hal, refresh, past>>

\* HAL::tick opens or closes the gate to the frame buffer as the last tearing effect
\* has left it.
SetAllowed ==
  /\ Step("gate", "draw")
  /\ dma' = [dma EXCEPT !.isAllowed = ~lockDMAToPorch]
  /\ UNCHANGED <<vsync_queue, frame_buffer_sem, dma2d, handler, startedTwice, hal, refresh, past>>

-----------------------------------------------------------------------------
(* Drawing. *)

\* What DMA_Interface::start tests.
Startable(d) == d.queue > 0 /\ d.isAllowed /\ ~d.isRunning

\* execute sets up the DMA2D for the first operation of the queue.  The hardware ignores it
\* while a transfer is going on.
Execute(d) ==
  /\ dma' = [d EXCEPT !.isRunning = TRUE]
  /\ dma2d' = [dma2d EXCEPT !.busy = TRUE]
  /\ startedTwice' = (startedTwice \/ d.isRunning)

\* Mutant: addToQueue does not wait for room.
TryTakeSemaphore_NoRoom ==
  /\ Step("draw", "push")
  /\ frame_buffer_sem' = 0
  /\ UNCHANGED <<vsync_queue, blit, hal, refresh, past>>

\* addToQueue waits for room, disables the interrupt of the DMA2D and makes sure that the
\* semaphore is taken by someone ...
TryTakeSemaphore ==
  /\ Step("draw", "push") /\ dma.queue < QueueLen
  /\ frame_buffer_sem' = 0
  /\ UNCHANGED <<vsync_queue, blit, hal, refresh, past>>

\* ... then queues the operation and calls start, which makes its tests ...
Push ==
  /\ Step("push", IF Startable([dma EXCEPT !.queue = @ + 1]) THEN "execute" ELSE "draw")
  /\ dma' = [dma EXCEPT !.queue = @ + 1]
  /\ frameBufferUpdatedThisFrame' = TRUE
  /\ UNCHANGED <<vsync_queue, frame_buffer_sem, dma2d, handler, startedTwice, lockDMAToPorch,
                 swapRequested, refresh, past>>

\* ... and executes the first operation, and enables the interrupt again.
StartDMA ==
  /\ Step("execute", "draw")
  /\ Execute(dma)
  /\ UNCHANGED <<vsync_queue, frame_buffer_sem, handler, hal, refresh, past>>

\* Mutant: the processor does not look at the gate.
LockFrameBuffer_Skips ==
  /\ Step("draw", "take")
  /\ UNCHANGED <<vsync_queue, frame_buffer_sem, blit, hal, refresh, past>>

\* lockFrameBuffer: with operations queued, the semaphore tells when it is the
\* processor's turn, otherwise isAllowed does.
LockFrameBuffer ==
  /\ Step("draw", IF dma.queue = 0 THEN "spin" ELSE "take")
  /\ UNCHANGED <<vsync_queue, frame_buffer_sem, blit, hal, refresh, past>>

SpinUntilAllowed ==
  /\ Step("spin", "take") /\ dma.isAllowed
  /\ UNCHANGED <<vsync_queue, frame_buffer_sem, blit, hal, refresh, past>>

TakeSemaphore ==
  /\ Step("take", "cpu") /\ frame_buffer_sem = 1
  /\ frame_buffer_sem' = 0
  /\ UNCHANGED <<vsync_queue, blit, hal, refresh, past>>

UnlockFrameBuffer ==
  /\ Step("cpu", "draw")
  /\ frame_buffer_sem' = 1
  /\ frameBufferUpdatedThisFrame' = TRUE
  /\ UNCHANGED <<vsync_queue, blit, lockDMAToPorch, swapRequested, refresh, past>>

-----------------------------------------------------------------------------
(* The end of a frame. *)

DrawingDone ==
  /\ Step("draw", "flush")
  /\ UNCHANGED <<vsync_queue, frame_buffer_sem, blit, hal, refresh, past>>

\* HAL::endFrame takes the semaphore and gives it back.
FlushDMA ==
  /\ Step("flush", "request") /\ frame_buffer_sem = 1
  /\ swapRequested' = (swapRequested \/ frameBufferUpdatedThisFrame)
  /\ UNCHANGED <<vsync_queue, frame_buffer_sem, lockDMAToPorch, blit,
                 frameBufferUpdatedThisFrame, refresh, past>>

\* TouchGFXHAL::endFrame.
RequestRefresh ==
  /\ Step("request", "discard")
  /\ IF frameBufferUpdatedThisFrame
       THEN /\ refreshRequested' = TRUE
            /\ unsent' = Half
            /\ covers' = IF displayRefreshing /\ updateRegion = "left" THEN {"right"} ELSE {}
       ELSE UNCHANGED <<refreshRequested, unsent, covers>>
  /\ UNCHANGED <<vsync_queue, frame_buffer_sem, blit, hal, displayRefreshing, updateRegion,
                 overtaken, overtook, late>>

-----------------------------------------------------------------------------
(* The interrupts. *)

\* The task has been woken and has not yet come to SetAllowed.
Woken == pc \in Waking \/ (pc = "wait" /\ vsync_queue = 1)

\* A refresh that ends or is overtaken now has begun with the task's waking or later, 16 ms
\* ago; one that has been overtaken may have begun long before.
Late == Woken /\ displayRefreshing /\ overtaken = 0

\* HAL_DSI_TearingEffectCallback: a signal the queue has no room for is dropped.
TearingEffect ==
  /\ pc # "start" /\ (displayRefreshing => overtaken < Overtakes)
  /\ vsync_queue' = 1
  /\ lockDMAToPorch' = refreshRequested
  /\ IF refreshRequested /\ ~displayRefreshing
       THEN /\ Swapped
            /\ updateRegion' = "left" /\ displayRefreshing' = TRUE
            /\ covers' = Half /\ overtaken' = 0
       ELSE /\ overtaken' = IF displayRefreshing THEN overtaken + 1 ELSE overtaken
            /\ UNCHANGED <<swapRequested, frameBufferUpdatedThisFrame, updateRegion,
                           displayRefreshing, covers>>
  /\ overtook' = (overtook \/ displayRefreshing) /\ late' = (late \/ Late)
  /\ UNCHANGED <<pc, frame_buffer_sem, blit, refreshRequested, unsent>>

\* HAL_DSI_EndOfRefreshCallback after the left half.
LeftSent ==
  /\ displayRefreshing /\ updateRegion = "left"
  /\ updateRegion' = "right"
  /\ unsent' = unsent \ (covers \cap {"left"})
  /\ UNCHANGED <<pc, vsync_queue, frame_buffer_sem, blit, hal, refreshRequested,
                 displayRefreshing, covers, overtaken, overtook, late>>

\* Mutant: the end of the refresh does not open the gate.
RightSent_StaysShut ==
  /\ displayRefreshing /\ updateRegion = "right"
  /\ displayRefreshing' = FALSE
  /\ unsent' = unsent \ (covers \cap {"right"}) /\ covers' = {} /\ late' = (late \/ Late)
  /\ UNCHANGED <<pc, vsync_queue, frame_buffer_sem, blit, hal, refreshRequested, updateRegion,
                 overtaken, overtook>>

\* The same callback after the right half; frontPorchEntered opens the gate and calls start.
RightSent ==
  /\ displayRefreshing /\ updateRegion = "right"
  /\ displayRefreshing' = FALSE
  /\ LET open == [dma EXCEPT !.isAllowed = TRUE]
     IN  IF Startable(open)
           THEN Execute(open)
           ELSE dma' = open /\ UNCHANGED <<dma2d, startedTwice>>
  /\ unsent' = unsent \ (covers \cap {"right"}) /\ covers' = {} /\ late' = (late \/ Late)
  /\ UNCHANGED <<pc, vsync_queue, frame_buffer_sem, handler, hal, refreshRequested, updateRegion,
                 overtaken, overtook>>

\* The hardware has drawn what it was set up for.
TransferComplete ==
  /\ dma2d.busy
  /\ dma2d' = [busy |-> FALSE, completed |-> TRUE]
  /\ UNCHANGED <<pc, vsync_queue, frame_buffer_sem, dma, handler, startedTwice, hal, refresh, past>>

\* executeCompleted takes the operation out of the queue.
Popped ==
  /\ handler = "idle" /\ dma2d.completed
  /\ handler' = "popped" /\ dma2d' = [dma2d EXCEPT !.completed = FALSE]
  /\ dma' = IF dma.queue > 0 /\ dma.isRunning
              THEN [dma EXCEPT !.queue = @ - 1, !.isRunning = FALSE]
              ELSE dma
  /\ UNCHANGED <<pc, vsync_queue, frame_buffer_sem, startedTwice, hal, refresh, past>>

\* Mutant: addToQueue does not disable the interrupt.
DMA2DCompleted_Anytime == Popped

\* The interrupt of the DMA2D.
DMA2DCompleted == pc \notin Masked /\ Popped

\* The rest of executeCompleted goes on with the next operation, whatever isAllowed says, or
\* gives the semaphore back.
GoOn ==
  /\ handler = "popped" /\ handler' = "idle"
  /\ IF dma.queue > 0
       THEN Execute(dma) /\ UNCHANGED frame_buffer_sem
       ELSE frame_buffer_sem' = 1 /\ UNCHANGED <<dma, dma2d, startedTwice>>
  /\ UNCHANGED <<pc, vsync_queue, hal, refresh, past>>

-----------------------------------------------------------------------------
Task ==
  \/ EnableInterrupts \/ DiscardVSync \/ WaitForVSync \/ SwapFrameBuffers \/ BeginFrame
  \/ SetAllowed \/ TryTakeSemaphore \/ Push \/ StartDMA \/ LockFrameBuffer \/ SpinUntilAllowed
  \/ TakeSemaphore \/ UnlockFrameBuffer \/ DrawingDone \/ FlushDMA \/ RequestRefresh

EndOfRefresh == LeftSent \/ RightSent

Blitting == TransferComplete \/ DMA2DCompleted \/ GoOn

Next == Task \/ TearingEffect \/ EndOfRefresh \/ Blitting

Spec == Init /\ [][Next]_vars

\* The scheduler shares the processor, a frame has finitely many operations, the panel
\* keeps sending its tearing effect, and the hardware completes what it has begun.
FairSpec ==
  /\ Spec /\ WF_vars(Task) /\ SF_vars(DrawingDone)
  /\ WF_vars(TearingEffect) /\ WF_vars(EndOfRefresh) /\ WF_vars(Blitting)

-----------------------------------------------------------------------------
(* Properties. *)

\* Nothing is drawn into the frame buffer while it is being sent, unless a tearing effect
\* overtakes the refresh: it unlocks the DMA because no further refresh is requested.  (Once
\* an operation has been started twice, the framework's account of the DMA2D is wrong.)
NotDrawnWhileSent ==
  displayRefreshing /\ (pc = "cpu" \/ dma2d.busy) => overtaken > 0 \/ startedTwice

\* Between lockFrameBuffer and unlockFrameBuffer the processor draws alone, and whoever draws
\* has taken the semaphore, which is what waitForFrameBufferSemaphore relies on.  An operation
\* that has been started twice is an exception: the handler gives the semaphore back after
\* the first completion.
ProcessorDrawsAlone ==
  ~startedTwice =>
    /\ pc = "cpu" => ~dma2d.busy
    /\ pc = "cpu" \/ dma2d.busy => frame_buffer_sem = 0

\* Nothing can go on before the gate opens.
Stopped == ~dma.isAllowed /\ (pc = "spin" \/ (dma.queue > 0 /\ ~dma.isRunning))

\* What lockDMAToFrontPorch says of the lock, and the tearing-effect callback of its use:
\* drawing waits for the end of an update that is going on, and for nothing else.  The task
\* must not be late.  It does not hold, because a tearing effect may overtake a refresh whose
\* own signal the task has discarded.
WaitsOnlyForUpdate == Stopped => displayRefreshing \/ late

\* It holds as long as no refresh is overtaken: a gate that has been shut is opened.
GateIsOpened == Stopped => displayRefreshing \/ late \/ overtook

\* beginFrame withdraws a request only when a refresh is sending, or has sent, all of the
\* last frame: waiting for a new tearing effect and asking for the refresh do not miss each
\* other as long as a refresh is overtaken at most once.
NoFrameLost ==
  [][refreshRequested /\ ~refreshRequested' => unsent \subseteq covers \/ startedTwice]_vars

\* When the task is not late and no refresh is overtaken, a frame reaches the panel whole ...
FrameReachesPanel == unsent # {} ~> unsent = {} \/ late \/ overtook

\* ... and the task always comes back to wait for the next one.
RenderingEnds == pc # "wait" ~> pc = "wait" \/ late \/ overtook

-----------------------------------------------------------------------------
(* Why they hold: the inductive invariant. *)

\* The queue has room for what is about to be queued, and the DMA2D runs on something.
QueueBounded ==
  /\ dma.isRunning \/ pc = "execute" => dma.queue > 0
  /\ pc = "push" => dma.queue < QueueLen

\* Operations are queued under the semaphore, and a frame ends without any.
SemaphoreHeld ==
  /\ dma.queue > 0 \/ pc = "push" => frame_buffer_sem = 0
  /\ pc \notin (Drawing \ {"cpu"}) \cup {"flush"} => dma.queue = 0

\* What the framework knows of the DMA2D is right: its hardware transfers, or has a completion
\* to report, only while isRunning says so.
HardwareKnown ==
  /\ pc \in Masked => handler = "idle"
  /\ ~startedTwice =>
       /\ dma2d.busy \/ dma2d.completed => dma.isRunning
       /\ ~(dma2d.busy /\ dma2d.completed)
       /\ handler = "popped" => pc \in (Drawing \ {"cpu"}) \cup {"flush"}
       /\ handler = "popped" \/ pc = "cpu" => frame_buffer_sem = 0

\* An operation is started twice only when the end of a refresh falls between the test and the
\* execution of a start, or between the halves of the handler; that refresh has been overtaken.
StartedOnce ==
  startedTwice \/ (dma.isRunning /\ (pc = "execute" \/ handler = "popped")) \/ overtaken # 0 =>
    overtook

\* A refresh begins between two frames and shuts the gate; until it ends or is overtaken,
\* the next frame gets no further than to the gate.
GateShut ==
  /\ refreshRequested => pc \in {"start", "discard", "wait", "swap", "begin"}
  /\ displayRefreshing /\ overtaken = 0 /\ ~startedTwice =>
       /\ lockDMAToPorch
       /\ pc \in Drawing \cup Ending =>
            /\ ~dma.isAllowed
            /\ ~dma.isRunning /\ handler = "idle" /\ pc \notin {"cpu", "execute"}
            /\ pc = "take" => dma.queue > 0

\* Who is stopped by a shut gate is stopped by a refresh, if the task has never been late and no
\* refresh overtaken.
GateOpens ==
  ~late /\ ~overtook =>
    /\ Woken /\ lockDMAToPorch => displayRefreshing
    /\ ~dma.isAllowed =>
         \/ displayRefreshing
         \/ dma.queue = 0 /\ pc \in {"start", "discard", "wait"} \cup Waking

\* The two flags of the framework between the end of a frame and the next one.
FlagsHandedOver ==
  /\ swapRequested => pc \in Ending \cup {"discard", "wait", "swap"}
  /\ pc = "request" /\ frameBufferUpdatedThisFrame => swapRequested
  /\ pc \notin Drawing \cup Ending /\ frameBufferUpdatedThisFrame => swapRequested
  /\ pc = "flush" => ~swapRequested

\* The refresh that is going on sends all of a frame that has been requested.
FrameCovered ==
  /\ displayRefreshing /\ updateRegion = "right" => unsent \cap covers \subseteq {"right"}
  /\ Overtakes <= 1 /\ ~startedTwice =>
       /\ refreshRequested /\ (Woken \/ (displayRefreshing /\ overtaken = 0)) =>
            unsent \subseteq covers
       /\ displayRefreshing /\ overtaken = 0 /\ pc \in Drawing \cup Ending
          /\ frameBufferUpdatedThisFrame => pc # "request" /\ dma.queue > 0

IInv ==
  /\ TypeOK /\ QueueBounded /\ SemaphoreHeld /\ HardwareKnown /\ StartedOnce
  /\ GateShut /\ GateOpens /\ FlagsHandedOver /\ FrameCovered
=============================================================================
