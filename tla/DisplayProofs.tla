---------------------------- MODULE DisplayProofs ----------------------------
(***************************************************************************)
(* Proofs about Display, for any length of the DMA2D's queue and any       *)
(* number of tearing effects during a refresh.                             *)
(***************************************************************************)
EXTENDS Display, TLAPS

DMA == [queue : 0..QueueLen, isRunning : BOOLEAN, isAllowed : BOOLEAN]

DMA2D == [busy : BOOLEAN, completed : BOOLEAN]

-----------------------------------------------------------------------------
(* What the steps make of the DMA2D. *)

\* execute.
LEMMA ExecuteFacts ==
  ASSUME NEW d \in DMA, dma2d \in DMA2D, startedTwice \in BOOLEAN, Execute(d)
  PROVE  /\ dma' \in DMA /\ dma'.queue = d.queue /\ dma'.isAllowed = d.isAllowed
         /\ dma'.isRunning = TRUE
         /\ dma2d' \in DMA2D /\ dma2d'.busy = TRUE /\ dma2d'.completed = dma2d.completed
         /\ startedTwice' = (startedTwice \/ d.isRunning) /\ startedTwice' \in BOOLEAN
BY DEF Execute, DMA, DMA2D

\* HAL::tick sets the gate only.
LEMMA GateFacts ==
  ASSUME TypeOK, SetAllowed
  PROVE  /\ dma' \in DMA /\ dma'.queue = dma.queue /\ dma'.isRunning = dma.isRunning
         /\ dma'.isAllowed = ~lockDMAToPorch
BY DEF TypeOK, SetAllowed, DMA

\* addToQueue, up to the tests of start.
LEMMA PushFacts ==
  ASSUME TypeOK, QueueBounded, Push
  PROVE  /\ dma' \in DMA /\ dma'.queue = dma.queue + 1
         /\ dma'.isAllowed = dma.isAllowed /\ dma'.isRunning = dma.isRunning
         /\ dma.isAllowed /\ ~dma.isRunning => pc' = "execute"
         /\ ~dma.isAllowed \/ dma.isRunning => pc' = "draw"
         /\ pc' \in {"execute", "draw"}
<1> DEFINE d == [dma EXCEPT !.queue = @ + 1]
<1>1. /\ d \in DMA /\ d.queue = dma.queue + 1 /\ d.queue > 0
      /\ d.isAllowed = dma.isAllowed /\ d.isRunning = dma.isRunning
  BY DisplayAssumption DEF TypeOK, QueueBounded, DMA, Push, Step
<1>2. dma' = d /\ pc' = IF Startable(d) THEN "execute" ELSE "draw"
  BY DEF Push, Step
<1> HIDE DEF d
<1> QED BY <1>1, <1>2 DEF Startable

\* The rest of start.
LEMMA StartFacts ==
  ASSUME TypeOK, StartDMA
  PROVE  /\ dma' \in DMA /\ dma'.queue = dma.queue /\ dma'.isAllowed = dma.isAllowed
         /\ dma'.isRunning = TRUE
         /\ dma2d' \in DMA2D /\ dma2d'.busy = TRUE /\ dma2d'.completed = dma2d.completed
         /\ startedTwice' = (startedTwice \/ dma.isRunning) /\ startedTwice' \in BOOLEAN
BY ExecuteFacts DEF TypeOK, StartDMA, DMA, DMA2D

\* The end of a refresh starts only what is not running.
LEMMA OpenFacts ==
  ASSUME TypeOK, QueueBounded, RightSent
  PROVE  /\ dma' \in DMA /\ dma'.queue = dma.queue /\ dma'.isAllowed = TRUE
         /\ dma'.isRunning = (dma.queue > 0)
         /\ dma2d' \in DMA2D /\ dma2d'.completed = dma2d.completed
         /\ dma2d'.busy = (dma2d.busy \/ (dma.queue > 0 /\ ~dma.isRunning))
         /\ startedTwice' = startedTwice
<1> DEFINE d == [dma EXCEPT !.isAllowed = TRUE]
<1>1. /\ d \in DMA /\ d.queue = dma.queue
      /\ d.isAllowed = TRUE /\ d.isRunning = dma.isRunning
  BY DEF TypeOK, DMA
<1>2. /\ Startable(d) => Execute(d)
      /\ ~Startable(d) => dma' = d /\ dma2d' = dma2d /\ startedTwice' = startedTwice
  BY DEF RightSent
<1> HIDE DEF d
<1>3. /\ dma.isRunning \in BOOLEAN /\ dma.queue \in Nat /\ (dma.isRunning => dma.queue > 0)
      /\ dma2d \in DMA2D /\ startedTwice \in BOOLEAN
  BY DisplayAssumption DEF TypeOK, QueueBounded, DMA2D
<1>4. CASE dma.queue > 0 /\ ~dma.isRunning
  <2>1. Execute(d)
    BY <1>1, <1>2, <1>4 DEF Startable
  <2>2. /\ dma' \in DMA /\ dma'.queue = d.queue /\ dma'.isAllowed = d.isAllowed
        /\ dma'.isRunning = TRUE
        /\ dma2d' \in DMA2D /\ dma2d'.busy = TRUE /\ dma2d'.completed = dma2d.completed
        /\ startedTwice' = (startedTwice \/ d.isRunning)
    BY <1>1, <1>3, <2>1, ExecuteFacts
  <2> QED BY <1>1, <1>3, <1>4, <2>2
<1>5. CASE ~(dma.queue > 0 /\ ~dma.isRunning)
  <2>1. dma' = d /\ dma2d' = dma2d /\ startedTwice' = startedTwice
    BY <1>1, <1>2, <1>5 DEF Startable
  <2> QED BY <1>1, <1>3, <1>5, <2>1 DEF DMA2D
<1> QED BY <1>4, <1>5

\* The hardware's part.
LEMMA TransferFacts ==
  ASSUME TypeOK, TransferComplete
  PROVE  dma2d.busy /\ dma2d' \in DMA2D /\ dma2d'.busy = FALSE /\ dma2d'.completed = TRUE
BY DEF TypeOK, TransferComplete, DMA2D

\* executeCompleted, up to the pop.
LEMMA PoppedFacts ==
  ASSUME TypeOK, QueueBounded, DMA2DCompleted
  PROVE  /\ dma' \in DMA /\ dma'.isAllowed = dma.isAllowed /\ dma'.isRunning = FALSE
         /\ dma.isRunning => dma.queue > 0 /\ dma'.queue = dma.queue - 1
         /\ ~dma.isRunning => dma'.queue = dma.queue
         /\ dma.queue \in 0..QueueLen /\ dma'.queue \in 0..QueueLen /\ dma.queue \in Nat
         /\ dma2d.completed /\ dma2d' \in DMA2D
         /\ dma2d'.completed = FALSE /\ dma2d'.busy = dma2d.busy
<1>1. /\ dma \in DMA /\ dma.queue \in 0..QueueLen /\ dma.isRunning \in BOOLEAN
      /\ dma.isRunning => dma.queue > 0
      /\ dma2d \in DMA2D
  BY DEF TypeOK, QueueBounded, DMA, DMA2D
<1>2. /\ dma2d.completed /\ dma2d' = [dma2d EXCEPT !.completed = FALSE]
      /\ dma.queue > 0 /\ dma.isRunning =>
           dma' = [dma EXCEPT !.queue = @ - 1, !.isRunning = FALSE]
      /\ ~(dma.queue > 0 /\ dma.isRunning) => dma' = dma
  BY DEF DMA2DCompleted, Popped
<1>3. dma2d.completed /\ dma2d' \in DMA2D /\ dma2d'.completed = FALSE /\ dma2d'.busy = dma2d.busy
  BY <1>1, <1>2 DEF DMA2D
<1>4. CASE dma.isRunning
  <2>1. dma.queue - 1 \in 0..QueueLen
    BY <1>1, <1>4, DisplayAssumption
  <2>2. dma' = [dma EXCEPT !.queue = dma.queue - 1, !.isRunning = FALSE]
    BY <1>1, <1>2, <1>4
  <2>3. /\ dma' \in DMA /\ dma'.isAllowed = dma.isAllowed /\ dma'.isRunning = FALSE
        /\ dma'.queue = dma.queue - 1
    BY <1>1, <2>1, <2>2 DEF DMA
  <2> QED BY <1>1, <1>3, <1>4, <2>1, <2>3, DisplayAssumption
<1>5. CASE ~dma.isRunning
  BY <1>1, <1>2, <1>3, <1>5, DisplayAssumption
<1> QED BY <1>4, <1>5

\* executeCompleted, after the pop.
LEMMA GoOnFacts ==
  ASSUME TypeOK, QueueBounded, GoOn
  PROVE  /\ dma' \in DMA /\ dma'.queue = dma.queue /\ dma'.isAllowed = dma.isAllowed
         /\ dma'.isRunning = (dma.queue > 0)
         /\ dma2d' \in DMA2D /\ dma2d'.completed = dma2d.completed
         /\ dma2d'.busy = (dma2d.busy \/ dma.queue > 0)
         /\ startedTwice' = (startedTwice \/ dma.isRunning)
         /\ dma.queue \in Nat
         /\ dma.queue > 0 => frame_buffer_sem' = frame_buffer_sem
         /\ dma.queue = 0 => frame_buffer_sem' = 1
<1>1. /\ dma \in DMA /\ dma2d \in DMA2D /\ startedTwice \in BOOLEAN
      /\ dma.queue \in Nat /\ dma.isRunning \in BOOLEAN /\ (dma.isRunning => dma.queue > 0)
      /\ dma2d.busy \in BOOLEAN
  BY DisplayAssumption DEF TypeOK, QueueBounded, DMA, DMA2D
<1>2. CASE dma.queue > 0
  <2>1. Execute(dma) /\ frame_buffer_sem' = frame_buffer_sem
    BY <1>2 DEF GoOn
  <2>2. /\ dma' \in DMA /\ dma'.queue = dma.queue /\ dma'.isAllowed = dma.isAllowed
        /\ dma'.isRunning = TRUE
        /\ dma2d' \in DMA2D /\ dma2d'.busy = TRUE /\ dma2d'.completed = dma2d.completed
        /\ startedTwice' = (startedTwice \/ dma.isRunning)
    BY <1>1, <2>1, ExecuteFacts
  <2>3. (dma.queue > 0) = TRUE /\ (dma2d.busy \/ dma.queue > 0) = TRUE /\ dma.queue # 0
    BY <1>1, <1>2
  <2> QED BY <1>1, <1>2, <2>1, <2>2, <2>3
<1>3. CASE ~(dma.queue > 0)
  <2>1. dma.queue = 0
    BY <1>1, <1>3
  <2>2. frame_buffer_sem' = 1 /\ UNCHANGED <<dma, dma2d, startedTwice>>
    BY <1>3 DEF GoOn
  <2> QED BY <1>1, <1>3, <2>1, <2>2
<1> QED BY <1>2, <1>3

-----------------------------------------------------------------------------
(* The parts of the invariant, each kept by every step. *)

\* The interrupts keep the types.
LEMMA TearingType ==
  ASSUME TypeOK, QueueBounded, TearingEffect
  PROVE  TypeOK' /\ QueueBounded'
<1>1. /\ UNCHANGED <<pc, frame_buffer_sem, blit, refreshRequested, unsent>>
      /\ vsync_queue' = 1 /\ lockDMAToPorch' = refreshRequested
      /\ overtook' \in BOOLEAN /\ late' \in BOOLEAN
  BY DEF TearingEffect
<1>2. CASE refreshRequested /\ ~displayRefreshing
  <2>1. /\ displayRefreshing' = TRUE /\ updateRegion' = "left"
        /\ covers' = Half /\ overtaken' = 0 /\ swapRequested' = FALSE
        /\ frameBufferUpdatedThisFrame' \in BOOLEAN
    BY <1>2 DEF TearingEffect, Swapped, TypeOK
  <2>2. /\ updateRegion' \in Half /\ covers' \subseteq Half /\ unsent' \subseteq Half
        /\ overtaken' \in 0..Overtakes
    BY <1>1, <2>1, DisplayAssumption DEF TypeOK, Half
  <2>3. pc' \in {"start", "discard", "wait"} \cup Waking \cup Drawing \cup Ending
    BY <1>1 DEF TypeOK
  <2>4. /\ dma' \in [queue : 0..QueueLen, isRunning : BOOLEAN, isAllowed : BOOLEAN]
        /\ dma2d' \in [busy : BOOLEAN, completed : BOOLEAN] /\ handler' \in {"idle", "popped"}
        /\ startedTwice' \in BOOLEAN
    BY <1>1 DEF TypeOK, blit
  <2>5. vsync_queue' \in 0..1 /\ frame_buffer_sem' \in 0..1
    BY <1>1 DEF TypeOK
  <2>6. /\ refreshRequested' \in BOOLEAN /\ lockDMAToPorch' \in BOOLEAN
        /\ displayRefreshing' \in BOOLEAN /\ swapRequested' \in BOOLEAN
    <3>1. refreshRequested \in BOOLEAN
      BY DEF TypeOK
    <3> QED BY <1>1, <2>1, <3>1
  <2>7. TypeOK'
    BY <1>1, <2>1, <2>2, <2>3, <2>4, <2>5, <2>6 DEF TypeOK
  <2>8. QueueBounded'
    BY <1>1 DEF QueueBounded, blit
  <2> QED BY <2>7, <2>8
<1>3. CASE ~(refreshRequested /\ ~displayRefreshing)
  <2>1. /\ UNCHANGED <<displayRefreshing, updateRegion, covers, swapRequested,
                       frameBufferUpdatedThisFrame>>
        /\ overtaken' = IF displayRefreshing THEN overtaken + 1 ELSE overtaken
        /\ displayRefreshing => overtaken < Overtakes
    BY <1>3 DEF TearingEffect
  <2>2. overtaken' \in 0..Overtakes
    BY <2>1, DisplayAssumption DEF TypeOK
  <2> QED BY <1>1, <2>1, <2>2 DEF TypeOK, QueueBounded, blit
<1> QED BY <1>2, <1>3

\* The end of a refresh keeps the types.
LEMMA RightSentType ==
  ASSUME TypeOK, QueueBounded, RightSent
  PROVE  TypeOK' /\ QueueBounded'
<1>1. /\ UNCHANGED <<pc, vsync_queue, frame_buffer_sem, handler, lockDMAToPorch, swapRequested,
                     frameBufferUpdatedThisFrame, refreshRequested, updateRegion,
                     overtaken, overtook>>
      /\ displayRefreshing' = FALSE /\ unsent' \subseteq unsent /\ covers' = {}
      /\ late' \in BOOLEAN
  BY DEF RightSent, hal
<1>2. /\ dma' \in DMA /\ dma'.queue = dma.queue /\ dma'.isRunning = (dma.queue > 0)
      /\ dma2d' \in DMA2D /\ startedTwice' = startedTwice
  BY OpenFacts
<1>3. TypeOK'
  BY <1>1, <1>2 DEF TypeOK, DMA, DMA2D
<1>4. QueueBounded'
  BY <1>1, <1>2 DEF QueueBounded
<1> QED BY <1>3, <1>4

\* The DMA2D's queue neither overflows nor runs empty under it.
LEMMA TypeStep ==
  ASSUME TypeOK, QueueBounded, [Next]_vars
  PROVE  TypeOK' /\ QueueBounded'
<1> USE DEF TypeOK, hal, refresh, past, blit, Step, Half, Waking, Drawing, Ending, Masked
<1>1. CASE EnableInterrupts
  BY <1>1 DEF EnableInterrupts, QueueBounded
<1>2. CASE DiscardVSync
  BY <1>2 DEF DiscardVSync, QueueBounded
<1>3. CASE WaitForVSync
  BY <1>3 DEF WaitForVSync, QueueBounded
<1>4. CASE SwapFrameBuffers
  <2>1. /\ UNCHANGED <<vsync_queue, frame_buffer_sem, lockDMAToPorch, blit, refresh, past>>
        /\ pc = "swap" /\ pc' = "begin"
        /\ swapRequested' \in BOOLEAN /\ frameBufferUpdatedThisFrame' \in BOOLEAN
    BY <1>4 DEF SwapFrameBuffers, Swapped
  <2>2. TypeOK'
    BY <2>1
  <2>3. QueueBounded'
    BY <2>1 DEF QueueBounded
  <2> QED BY <2>2, <2>3
<1>5. CASE BeginFrame
  <2>1. /\ UNCHANGED <<vsync_queue, frame_buffer_sem, blit, hal, displayRefreshing, updateRegion,
                       past>>
        /\ pc = "begin" /\ pc' = "gate" /\ refreshRequested' \in BOOLEAN
    BY <1>5 DEF BeginFrame
  <2>2. TypeOK'
    BY <2>1
  <2>3. QueueBounded'
    BY <2>1 DEF QueueBounded
  <2> QED BY <2>2, <2>3
<1>6. CASE SetAllowed
  BY <1>6, GateFacts, DisplayAssumption DEF SetAllowed, QueueBounded, DMA, DMA2D
<1>7. CASE TryTakeSemaphore
  BY <1>7 DEF TryTakeSemaphore, QueueBounded
<1>8. CASE Push
  BY <1>8, PushFacts, DisplayAssumption DEF Push, QueueBounded, DMA, DMA2D
<1>9. CASE StartDMA
  <2>1. /\ UNCHANGED <<vsync_queue, frame_buffer_sem, handler, hal, refresh, past>>
        /\ pc = "execute" /\ pc' = "draw"
    BY <1>9 DEF StartDMA
  <2>2. /\ dma' \in DMA /\ dma2d' \in DMA2D /\ startedTwice' \in BOOLEAN
        /\ dma'.queue = dma.queue
    BY <1>9, StartFacts
  <2>3. TypeOK'
    BY <2>1, <2>2 DEF DMA, DMA2D
  <2>4. QueueBounded'
    BY <2>1, <2>2 DEF QueueBounded
  <2> QED BY <2>3, <2>4
<1>10. CASE LockFrameBuffer
  BY <1>10 DEF LockFrameBuffer, QueueBounded
<1>11. CASE SpinUntilAllowed
  BY <1>11 DEF SpinUntilAllowed, QueueBounded
<1>12. CASE TakeSemaphore
  BY <1>12 DEF TakeSemaphore, QueueBounded
<1>13. CASE UnlockFrameBuffer
  BY <1>13 DEF UnlockFrameBuffer, QueueBounded
<1>14. CASE DrawingDone
  BY <1>14 DEF DrawingDone, QueueBounded
<1>15. CASE FlushDMA
  BY <1>15 DEF FlushDMA, QueueBounded
<1>16. CASE RequestRefresh
  <2>1. /\ UNCHANGED <<vsync_queue, frame_buffer_sem, blit, hal, displayRefreshing, updateRegion,
                       overtaken, overtook, late>>
        /\ pc = "request" /\ pc' = "discard"
    BY <1>16 DEF RequestRefresh
  <2>2. refreshRequested' \in BOOLEAN /\ unsent' \subseteq Half /\ covers' \subseteq Half
    BY <1>16 DEF RequestRefresh
  <2>3. TypeOK'
    BY <2>1, <2>2
  <2>4. QueueBounded'
    BY <2>1 DEF QueueBounded
  <2> QED BY <2>3, <2>4
<1>17. CASE TearingEffect
  BY <1>17, TearingType
<1>18. CASE LeftSent
  BY <1>18 DEF LeftSent, QueueBounded
<1>19. CASE RightSent
  BY <1>19, RightSentType
<1>20. CASE TransferComplete
  BY <1>20, TransferFacts, DisplayAssumption DEF TransferComplete, QueueBounded, DMA, DMA2D
<1>21. CASE DMA2DCompleted
  <2>1. /\ UNCHANGED <<pc, vsync_queue, frame_buffer_sem, startedTwice, hal, refresh, past>>
        /\ handler' = "popped" /\ pc \notin Masked
    BY <1>21 DEF DMA2DCompleted, Popped
  <2>2. TypeOK'
    <3>1. dma' \in DMA /\ dma2d' \in DMA2D
      BY <1>21, PoppedFacts
    <3>2. handler' \in {"idle", "popped"}
      BY <2>1
    <3> QED BY <2>1, <3>1, <3>2 DEF DMA, DMA2D
  <2> QED BY <1>21, PoppedFacts, <2>1, <2>2 DEF QueueBounded
<1>22. CASE GoOn
  <2>1. /\ UNCHANGED <<pc, vsync_queue, hal, refresh, past>>
        /\ frame_buffer_sem' = frame_buffer_sem \/ frame_buffer_sem' = 1
        /\ handler' = "idle"
    BY <1>22 DEF GoOn
  <2>2. startedTwice' \in BOOLEAN
    BY <1>22, GoOnFacts
  <2>3. TypeOK'
    <3>1. dma' \in DMA /\ dma2d' \in DMA2D
      BY <1>22, GoOnFacts
    <3>2. handler' \in {"idle", "popped"}
      BY <2>1
    <3> QED BY <2>1, <2>2, <3>1, <3>2 DEF DMA, DMA2D
  <2> QED BY <1>22, GoOnFacts, <2>1, <2>3 DEF QueueBounded
<1>23. CASE UNCHANGED vars
  BY <1>23 DEF vars, QueueBounded
<1> QED BY <1>1, <1>2, <1>3, <1>4, <1>5, <1>6, <1>7, <1>8, <1>9, <1>10, <1>11, <1>12, <1>13,
   <1>14, <1>15, <1>16, <1>17, <1>18, <1>19, <1>20, <1>21, <1>22, <1>23 DEF Next, Task,
   EndOfRefresh, Blitting

\* A frame ends without operations because FlushDMA needs the semaphore.
LEMMA SemaphoreStep ==
  ASSUME TypeOK, QueueBounded, SemaphoreHeld, HardwareKnown, [Next]_vars
  PROVE  SemaphoreHeld'
<1> USE DEF TypeOK, hal, refresh, past, blit, Step, Half, Waking, Drawing, Ending, Masked
<1>1. CASE EnableInterrupts
  BY <1>1 DEF EnableInterrupts, SemaphoreHeld, HardwareKnown
<1>2. CASE DiscardVSync
  BY <1>2 DEF DiscardVSync, SemaphoreHeld, HardwareKnown
<1>3. CASE WaitForVSync
  BY <1>3 DEF WaitForVSync, SemaphoreHeld, HardwareKnown
<1>4. CASE SwapFrameBuffers
  BY <1>4 DEF SwapFrameBuffers, Swapped, SemaphoreHeld, HardwareKnown
<1>5. CASE BeginFrame
  BY <1>5 DEF BeginFrame, SemaphoreHeld, HardwareKnown
<1>6. CASE SetAllowed
  BY <1>6, GateFacts DEF SetAllowed, SemaphoreHeld, HardwareKnown
<1>7. CASE TryTakeSemaphore
  BY <1>7 DEF TryTakeSemaphore, SemaphoreHeld, HardwareKnown
<1>8. CASE Push
  BY <1>8, PushFacts DEF Push, SemaphoreHeld, HardwareKnown
<1>9. CASE StartDMA
  BY <1>9, StartFacts DEF StartDMA, SemaphoreHeld, HardwareKnown
<1>10. CASE LockFrameBuffer
  BY <1>10 DEF LockFrameBuffer, SemaphoreHeld, HardwareKnown
<1>11. CASE SpinUntilAllowed
  BY <1>11 DEF SpinUntilAllowed, SemaphoreHeld, HardwareKnown
<1>12. CASE TakeSemaphore
  BY <1>12 DEF TakeSemaphore, SemaphoreHeld, HardwareKnown
<1>13. CASE UnlockFrameBuffer
  BY <1>13 DEF UnlockFrameBuffer, SemaphoreHeld, HardwareKnown
<1>14. CASE DrawingDone
  BY <1>14 DEF DrawingDone, SemaphoreHeld, HardwareKnown
<1>15. CASE FlushDMA
  BY <1>15 DEF FlushDMA, SemaphoreHeld, HardwareKnown
<1>16. CASE RequestRefresh
  BY <1>16 DEF RequestRefresh, SemaphoreHeld, HardwareKnown
<1>17. CASE TearingEffect
  BY <1>17 DEF TearingEffect, Swapped, SemaphoreHeld, HardwareKnown
<1>18. CASE LeftSent
  BY <1>18 DEF LeftSent, SemaphoreHeld, HardwareKnown
<1>19. CASE RightSent
  BY <1>19, OpenFacts DEF RightSent, SemaphoreHeld, HardwareKnown
<1>20. CASE TransferComplete
  BY <1>20, TransferFacts DEF TransferComplete, SemaphoreHeld, HardwareKnown
<1>21. CASE DMA2DCompleted
  BY <1>21, PoppedFacts DEF DMA2DCompleted, Popped, SemaphoreHeld, HardwareKnown
<1>22. CASE GoOn
  BY <1>22, GoOnFacts DEF GoOn, SemaphoreHeld, HardwareKnown
<1>23. CASE UNCHANGED vars
  BY <1>23 DEF vars, SemaphoreHeld, HardwareKnown
<1> QED BY <1>1, <1>2, <1>3, <1>4, <1>5, <1>6, <1>7, <1>8, <1>9, <1>10, <1>11, <1>12, <1>13,
   <1>14, <1>15, <1>16, <1>17, <1>18, <1>19, <1>20, <1>21, <1>22, <1>23 DEF Next, Task,
   EndOfRefresh, Blitting

\* The hardware works on what the queue says, as long as no operation is started twice.
LEMMA HardwareStep ==
  ASSUME TypeOK, QueueBounded, SemaphoreHeld, HardwareKnown, [Next]_vars
  PROVE  HardwareKnown'
<1> USE DEF TypeOK, hal, refresh, past, blit, Step, Half, Waking, Drawing, Ending, Masked
<1>1. CASE EnableInterrupts
  BY <1>1 DEF EnableInterrupts, QueueBounded, SemaphoreHeld, HardwareKnown
<1>2. CASE DiscardVSync
  BY <1>2 DEF DiscardVSync, QueueBounded, SemaphoreHeld, HardwareKnown
<1>3. CASE WaitForVSync
  BY <1>3 DEF WaitForVSync, QueueBounded, SemaphoreHeld, HardwareKnown
<1>4. CASE SwapFrameBuffers
  BY <1>4 DEF SwapFrameBuffers, Swapped, QueueBounded, SemaphoreHeld, HardwareKnown
<1>5. CASE BeginFrame
  BY <1>5 DEF BeginFrame, QueueBounded, SemaphoreHeld, HardwareKnown
<1>6. CASE SetAllowed
  BY <1>6, GateFacts DEF SetAllowed, QueueBounded, SemaphoreHeld, HardwareKnown
<1>7. CASE TryTakeSemaphore
  BY <1>7 DEF TryTakeSemaphore, QueueBounded, SemaphoreHeld, HardwareKnown
<1>8. CASE Push
  BY <1>8, PushFacts DEF Push, QueueBounded, SemaphoreHeld, HardwareKnown
<1>9. CASE StartDMA
  BY <1>9, StartFacts DEF StartDMA, QueueBounded, SemaphoreHeld, HardwareKnown
<1>10. CASE LockFrameBuffer
  BY <1>10 DEF LockFrameBuffer, QueueBounded, SemaphoreHeld, HardwareKnown
<1>11. CASE SpinUntilAllowed
  BY <1>11 DEF SpinUntilAllowed, QueueBounded, SemaphoreHeld, HardwareKnown
<1>12. CASE TakeSemaphore
  BY <1>12 DEF TakeSemaphore, QueueBounded, SemaphoreHeld, HardwareKnown
<1>13. CASE UnlockFrameBuffer
  BY <1>13 DEF UnlockFrameBuffer, QueueBounded, SemaphoreHeld, HardwareKnown
<1>14. CASE DrawingDone
  BY <1>14 DEF DrawingDone, QueueBounded, SemaphoreHeld, HardwareKnown
<1>15. CASE FlushDMA
  BY <1>15 DEF FlushDMA, QueueBounded, SemaphoreHeld, HardwareKnown
<1>16. CASE RequestRefresh
  BY <1>16 DEF RequestRefresh, QueueBounded, SemaphoreHeld, HardwareKnown
<1>17. CASE TearingEffect
  BY <1>17 DEF TearingEffect, Swapped, QueueBounded, SemaphoreHeld, HardwareKnown
<1>18. CASE LeftSent
  BY <1>18 DEF LeftSent, QueueBounded, SemaphoreHeld, HardwareKnown
<1>19. CASE RightSent
  BY <1>19, OpenFacts DEF RightSent, QueueBounded, SemaphoreHeld, HardwareKnown
<1>20. CASE TransferComplete
  BY <1>20, TransferFacts DEF TransferComplete, QueueBounded, SemaphoreHeld, HardwareKnown
<1>21. CASE DMA2DCompleted
  BY <1>21, PoppedFacts DEF DMA2DCompleted, Popped, QueueBounded, SemaphoreHeld, HardwareKnown
<1>22. CASE GoOn
  BY <1>22, GoOnFacts DEF GoOn, QueueBounded, SemaphoreHeld, HardwareKnown
<1>23. CASE UNCHANGED vars
  BY <1>23 DEF vars, QueueBounded, SemaphoreHeld, HardwareKnown
<1> QED BY <1>1, <1>2, <1>3, <1>4, <1>5, <1>6, <1>7, <1>8, <1>9, <1>10, <1>11, <1>12, <1>13,
   <1>14, <1>15, <1>16, <1>17, <1>18, <1>19, <1>20, <1>21, <1>22, <1>23 DEF Next, Task,
   EndOfRefresh, Blitting

\* Only the end of a refresh starts an operation behind someone's back, and only of one that
\* has been overtaken.
LEMMA StartedStep ==
  ASSUME TypeOK, QueueBounded, HardwareKnown, GateShut, StartedOnce, [Next]_vars
  PROVE  StartedOnce'
<1> USE DEF TypeOK, hal, refresh, past, blit, Step, Half, Waking, Drawing, Ending, Masked
<1>1. CASE EnableInterrupts
  BY <1>1 DEF EnableInterrupts, StartedOnce, HardwareKnown, GateShut
<1>2. CASE DiscardVSync
  BY <1>2 DEF DiscardVSync, StartedOnce, HardwareKnown, GateShut
<1>3. CASE WaitForVSync
  BY <1>3 DEF WaitForVSync, StartedOnce, HardwareKnown, GateShut
<1>4. CASE SwapFrameBuffers
  BY <1>4 DEF SwapFrameBuffers, Swapped, StartedOnce, HardwareKnown, GateShut
<1>5. CASE BeginFrame
  BY <1>5 DEF BeginFrame, StartedOnce, HardwareKnown, GateShut
<1>6. CASE SetAllowed
  BY <1>6, GateFacts DEF SetAllowed, StartedOnce, HardwareKnown, GateShut
<1>7. CASE TryTakeSemaphore
  BY <1>7 DEF TryTakeSemaphore, StartedOnce, HardwareKnown, GateShut
<1>8. CASE Push
  BY <1>8, PushFacts DEF Push, StartedOnce, HardwareKnown, GateShut
<1>9. CASE StartDMA
  BY <1>9, StartFacts DEF StartDMA, StartedOnce, HardwareKnown, GateShut
<1>10. CASE LockFrameBuffer
  BY <1>10 DEF LockFrameBuffer, StartedOnce, HardwareKnown, GateShut
<1>11. CASE SpinUntilAllowed
  BY <1>11 DEF SpinUntilAllowed, StartedOnce, HardwareKnown, GateShut
<1>12. CASE TakeSemaphore
  BY <1>12 DEF TakeSemaphore, StartedOnce, HardwareKnown, GateShut
<1>13. CASE UnlockFrameBuffer
  BY <1>13 DEF UnlockFrameBuffer, StartedOnce, HardwareKnown, GateShut
<1>14. CASE DrawingDone
  BY <1>14 DEF DrawingDone, StartedOnce, HardwareKnown, GateShut
<1>15. CASE FlushDMA
  BY <1>15 DEF FlushDMA, StartedOnce, HardwareKnown, GateShut
<1>16. CASE RequestRefresh
  BY <1>16 DEF RequestRefresh, StartedOnce, HardwareKnown, GateShut
<1>17. CASE TearingEffect
  BY <1>17 DEF TearingEffect, Swapped, StartedOnce, HardwareKnown, GateShut
<1>18. CASE LeftSent
  BY <1>18 DEF LeftSent, StartedOnce, HardwareKnown, GateShut
<1>19. CASE RightSent
  <2>1. /\ UNCHANGED <<pc, handler, overtaken, overtook>> /\ displayRefreshing
        /\ startedTwice' = startedTwice
    BY <1>19, OpenFacts DEF RightSent
  <2>2. ASSUME startedTwice \/ pc = "execute" \/ handler = "popped" \/ overtaken # 0
        PROVE  overtook
    <3>1. CASE startedTwice \/ overtaken # 0
      BY <3>1 DEF StartedOnce
    <3>2. CASE ~startedTwice /\ overtaken = 0
      <4>1. pc \in Drawing \cup Ending /\ ~(handler = "idle" /\ pc # "execute")
        BY <2>2, <3>2 DEF HardwareKnown
      <4> QED BY <2>1, <3>2, <4>1 DEF GateShut
    <3> QED BY <3>1, <3>2
  <2> QED BY <2>1, <2>2 DEF StartedOnce
<1>20. CASE TransferComplete
  BY <1>20, TransferFacts DEF TransferComplete, StartedOnce, HardwareKnown, GateShut
<1>21. CASE DMA2DCompleted
  BY <1>21, PoppedFacts DEF DMA2DCompleted, Popped, StartedOnce, HardwareKnown, GateShut
<1>22. CASE GoOn
  BY <1>22, GoOnFacts DEF GoOn, StartedOnce, HardwareKnown, GateShut
<1>23. CASE UNCHANGED vars
  BY <1>23 DEF vars, StartedOnce, HardwareKnown, GateShut
<1> QED BY <1>1, <1>2, <1>3, <1>4, <1>5, <1>6, <1>7, <1>8, <1>9, <1>10, <1>11, <1>12, <1>13,
   <1>14, <1>15, <1>16, <1>17, <1>18, <1>19, <1>20, <1>21, <1>22, <1>23 DEF Next, Task,
   EndOfRefresh, Blitting

\* A refresh begins only while one is requested, and that is between two frames.
LEMMA GateShutStep ==
  ASSUME TypeOK, QueueBounded, SemaphoreHeld, HardwareKnown, GateShut, [Next]_vars
  PROVE  GateShut'
<1> USE DEF TypeOK, hal, refresh, past, blit, Step, Half, Waking, Drawing, Ending, Masked
<1>1. CASE EnableInterrupts
  BY <1>1 DEF EnableInterrupts, QueueBounded, SemaphoreHeld, HardwareKnown, GateShut
<1>2. CASE DiscardVSync
  BY <1>2 DEF DiscardVSync, QueueBounded, SemaphoreHeld, HardwareKnown, GateShut
<1>3. CASE WaitForVSync
  BY <1>3 DEF WaitForVSync, QueueBounded, SemaphoreHeld, HardwareKnown, GateShut
<1>4. CASE SwapFrameBuffers
  BY <1>4 DEF SwapFrameBuffers, Swapped, QueueBounded, SemaphoreHeld, HardwareKnown, GateShut
<1>5. CASE BeginFrame
  BY <1>5 DEF BeginFrame, QueueBounded, SemaphoreHeld, HardwareKnown, GateShut
<1>6. CASE SetAllowed
  BY <1>6, GateFacts DEF SetAllowed, QueueBounded, SemaphoreHeld, HardwareKnown, GateShut
<1>7. CASE TryTakeSemaphore
  BY <1>7 DEF TryTakeSemaphore, QueueBounded, SemaphoreHeld, HardwareKnown, GateShut
<1>8. CASE Push
  BY <1>8, PushFacts DEF Push, QueueBounded, SemaphoreHeld, HardwareKnown, GateShut
<1>9. CASE StartDMA
  BY <1>9, StartFacts DEF StartDMA, QueueBounded, SemaphoreHeld, HardwareKnown, GateShut
<1>10. CASE LockFrameBuffer
  BY <1>10 DEF LockFrameBuffer, QueueBounded, SemaphoreHeld, HardwareKnown, GateShut
<1>11. CASE SpinUntilAllowed
  BY <1>11 DEF SpinUntilAllowed, QueueBounded, SemaphoreHeld, HardwareKnown, GateShut
<1>12. CASE TakeSemaphore
  BY <1>12 DEF TakeSemaphore, QueueBounded, SemaphoreHeld, HardwareKnown, GateShut
<1>13. CASE UnlockFrameBuffer
  BY <1>13 DEF UnlockFrameBuffer, QueueBounded, SemaphoreHeld, HardwareKnown, GateShut
<1>14. CASE DrawingDone
  BY <1>14 DEF DrawingDone, QueueBounded, SemaphoreHeld, HardwareKnown, GateShut
<1>15. CASE FlushDMA
  BY <1>15 DEF FlushDMA, QueueBounded, SemaphoreHeld, HardwareKnown, GateShut
<1>16. CASE RequestRefresh
  BY <1>16 DEF RequestRefresh, QueueBounded, SemaphoreHeld, HardwareKnown, GateShut
<1>17. CASE TearingEffect
  BY <1>17 DEF TearingEffect, Swapped, QueueBounded, SemaphoreHeld, HardwareKnown, GateShut
<1>18. CASE LeftSent
  BY <1>18 DEF LeftSent, QueueBounded, SemaphoreHeld, HardwareKnown, GateShut
<1>19. CASE RightSent
  BY <1>19, OpenFacts DEF RightSent, QueueBounded, SemaphoreHeld, HardwareKnown, GateShut
<1>20. CASE TransferComplete
  BY <1>20, TransferFacts DEF TransferComplete, QueueBounded, SemaphoreHeld, HardwareKnown,
     GateShut
<1>21. CASE DMA2DCompleted
  BY <1>21, PoppedFacts DEF DMA2DCompleted, Popped, QueueBounded, SemaphoreHeld, HardwareKnown,
     GateShut
<1>22. CASE GoOn
  BY <1>22, GoOnFacts DEF GoOn, QueueBounded, SemaphoreHeld, HardwareKnown, GateShut
<1>23. CASE UNCHANGED vars
  BY <1>23 DEF vars, QueueBounded, SemaphoreHeld, HardwareKnown, GateShut
<1> QED BY <1>1, <1>2, <1>3, <1>4, <1>5, <1>6, <1>7, <1>8, <1>9, <1>10, <1>11, <1>12, <1>13,
   <1>14, <1>15, <1>16, <1>17, <1>18, <1>19, <1>20, <1>21, <1>22, <1>23 DEF Next, Task,
   EndOfRefresh, Blitting

\* Only SetAllowed shuts the gate, and a task that is not late finds the refresh still going on.
LEMMA GateOpensStep ==
  ASSUME TypeOK, QueueBounded, StartedOnce, GateShut, GateOpens, [Next]_vars
  PROVE  GateOpens'
<1> USE DEF TypeOK, hal, refresh, past, blit, Step, Half, Waking, Drawing, Ending, Masked
<1>1. CASE EnableInterrupts
  BY <1>1 DEF EnableInterrupts, GateShut, GateOpens, Woken
<1>2. CASE DiscardVSync
  BY <1>2 DEF DiscardVSync, GateShut, GateOpens, Woken
<1>3. CASE WaitForVSync
  BY <1>3 DEF WaitForVSync, GateShut, GateOpens, Woken
<1>4. CASE SwapFrameBuffers
  BY <1>4 DEF SwapFrameBuffers, Swapped, GateShut, GateOpens, Woken
<1>5. CASE BeginFrame
  BY <1>5 DEF BeginFrame, GateShut, GateOpens, Woken
<1>6. CASE SetAllowed
  BY <1>6, GateFacts DEF SetAllowed, GateShut, GateOpens, Woken
<1>7. CASE TryTakeSemaphore
  BY <1>7 DEF TryTakeSemaphore, GateShut, GateOpens, Woken
<1>8. CASE Push
  BY <1>8, PushFacts DEF Push, GateShut, GateOpens, Woken
<1>9. CASE StartDMA
  BY <1>9, StartFacts DEF StartDMA, GateShut, GateOpens, Woken
<1>10. CASE LockFrameBuffer
  BY <1>10 DEF LockFrameBuffer, GateShut, GateOpens, Woken
<1>11. CASE SpinUntilAllowed
  BY <1>11 DEF SpinUntilAllowed, GateShut, GateOpens, Woken
<1>12. CASE TakeSemaphore
  BY <1>12 DEF TakeSemaphore, GateShut, GateOpens, Woken
<1>13. CASE UnlockFrameBuffer
  BY <1>13 DEF UnlockFrameBuffer, GateShut, GateOpens, Woken
<1>14. CASE DrawingDone
  BY <1>14 DEF DrawingDone, GateShut, GateOpens, Woken
<1>15. CASE FlushDMA
  BY <1>15 DEF FlushDMA, GateShut, GateOpens, Woken
<1>16. CASE RequestRefresh
  BY <1>16 DEF RequestRefresh, GateShut, GateOpens, Woken
<1>17. CASE TearingEffect
  BY <1>17 DEF TearingEffect, Swapped, GateShut, GateOpens, Woken
<1>18. CASE LeftSent
  BY <1>18 DEF LeftSent, GateShut, GateOpens, Woken
<1>19. CASE RightSent
  <2>1. /\ UNCHANGED <<pc, vsync_queue, overtook>> /\ dma'.isAllowed = TRUE
        /\ displayRefreshing /\ late' = (late \/ Late)
    BY <1>19, OpenFacts DEF RightSent
  <2>2. ~late' /\ ~overtook' => ~Woken
    BY <2>1 DEF StartedOnce, Late
  <2>3. ~late' /\ ~overtook' => ~Woken'
    BY <2>1, <2>2 DEF Woken
  <2> QED BY <2>1, <2>3 DEF GateOpens
<1>20. CASE TransferComplete
  BY <1>20, TransferFacts DEF TransferComplete, GateShut, GateOpens, Woken
<1>21. CASE DMA2DCompleted
  BY <1>21, PoppedFacts DEF DMA2DCompleted, Popped, GateShut, GateOpens, Woken
<1>22. CASE GoOn
  BY <1>22, GoOnFacts DEF GoOn, GateShut, GateOpens, Woken
<1>23. CASE UNCHANGED vars
  BY <1>23 DEF vars, GateShut, GateOpens, Woken
<1> QED BY <1>1, <1>2, <1>3, <1>4, <1>5, <1>6, <1>7, <1>8, <1>9, <1>10, <1>11, <1>12, <1>13,
   <1>14, <1>15, <1>16, <1>17, <1>18, <1>19, <1>20, <1>21, <1>22, <1>23 DEF Next, Task,
   EndOfRefresh, Blitting

\* The flags of a frame are cleared before the next one is drawn.
LEMMA FlagsStep ==
  ASSUME TypeOK, GateShut, FlagsHandedOver, [Next]_vars
  PROVE  FlagsHandedOver'
<1> USE DEF TypeOK, hal, refresh, past, blit, Step, Half, Waking, Drawing, Ending, Masked
<1>1. CASE EnableInterrupts
  BY <1>1 DEF EnableInterrupts, GateShut, FlagsHandedOver
<1>2. CASE DiscardVSync
  BY <1>2 DEF DiscardVSync, GateShut, FlagsHandedOver
<1>3. CASE WaitForVSync
  BY <1>3 DEF WaitForVSync, GateShut, FlagsHandedOver
<1>4. CASE SwapFrameBuffers
  BY <1>4 DEF SwapFrameBuffers, Swapped, GateShut, FlagsHandedOver
<1>5. CASE BeginFrame
  BY <1>5 DEF BeginFrame, GateShut, FlagsHandedOver
<1>6. CASE SetAllowed
  BY <1>6 DEF SetAllowed, GateShut, FlagsHandedOver
<1>7. CASE TryTakeSemaphore
  BY <1>7 DEF TryTakeSemaphore, GateShut, FlagsHandedOver
<1>8. CASE Push
  BY <1>8 DEF Push, GateShut, FlagsHandedOver
<1>9. CASE StartDMA
  BY <1>9 DEF StartDMA, GateShut, FlagsHandedOver
<1>10. CASE LockFrameBuffer
  BY <1>10 DEF LockFrameBuffer, GateShut, FlagsHandedOver
<1>11. CASE SpinUntilAllowed
  BY <1>11 DEF SpinUntilAllowed, GateShut, FlagsHandedOver
<1>12. CASE TakeSemaphore
  BY <1>12 DEF TakeSemaphore, GateShut, FlagsHandedOver
<1>13. CASE UnlockFrameBuffer
  BY <1>13 DEF UnlockFrameBuffer, GateShut, FlagsHandedOver
<1>14. CASE DrawingDone
  BY <1>14 DEF DrawingDone, GateShut, FlagsHandedOver
<1>15. CASE FlushDMA
  BY <1>15 DEF FlushDMA, GateShut, FlagsHandedOver
<1>16. CASE RequestRefresh
  BY <1>16 DEF RequestRefresh, GateShut, FlagsHandedOver
<1>17. CASE TearingEffect
  BY <1>17 DEF TearingEffect, Swapped, GateShut, FlagsHandedOver
<1>18. CASE LeftSent
  BY <1>18 DEF LeftSent, GateShut, FlagsHandedOver
<1>19. CASE RightSent
  BY <1>19 DEF RightSent, GateShut, FlagsHandedOver
<1>20. CASE TransferComplete
  BY <1>20 DEF TransferComplete, GateShut, FlagsHandedOver
<1>21. CASE DMA2DCompleted
  BY <1>21 DEF DMA2DCompleted, Popped, GateShut, FlagsHandedOver
<1>22. CASE GoOn
  BY <1>22 DEF GoOn, GateShut, FlagsHandedOver
<1>23. CASE UNCHANGED vars
  BY <1>23 DEF vars, GateShut, FlagsHandedOver
<1> QED BY <1>1, <1>2, <1>3, <1>4, <1>5, <1>6, <1>7, <1>8, <1>9, <1>10, <1>11, <1>12, <1>13,
   <1>14, <1>15, <1>16, <1>17, <1>18, <1>19, <1>20, <1>21, <1>22, <1>23 DEF Next, Task,
   EndOfRefresh, Blitting

\* A tearing effect begins a refresh with a frame that is complete, or overtakes one.
LEMMA TearingFrame ==
  ASSUME TypeOK, GateShut, FrameCovered, TearingEffect
  PROVE  FrameCovered'
<1>1. /\ UNCHANGED <<pc, dma, startedTwice, refreshRequested, unsent>> /\ vsync_queue' = 1
  BY DEF TearingEffect, blit
<1>2. CASE refreshRequested /\ ~displayRefreshing
  <2>1. displayRefreshing' = TRUE /\ updateRegion' = "left" /\ covers' = Half
    BY <1>2 DEF TearingEffect
  <2>2. pc' \notin Drawing \cup Ending
    BY <1>1, <1>2 DEF GateShut, Drawing, Ending
  <2>3. unsent' \subseteq covers'
    BY <1>1, <2>1 DEF TypeOK
  <2> QED BY <2>1, <2>2, <2>3 DEF FrameCovered
<1>3. CASE ~(refreshRequested /\ ~displayRefreshing)
  <2>1. UNCHANGED <<displayRefreshing, updateRegion, covers>>
    BY <1>3 DEF TearingEffect
  <2>2. displayRefreshing => overtaken < Overtakes /\ overtaken' = overtaken + 1
    BY <1>3 DEF TearingEffect
  <2>3. displayRefreshing => overtaken' # 0 /\ (Overtakes <= 1 => overtaken = 0)
    BY <2>2, DisplayAssumption DEF TypeOK
  <2>4. (displayRefreshing /\ updateRegion = "right" => unsent \cap covers \subseteq {"right"})'
    BY <1>1, <2>1 DEF FrameCovered
  <2>5. ASSUME Overtakes <= 1, ~startedTwice', refreshRequested'
        PROVE  unsent' \subseteq covers'
    <3>1. refreshRequested /\ displayRefreshing /\ overtaken = 0
      BY <1>1, <1>3, <2>3, <2>5
    <3>2. unsent \subseteq covers
      BY <1>1, <2>5, <3>1 DEF FrameCovered
    <3> QED BY <1>1, <2>1, <3>2
  <2>6. displayRefreshing' => overtaken' # 0
    BY <2>1, <2>3
  <2> QED BY <2>4, <2>5, <2>6 DEF FrameCovered
<1> QED BY <1>2, <1>3

\* Nothing is drawn during a refresh that has not been overtaken, so it covers the frame.
LEMMA FrameStep ==
  ASSUME TypeOK, QueueBounded, SemaphoreHeld, HardwareKnown, GateShut, FlagsHandedOver,
     FrameCovered, [Next]_vars
  PROVE  FrameCovered'
<1> USE DEF TypeOK, hal, refresh, past, blit, Step, Half, Waking, Drawing, Ending, Masked
<1>1. CASE EnableInterrupts
  BY <1>1 DEF EnableInterrupts, SemaphoreHeld, HardwareKnown, GateShut, FlagsHandedOver,
     FrameCovered, Woken
<1>2. CASE DiscardVSync
  BY <1>2 DEF DiscardVSync, SemaphoreHeld, HardwareKnown, GateShut, FlagsHandedOver, FrameCovered,
     Woken
<1>3. CASE WaitForVSync
  BY <1>3 DEF WaitForVSync, SemaphoreHeld, HardwareKnown, GateShut, FlagsHandedOver, FrameCovered,
     Woken
<1>4. CASE SwapFrameBuffers
  BY <1>4 DEF SwapFrameBuffers, Swapped, SemaphoreHeld, HardwareKnown, GateShut, FlagsHandedOver,
     FrameCovered, Woken
<1>5. CASE BeginFrame
  BY <1>5 DEF BeginFrame, SemaphoreHeld, HardwareKnown, GateShut, FlagsHandedOver, FrameCovered,
     Woken
<1>6. CASE SetAllowed
  BY <1>6, GateFacts DEF SetAllowed, SemaphoreHeld, HardwareKnown, GateShut, FlagsHandedOver,
     FrameCovered, Woken
<1>7. CASE TryTakeSemaphore
  BY <1>7 DEF TryTakeSemaphore, SemaphoreHeld, HardwareKnown, GateShut, FlagsHandedOver,
     FrameCovered, Woken
<1>8. CASE Push
  BY <1>8, PushFacts DEF Push, SemaphoreHeld, HardwareKnown, GateShut, FlagsHandedOver,
     FrameCovered, Woken
<1>9. CASE StartDMA
  BY <1>9, StartFacts DEF StartDMA, SemaphoreHeld, HardwareKnown, GateShut, FlagsHandedOver,
     FrameCovered, Woken
<1>10. CASE LockFrameBuffer
  BY <1>10 DEF LockFrameBuffer, SemaphoreHeld, HardwareKnown, GateShut, FlagsHandedOver,
     FrameCovered, Woken
<1>11. CASE SpinUntilAllowed
  BY <1>11 DEF SpinUntilAllowed, SemaphoreHeld, HardwareKnown, GateShut, FlagsHandedOver,
     FrameCovered, Woken
<1>12. CASE TakeSemaphore
  BY <1>12 DEF TakeSemaphore, SemaphoreHeld, HardwareKnown, GateShut, FlagsHandedOver,
     FrameCovered, Woken
<1>13. CASE UnlockFrameBuffer
  BY <1>13 DEF UnlockFrameBuffer, SemaphoreHeld, HardwareKnown, GateShut, FlagsHandedOver,
     FrameCovered, Woken
<1>14. CASE DrawingDone
  BY <1>14 DEF DrawingDone, SemaphoreHeld, HardwareKnown, GateShut, FlagsHandedOver, FrameCovered,
     Woken
<1>15. CASE FlushDMA
  BY <1>15 DEF FlushDMA, SemaphoreHeld, HardwareKnown, GateShut, FlagsHandedOver, FrameCovered,
     Woken
<1>16. CASE RequestRefresh
  BY <1>16 DEF RequestRefresh, SemaphoreHeld, HardwareKnown, GateShut, FlagsHandedOver,
     FrameCovered, Woken
<1>17. CASE TearingEffect
  BY <1>17, TearingFrame
<1>18. CASE LeftSent
  BY <1>18 DEF LeftSent, SemaphoreHeld, HardwareKnown, GateShut, FlagsHandedOver, FrameCovered,
     Woken
<1>19. CASE RightSent
  BY <1>19, OpenFacts DEF RightSent, SemaphoreHeld, HardwareKnown, GateShut, FlagsHandedOver,
     FrameCovered, Woken
<1>20. CASE TransferComplete
  BY <1>20, TransferFacts DEF TransferComplete, SemaphoreHeld, HardwareKnown, GateShut,
     FlagsHandedOver, FrameCovered, Woken
<1>21. CASE DMA2DCompleted
  BY <1>21, PoppedFacts DEF DMA2DCompleted, Popped, SemaphoreHeld, HardwareKnown, GateShut,
     FlagsHandedOver, FrameCovered, Woken
<1>22. CASE GoOn
  BY <1>22, GoOnFacts DEF GoOn, SemaphoreHeld, HardwareKnown, GateShut, FlagsHandedOver,
     FrameCovered, Woken
<1>23. CASE UNCHANGED vars
  BY <1>23 DEF vars, SemaphoreHeld, HardwareKnown, GateShut, FlagsHandedOver, FrameCovered, Woken
<1> QED BY <1>1, <1>2, <1>3, <1>4, <1>5, <1>6, <1>7, <1>8, <1>9, <1>10, <1>11, <1>12, <1>13,
   <1>14, <1>15, <1>16, <1>17, <1>18, <1>19, <1>20, <1>21, <1>22, <1>23 DEF Next, Task,
   EndOfRefresh, Blitting

-----------------------------------------------------------------------------
(* The theorems. *)

\* The inductive invariant holds.
LEMMA Inductive == Spec => []IInv
<1>1. Init => IInv
  <2> SUFFICES ASSUME Init PROVE IInv
    OBVIOUS
  <2>1. TypeOK
    <3>1. dma \in DMA /\ dma2d \in DMA2D
      BY DisplayAssumption DEF Init, DMA, DMA2D
    <3>2. unsent \subseteq Half /\ covers \subseteq Half /\ overtaken \in 0..Overtakes
      BY DisplayAssumption DEF Init
    <3>3. /\ pc \in {"start", "discard", "wait"} \cup Waking \cup Drawing \cup Ending
          /\ updateRegion \in Half /\ handler \in {"idle", "popped"}
      BY DEF Init, Half
    <3>4. vsync_queue \in 0..1 /\ frame_buffer_sem \in 0..1
      BY DEF Init
    <3>5. /\ refreshRequested \in BOOLEAN /\ displayRefreshing \in BOOLEAN
          /\ lockDMAToPorch \in BOOLEAN /\ frameBufferUpdatedThisFrame \in BOOLEAN
          /\ swapRequested \in BOOLEAN /\ startedTwice \in BOOLEAN
          /\ overtook \in BOOLEAN /\ late \in BOOLEAN
      BY DEF Init
    <3> QED BY <3>1, <3>2, <3>3, <3>4, <3>5 DEF TypeOK, DMA, DMA2D
  <2>2. QueueBounded /\ SemaphoreHeld /\ GateShut
    BY DEF Init, QueueBounded, SemaphoreHeld, GateShut, Drawing, Ending
  <2>3. HardwareKnown /\ StartedOnce
    BY DEF Init, HardwareKnown, StartedOnce, Masked
  <2>4. GateOpens /\ FlagsHandedOver /\ FrameCovered
    BY DEF Init, GateOpens, FlagsHandedOver, FrameCovered, Drawing, Ending, Waking, Woken
  <2> QED BY <2>1, <2>2, <2>3, <2>4 DEF IInv
<1>2. IInv /\ [Next]_vars => IInv'
  BY TypeStep, SemaphoreStep, HardwareStep, StartedStep, GateShutStep, GateOpensStep, FlagsStep,
     FrameStep DEF IInv
<1> QED BY <1>1, <1>2, PTL DEF Spec

\* The flags, the semaphore, the message queue and the DMA2D's queue stay within their bounds.
THEOREM DisplayTypeCorrect == Spec => []TypeOK
<1>1. IInv => TypeOK
  BY DEF IInv
<1> QED BY <1>1, Inductive, PTL

\* The invariant that carries the others.
THEOREM DisplayInvariant == Spec => []IInv
BY Inductive

\* A refresh that no tearing effect overtakes sends a buffer nobody draws into, as long as no
\* operation has been started twice.
THEOREM SentUndisturbed == Spec => []NotDrawnWhileSent
<1>1. IInv => NotDrawnWhileSent
  <2> SUFFICES ASSUME IInv, displayRefreshing, pc = "cpu" \/ dma2d.busy, overtaken = 0,
                      ~startedTwice
               PROVE  FALSE
    BY DisplayAssumption DEF NotDrawnWhileSent, IInv, TypeOK
  <2>1. pc = "cpu" \/ dma.isRunning
    BY DEF IInv, HardwareKnown
  <2>2. CASE pc \in Drawing \cup Ending
    BY <2>1, <2>2 DEF IInv, GateShut
  <2>3. CASE pc \notin Drawing \cup Ending
    <3>1. dma.isRunning /\ dma.queue > 0
      BY <2>1, <2>3 DEF IInv, QueueBounded, Drawing
    <3>2. dma.queue = 0
      BY <2>3 DEF IInv, SemaphoreHeld, Ending
    <3> QED BY <3>1, <3>2, DisplayAssumption DEF IInv, TypeOK
  <2> QED BY <2>2, <2>3
<1> QED BY <1>1, Inductive, PTL

\* As long as no operation has been started twice, lockFrameBuffer keeps the processor and the
\* DMA2D apart, and the semaphore is taken while one of them draws.
THEOREM DrawsAlone == Spec => []ProcessorDrawsAlone
<1>1. IInv => ProcessorDrawsAlone
  <2> SUFFICES ASSUME IInv, ~startedTwice, pc = "cpu" \/ dma2d.busy
               PROVE  ~(pc = "cpu" /\ dma2d.busy) /\ frame_buffer_sem = 0
    BY DEF ProcessorDrawsAlone, IInv, TypeOK
  <2>1. pc = "cpu" => frame_buffer_sem = 0
    BY DEF IInv, HardwareKnown
  <2>2. ASSUME dma2d.busy PROVE pc # "cpu" /\ frame_buffer_sem = 0
    <3>1. dma.queue > 0
      BY <2>2 DEF IInv, HardwareKnown, QueueBounded
    <3>2. pc = "cpu" => dma.queue = 0
      BY DEF IInv, SemaphoreHeld, Drawing
    <3>3. dma.queue \in Nat
      BY DisplayAssumption DEF IInv, TypeOK
    <3> QED BY <3>1, <3>2, <3>3 DEF IInv, SemaphoreHeld
  <2> QED BY <2>1, <2>2
<1> QED BY <1>1, Inductive, PTL

\* An operation is started twice only after a tearing effect has overtaken a refresh.
THEOREM TwiceOnlyOvertaken == Spec => [](startedTwice => overtook)
<1>1. IInv => (startedTwice => overtook)
  BY DEF IInv, StartedOnce
<1> QED BY <1>1, Inductive, PTL

\* Until the task has been late or a refresh has been overtaken, drawing waits only for a refresh
\* that is going on.
THEOREM WaitsForAReason == Spec => []GateIsOpened
<1>1. IInv => GateIsOpened
  BY DisplayAssumption
  DEF IInv, GateOpens, GateIsOpened, Stopped, TypeOK, QueueBounded, Waking
<1> QED BY <1>1, Inductive, PTL

\* If a refresh is overtaken at most once, no frame is lost between the task and the interrupt,
\* as long as no operation has been started twice.
THEOREM KeepsFrames == ASSUME Overtakes <= 1 PROVE Spec => NoFrameLost
<1>1. IInv /\ [Next]_vars =>
        (refreshRequested /\ ~refreshRequested' => unsent \subseteq covers \/ startedTwice)
  <2> SUFFICES ASSUME IInv, [Next]_vars, refreshRequested, ~refreshRequested', ~startedTwice
               PROVE  unsent \subseteq covers
    BY DEF IInv, TypeOK
  <2>1. pc = "begin"
    BY DEF Next, Task, EndOfRefresh, Blitting, vars, blit, hal, refresh, past, Step,
        EnableInterrupts, DiscardVSync, WaitForVSync, SwapFrameBuffers, BeginFrame, SetAllowed,
        TryTakeSemaphore, Push, StartDMA, LockFrameBuffer, SpinUntilAllowed, TakeSemaphore,
        UnlockFrameBuffer, DrawingDone, FlushDMA, RequestRefresh, TearingEffect, LeftSent,
        RightSent, TransferComplete, DMA2DCompleted, Popped, GoOn
  <2> QED BY <2>1 DEF IInv, FrameCovered, Woken, Waking
<1> QED BY <1>1, Inductive, PTL DEF Spec, NoFrameLost
=============================================================================
