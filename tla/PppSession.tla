----------------------------- MODULE PppSession -----------------------------
(***************************************************************************)
(* PPPoS_Task and the life of its PPP sessions: it creates a control       *)
(* block, connects it, purges the byte queue, arms the UART, feeds what it *)
(* reads to tcpip_thread through the mailbox, and when it sees the phase   *)
(* DEAD it frees the block, resets the ESP32 and begins again.             *)
(* tcpip_thread works on the control block meanwhile: input and timers.    *)
(*                                                                         *)
(* Received data is abstracted to units that carry only their age: "new"   *)
(* for what the ESP32 has sent since its last reset and "old" for what was *)
(* on its way before.  What a unit says is chosen when PPP reads it.       *)
(***************************************************************************)
EXTENDS PppLink, Sequences, FiniteSets

CONSTANTS
  QueueLen,   \* the length of xQueue_pppos, in units
  MboxSize    \* TCPIP_MBOX_SIZE (6)

ASSUME SessionAssumption == QueueLen \in Nat \ {0} /\ MboxSize \in Nat \ {0}

VARIABLES
  pc,       \* where PPPoS_Task is
  pool,     \* how many control blocks the pool still holds (MEMP_NUM_PPP_PCB is 1)
  link,     \* the control block
  esp,      \* the ESP32: "up", or "gone" and silent
  dr,       \* the byte left in the data register while reception is stopped
  armed,    \* HAL_UART_Receive_IT is in progress
  rxq,      \* xQueue_pppos
  buf,      \* ppp_data
  mbox      \* tcpip_mbox

task   == <<pc, pool>>
serial == <<esp, dr, armed>>
vars   == <<pc, pool, link, esp, dr, armed, rxq, buf, mbox>>

Age    == {"new", "old"}
Loop   == {"read", "input", "check"}
Serial == {"purge", "arm"}
TaskPc == {"create", "connect", "free", "reset"} \cup Serial \cup Loop

TypeOK ==
  /\ pc \in TaskPc
  /\ pool \in 0..1
  /\ link \in Link
  /\ esp \in {"up", "gone"}
  /\ dr \in Age \cup {"empty"}
  /\ armed \in BOOLEAN
  /\ rxq \in Seq(Age) /\ Len(rxq) <= QueueLen
  /\ buf \in Seq(Age) /\ Len(buf) <= 1
  /\ mbox \in Seq(Age) /\ Len(mbox) <= MboxSize

\* PPPoS_Task has initialised lwIP and reset the ESP32 for the first time.
Init ==
  /\ pc = "create" /\ pool = 1 /\ link = ppp_new
  /\ esp = "up" /\ dr = "empty" /\ armed = FALSE
  /\ rxq = <<>> /\ buf = <<>> /\ mbox = <<>>

Goto(there) == pc' = there

\* The pool of pbufs, which everything received shares, may be empty during a step of PPP.
\* No step sends two Configure-Requests.
WithPbuf(l, b) == [l EXCEPT !.lcp.pbuf = b, !.ipcp.pbuf = b]
Pools          == {WithPbuf(link, b) : b \in BOOLEAN}
Settled(links) == {WithPbuf(l, TRUE) : l \in links}

-----------------------------------------------------------------------------
(* PPPoS_Task. *)

\* pppapi_pppos_create.  An empty pool would make it return NULL, and the calls
\* that follow use the pointer.
Create ==
  /\ pc = "create" /\ pool > 0
  /\ pool' = pool - 1 /\ link' = ppp_new
  /\ Goto("connect")
  /\ UNCHANGED <<serial, rxq, buf, mbox>>

\* pppapi_connect, in this task and under the core lock.
Connect ==
  /\ pc = "connect"
  /\ link' \in Settled({ppp_connect(l) : l \in Pools})
  /\ Goto("purge")
  /\ UNCHANGED <<pool, serial, rxq, buf, mbox>>

\* Mutant: the queue is not reset.
Purge_Skipped ==
  /\ pc = "purge"
  /\ Goto("arm")
  /\ UNCHANGED <<pool, link, serial, rxq, buf, mbox>>

Purge ==
  /\ pc = "purge"
  /\ rxq' = <<>>
  /\ Goto("arm")
  /\ UNCHANGED <<pool, link, serial, buf, mbox>>

\* HAL_UART_Receive_IT; a byte that waits in the data register is received at once.
\* When reception is still armed, it returns HAL_BUSY.
Arm ==
  /\ pc = "arm"
  /\ armed' = TRUE /\ dr' = "empty"
  /\ rxq' = IF ~armed /\ dr # "empty" /\ Len(rxq) < QueueLen THEN Append(rxq, dr) ELSE rxq
  /\ Goto("read")
  /\ UNCHANGED <<pool, link, esp, buf, mbox>>

\* pppos_read returns what has come until the line was quiet for 50 ms, if anything.
Read ==
  /\ pc = "read"
  /\ \/ /\ rxq # <<>>
        /\ buf' = <<Head(rxq)>> /\ rxq' = Tail(rxq)
        /\ Goto("input")
     \/ /\ rxq = <<>>
        /\ Goto("check")
        /\ UNCHANGED <<rxq, buf>>
  /\ UNCHANGED <<pool, link, serial, mbox>>

\* Mutant: the mailbox takes any number of messages.
Input_Unbounded ==
  /\ pc = "input"
  /\ mbox' = mbox \o buf
  /\ buf' = <<>>
  /\ Goto("check")
  /\ UNCHANGED <<pool, link, serial, rxq>>

\* pppos_input_tcpip; without a pbuf, or with the mailbox full, the data is dropped.
Input ==
  /\ pc = "input"
  /\ \/ Len(mbox) < MboxSize /\ mbox' = mbox \o buf
     \/ UNCHANGED mbox
  /\ buf' = <<>>
  /\ Goto("check")
  /\ UNCHANGED <<pool, link, serial, rxq>>

\* Mutant: every session that is not running is given up.
Check_NotRunning ==
  /\ pc = "check"
  /\ Goto(IF link.phase # "RUNNING" THEN "free" ELSE "read")
  /\ UNCHANGED <<pool, link, serial, rxq, buf, mbox>>

\* Mutant: the task waits for the phase in which a session closes, which may be over.
Check_Terminate ==
  /\ pc = "check"
  /\ Goto(IF link.phase = "TERMINATE" THEN "free" ELSE "read")
  /\ UNCHANGED <<pool, link, serial, rxq, buf, mbox>>

\* The phase is read without the core lock.
Check ==
  /\ pc = "check"
  /\ Goto(IF link.phase = "DEAD" THEN "free" ELSE "read")
  /\ UNCHANGED <<pool, link, serial, rxq, buf, mbox>>

\* pppapi_free.  ppp_free refuses a block that is not dead, and the task does not look.
Free ==
  /\ pc = "free"
  /\ pool' = IF link.phase = "DEAD" THEN pool + 1 ELSE pool
  /\ Goto("reset")
  /\ UNCHANGED <<link, serial, rxq, buf, mbox>>

\* Mutant: the second that the ESP32 is given to boot is not waited for.
ModemReset_NoWait ==
  /\ pc = "reset"
  /\ esp' \in {"up", "gone"}
  /\ dr' = IF dr = "empty" THEN dr ELSE "old"
  /\ rxq' = [i \in 1..Len(rxq) |-> "old"]
  /\ mbox' = [i \in 1..Len(mbox) |-> "old"]
  /\ Goto("create")
  /\ UNCHANGED <<pool, link, armed, buf>>

\* modem_reset takes two seconds, in which tcpip_thread empties its mailbox.  What is
\* in the queue and in the data register afterwards comes from before.
ModemReset ==
  /\ pc = "reset" /\ mbox = <<>>
  /\ esp' \in {"up", "gone"}
  /\ dr' = IF dr = "empty" THEN dr ELSE "old"
  /\ rxq' = [i \in 1..Len(rxq) |-> "old"]
  /\ Goto("create")
  /\ UNCHANGED <<pool, link, armed, buf, mbox>>

TaskStep ==
  \/ Create \/ Connect \/ Purge \/ Arm \/ Read \/ Input \/ Check \/ Free \/ ModemReset

-----------------------------------------------------------------------------
(* tcpip_thread. *)

\* pppos_input_sys finds the block through the interface, freed or not.  An old unit is
\* the single byte of the data register, which is no frame.
ProcessInput ==
  /\ mbox # <<>>
  /\ mbox' = Tail(mbox)
  /\ IF Head(mbox) = "new"
       THEN link' \in Settled(UNION {Inputs(l) : l \in Pools})
       ELSE UNCHANGED link
  /\ UNCHANGED <<task, serial, rxq, buf>>

LcpTimer ==
  /\ link.lcp.timers > 0
  /\ link' \in Settled({LcpTimeout(l) : l \in Pools})
  /\ UNCHANGED <<task, serial, rxq, buf, mbox>>

IpcpTimer ==
  /\ link.ipcp.timers > 0
  /\ link' \in Settled({IpcpTimeout(l) : l \in Pools})
  /\ UNCHANGED <<task, serial, rxq, buf, mbox>>

-----------------------------------------------------------------------------
(* The ESP32 and the line. *)

\* The ESP32 sends; what finds the queue full is lost.  While nobody receives, the
\* data register keeps the first byte and the others are overruns.
Send ==
  /\ esp = "up"
  /\ rxq' = IF armed /\ Len(rxq) < QueueLen THEN Append(rxq, "new") ELSE rxq
  /\ dr' = IF ~armed /\ dr = "empty" THEN "new" ELSE dr
  /\ UNCHANGED <<task, link, esp, armed, buf, mbox>>

\* The three causes of UartLink.
ReceptionStops ==
  /\ armed /\ armed' = FALSE
  /\ UNCHANGED <<task, link, esp, dr, rxq, buf, mbox>>

\* The ESP32 stops without a word: it crashes, or the cable is cut.
Disappear ==
  /\ esp = "up" /\ esp' = "gone"
  /\ UNCHANGED <<task, link, dr, armed, rxq, buf, mbox>>

-----------------------------------------------------------------------------
Next ==
  \/ TaskStep
  \/ ProcessInput \/ LcpTimer \/ IpcpTimer
  \/ Send \/ ReceptionStops \/ Disappear

Spec == Init /\ [][Next]_vars

\* The task and tcpip_thread go on running, and the timers of lwIP expire.  The ESP32
\* owes nothing.  The last three conjuncts are weak fairness, written out because TLC is
\* slow at ENABLED of these actions: what stands after ~ is ENABLED <<A>>_vars.
FairSpec ==
  /\ Spec
  /\ WF_vars(TaskStep)
  /\ []<>~(mbox # <<>>) \/ []<><<ProcessInput>>_vars
  /\ []<>~(link.lcp.timers > 0 /\ LcpTimeout(link) # link) \/ []<><<LcpTimer>>_vars
  /\ []<>~(link.ipcp.timers > 0 /\ IpcpTimeout(link) # link) \/ []<><<IpcpTimer>>_vars

-----------------------------------------------------------------------------
(* Properties. *)

\* The pool has one control block.  PPPoS_Task never asks for a second one, because it
\* frees the first only when ppp_free accepts it: the phase it has read without the
\* lock is still DEAD when the call is made.
CreateSucceeds == pc = "create" => pool = 1

\* A freed block is still reached: by input that is left in the mailbox, because the
\* interface keeps its pointer, and by a timer that was not cancelled.  Neither finds
\* anything to do: the block is closed and no timer is pending.
FreedIsInert ==
  pool = 1 => ~link.open /\ link.lcp.timers = 0 /\ link.ipcp.timers = 0

\* lwIP reserves one timeout per protocol (PPP_NUM_TIMEOUTS_PER_PCB): whatever the peer
\* sends, an automaton never has two pending, and has one exactly when it waits, unless
\* fsm_sconfreq found no pbuf and went without.
OneTimerEach == WellTimed(link.lcp) /\ WellTimed(link.ipcp)

\* The phase RUNNING, the state of the interface and the two automata agree, through
\* all renegotiations: IP is never passed to a link that is not negotiated.
RunningIsNegotiated ==
  /\ link.phase = "RUNNING" <=> link.if4_up
  /\ link.if4_up => link.lcp.state = "OPENED" /\ link.ipcp.state = "OPENED"

\* An open session that does not carry IP yet, or no longer, has a timer that will end
\* it.  The exceptions are a peer that has rejected IPCP as a protocol, and a request for
\* which there was no pbuf.
Rejected == link.lcp.state = "OPENED" /\ link.ipcp.state \in {"INITIAL", "STARTING"}
Starved  == link.lcp.starved \/ link.ipcp.starved
SomebodyWatches ==
  link.open /\ link.phase # "RUNNING" /\ ~Rejected /\ ~Starved
    => link.lcp.timers + link.ipcp.timers > 0

\* Of what was sent before the ESP32 was reset, at most one byte reaches the new
\* session: the one that waits in the data register when reception is armed.
Olds(s) == Cardinality({i \in DOMAIN s : s[i] = "old"})
AtMostOneOldByte == pc \in Loop => Olds(rxq) + Olds(buf) + Olds(mbox) <= 1

\* Nothing is on its way to tcpip_thread while PPPoS_Task purges and arms: PPP has
\* nothing to answer, so nobody transmits (the QuietArm of UartLink).
QuietWhileArming == pc \in Serial => mbox = <<>> /\ buf = <<>>

\* Why all this is so: the block is in order after every call into it; it is in use from
\* create to free, and dead when it is not; the buffer and the mailbox are empty when they
\* should be; what the queue holds when the UART is armed is new.
PoolAndPhase ==
  /\ pool = IF pc \in {"create", "reset"} THEN 1 ELSE 0
  /\ pc \in {"create", "free", "reset"} => link.phase = "DEAD"
NothingInTransit ==
  /\ pc # "input" => buf = <<>>
  /\ pc \in {"create", "connect"} \cup Serial => mbox = <<>>
OldBytes == AtMostOneOldByte /\ (pc = "arm" => Olds(rxq) = 0)
IInv == TypeOK /\ LinkInv(link) /\ PoolAndPhase /\ NothingInTransit /\ OldBytes

\* A session that has died is followed by a new one.
Reconnects == link.phase = "DEAD" /\ pc \in Loop ~> pc = "connect"

\* When the ESP32 disappears during a negotiation, the session ends, unless what had
\* arrived before completes it.
SilenceEnds ==
  esp = "gone" /\ link.open /\ link.phase # "RUNNING"
    ~> link.phase = "RUNNING" \/ Rejected \/ Starved \/ link.phase = "DEAD"

\* What pppd.cpp says of the dead phase: it is what happens when the client disconnects.
DisconnectIsNoticed == esp = "gone" /\ link.phase = "RUNNING" ~> link.phase # "RUNNING"
=============================================================================
