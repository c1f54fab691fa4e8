---------------------------- MODULE ByteChannel ----------------------------
(***************************************************************************)
(* What the serial line promises PPP, and no more: a byte the ESP32 sends  *)
(* may be lost at any time, but those that are delivered are delivered in  *)
(* the order in which they were sent, and each of them once.               *)
(***************************************************************************)
EXTENDS Naturals

VARIABLES
  sent,      \* how many bytes have been sent; a byte is its position
  transit,   \* those that may still be delivered
  last       \* the last one that was

vars == <<sent, transit, last>>

Init == sent = 0 /\ transit = {} /\ last = 0

\* Send one byte; it may be lost at once, and others with it.
Send ==
  /\ sent' = sent + 1
  /\ transit' \in SUBSET (transit \cup {sent + 1})
  /\ UNCHANGED last

Lose ==
  /\ transit' \in SUBSET transit
  /\ UNCHANGED <<sent, last>>

Deliver ==
  \E b \in transit :
    /\ \A c \in transit : b <= c
    /\ last' = b
    /\ transit' = transit \ {b}
    /\ UNCHANGED sent

Next == Send \/ Lose \/ Deliver

Spec == Init /\ [][Next]_vars
=============================================================================
