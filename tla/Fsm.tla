-------------------------------- MODULE Fsm --------------------------------
(***************************************************************************)
(* The negotiation automaton that PPP's LCP and IPCP share (fsm.c), as     *)
(* functions of the automaton.  A function returns the new automaton and   *)
(* the callback that the C function makes into the protocol: "up", "down", *)
(* "finished" or "none".  A packet that is sent is left out: the peer may  *)
(* answer it, not answer it or send something else.  Only a pbuf that is   *)
(* missing for a Configure-Request matters, because then fsm_sconfreq does *)
(* not start its timer.                                                    *)
(***************************************************************************)
EXTENDS Integers

CONSTANTS
  MaxConfReq,   \* fsm_max_conf_req_transmits (10)
  MaxTermReq    \* fsm_max_term_transmits (2)

ASSUME FsmAssumption == MaxConfReq \in Nat \ {0} /\ MaxTermReq \in Nat \ {0}

\* The states in which fsm_timeout has to be pending.
Negotiating == {"REQSENT", "ACKRCVD", "ACKSENT"}
Closing     == {"CLOSING", "STOPPING"}
Timed       == Negotiating \cup Closing

FsmState == {"INITIAL", "STARTING", "CLOSED", "STOPPED", "OPENED"} \cup Timed

Fsm ==
  [state : FsmState,
   retransmits : Nat,
   timers : Nat,           \* how many calls of fsm_timeout are pending
   seen_ack : BOOLEAN,
   pbuf : BOOLEAN,         \* the pool has a pbuf for the next Configure-Request
   starved : BOOLEAN]      \* for the properties: it had none for the last one

\* Exactly one call of fsm_timeout is pending while the automaton waits, unless
\* fsm_sconfreq found no pbuf and went without; none while it does not.
WellTimed(f) ==
  f.timers + (IF f.starved THEN 1 ELSE 0) = IF f.state \in Timed THEN 1 ELSE 0

fsm_init ==
  [state |-> "INITIAL", retransmits |-> 0, timers |-> 0, seen_ack |-> FALSE,
   pbuf |-> TRUE, starved |-> FALSE]

Only(f)     == [f |-> f, cb |-> "none"]
Then(f, cb) == [f |-> f, cb |-> cb]
To(f, s)    == [f EXCEPT !.state = s]

\* sys_untimeout removes the first pending call, if there is one.
UNTIMEOUT(f) == [f EXCEPT !.timers = IF @ > 0 THEN @ - 1 ELSE 0, !.starved = FALSE]

TIMEOUT(f) == [f EXCEPT !.timers = @ + 1]

fsm_sconfreq(f, retransmit) ==
  LET g == [f EXCEPT !.retransmits = IF retransmit THEN @ ELSE MaxConfReq, !.seen_ack = FALSE]
  IN  IF g.pbuf THEN TIMEOUT([g EXCEPT !.retransmits = @ - 1]) ELSE [g EXCEPT !.starved = TRUE]

\* A new Configure-Request starts the negotiation.
Request(f) == To(fsm_sconfreq(f, FALSE), "REQSENT")

-----------------------------------------------------------------------------
(* Open, close, and the lower layer's events. *)

fsm_lowerup(f) ==
  CASE f.state = "INITIAL"  -> Only(To(f, "CLOSED"))
    [] f.state = "STARTING" -> Only(Request(f))
    [] OTHER                -> Only(f)

fsm_lowerdown(f) ==
  CASE f.state = "CLOSED"  -> Only(To(f, "INITIAL"))
    [] f.state = "STOPPED" -> Only(To(f, "STARTING"))
    [] f.state = "CLOSING" -> Only(UNTIMEOUT(To(f, "INITIAL")))
    [] f.state \in Negotiating \cup {"STOPPING"} -> Only(UNTIMEOUT(To(f, "STARTING")))
    [] f.state = "OPENED"  -> Then(To(f, "STARTING"), "down")
    [] OTHER               -> Only(f)

fsm_open(f) ==
  CASE f.state = "INITIAL" -> Only(To(f, "STARTING"))
    [] f.state = "CLOSED"  -> Only(Request(f))
    [] f.state = "CLOSING" -> Only(To(f, "STOPPING"))
    [] OTHER               -> Only(f)

terminate_layer(f, next) ==
  LET opened == f.state = "OPENED"
      quiet  == IF opened THEN f ELSE UNTIMEOUT(f)
  IN  Then(To(TIMEOUT([quiet EXCEPT !.retransmits = MaxTermReq - 1]), next),
           IF opened THEN "down" ELSE "none")

fsm_close(f) ==
  CASE f.state = "STARTING" -> Only(To(f, "INITIAL"))
    [] f.state = "STOPPED"  -> Only(To(f, "CLOSED"))
    [] f.state = "STOPPING" -> Only(To(f, "CLOSING"))
    [] f.state \in Negotiating \cup {"OPENED"} -> terminate_layer(f, "CLOSING")
    [] OTHER                -> Only(f)

-----------------------------------------------------------------------------
(* The retransmission timer. *)

\* Mutant: a retransmission is not counted.
Retransmit_Uncounted(f) ==
  LET again == [TIMEOUT(f) EXCEPT !.seen_ack = FALSE]
  IN  IF f.state = "ACKRCVD" THEN To(again, "REQSENT") ELSE again

\* The Configure-Request once more: an Ack of the earlier one no longer counts.
Retransmit(f) ==
  LET again == fsm_sconfreq(f, TRUE)
  IN  IF f.state = "ACKRCVD" THEN To(again, "REQSENT") ELSE again

\* One call of fsm_timeout, which is no longer pending when it runs.
fsm_timeout(g) ==
  LET f == [g EXCEPT !.timers = @ - 1]
      over == f.retransmits <= 0
  IN  CASE f.state = "CLOSING" /\ over  -> Then(To(f, "CLOSED"), "finished")
        [] f.state = "STOPPING" /\ over -> Then(To(f, "STOPPED"), "finished")
        [] f.state \in Closing /\ ~over -> Only(TIMEOUT([f EXCEPT !.retransmits = @ - 1]))
        [] f.state \in Negotiating /\ over  -> Then(To(f, "STOPPED"), "finished")
        [] f.state \in Negotiating /\ ~over -> Only(Retransmit(f))
        [] OTHER -> Only(f)

-----------------------------------------------------------------------------
(* Packets. *)

\* An opened automaton goes down and starts again.
Restart(f) == Then(Request(f), "down")

\* Mutant: the timer goes on when the negotiation is complete.
Opened_KeepsTimer(f) == Then(To(f, "OPENED"), "up")

Opened(f) == Then(To(UNTIMEOUT(f), "OPENED"), "up")

\* Configure-Request; "agree" says whether the options are acceptable.  Acknowledging
\* it completes a negotiation in which our own request has been acknowledged.
fsm_rconfreq(f, agree) ==
  LET r == IF f.state = "OPENED" THEN Restart(f)
           ELSE IF f.state = "STOPPED" THEN Only(Request(f)) ELSE Only(f)
  IN  IF f.state \in {"CLOSED"} \cup Closing THEN Only(f)
      ELSE IF r.f.state = "ACKRCVD" THEN IF agree THEN Opened(r.f) ELSE r
      ELSE Then(To(r.f, IF agree THEN "ACKSENT" ELSE "REQSENT"), r.cb)

\* Configure-Ack of the current request.
fsm_rconfack(g) ==
  LET f == [g EXCEPT !.seen_ack = TRUE]
      full == [f EXCEPT !.retransmits = MaxConfReq]
  IN  CASE g.seen_ack            -> Only(g)
        [] OTHER -> CASE f.state = "REQSENT" -> Only(To(full, "ACKRCVD"))
                      [] f.state = "ACKRCVD" -> Only(Request(UNTIMEOUT(f)))
                      [] f.state = "ACKSENT" -> Opened(full)
                      [] f.state = "OPENED"  -> Restart(f)
                      [] OTHER               -> Only(f)

\* Configure-Nak or Configure-Reject of the current request.
fsm_rconfnakrej(g) ==
  LET f == [g EXCEPT !.seen_ack = TRUE]
      again == fsm_sconfreq(UNTIMEOUT(f), FALSE)
  IN  CASE g.seen_ack -> Only(g)
        [] OTHER -> CASE f.state \in {"REQSENT", "ACKSENT"} -> Only(again)
                      [] f.state = "ACKRCVD"                -> Only(To(again, "REQSENT"))
                      [] f.state = "OPENED"                 -> Restart(f)
                      [] OTHER                              -> Only(f)

\* Mutant: no timer is started.
fsm_rtermreq_Untimed(f) ==
  CASE f.state \in {"ACKRCVD", "ACKSENT"} -> Only(To(f, "REQSENT"))
    [] f.state = "OPENED" -> Then(To([f EXCEPT !.retransmits = 0], "STOPPING"), "down")
    [] OTHER -> Only(f)

fsm_rtermreq(f) ==
  CASE f.state \in {"ACKRCVD", "ACKSENT"} -> Only(To(f, "REQSENT"))
    [] f.state = "OPENED" -> Then(TIMEOUT(To([f EXCEPT !.retransmits = 0], "STOPPING")), "down")
    [] OTHER -> Only(f)

fsm_rtermack(f) ==
  CASE f.state = "CLOSING"  -> Then(UNTIMEOUT(To(f, "CLOSED")), "finished")
    [] f.state = "STOPPING" -> Then(UNTIMEOUT(To(f, "STOPPED")), "finished")
    [] f.state = "ACKRCVD"  -> Only(To(f, "REQSENT"))
    [] f.state = "OPENED"   -> Restart(f)
    [] OTHER                -> Only(f)

fsm_rcoderej(f) == Only(IF f.state = "ACKRCVD" THEN To(f, "REQSENT") ELSE f)

\* What a peer may send; a ConfAck, ConfNak or ConfRej that does not fit the
\* current request is tossed, like anything malformed, and is not listed.
Packet == {"ConfReq", "ConfReqBad", "ConfAck", "ConfNakRej", "TermReq", "TermAck", "CodeRej"}

\* fsm_input: before the automaton is started every packet is dropped.
fsm_input(f, packet) ==
  CASE f.state \in {"INITIAL", "STARTING"} -> Only(f)
    [] OTHER ->
         CASE packet = "ConfReq"    -> fsm_rconfreq(f, TRUE)
           [] packet = "ConfReqBad" -> fsm_rconfreq(f, FALSE)
           [] packet = "ConfAck"    -> fsm_rconfack(f)
           [] packet = "ConfNakRej" -> fsm_rconfnakrej(f)
           [] packet = "TermReq"    -> fsm_rtermreq(f)
           [] packet = "TermAck"    -> fsm_rtermack(f)
           [] packet = "CodeRej"    -> fsm_rcoderej(f)
=============================================================================
