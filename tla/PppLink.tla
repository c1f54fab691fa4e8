------------------------------- MODULE PppLink -------------------------------
(***************************************************************************)
(* The PPP control block: LCP, IPCP, the phase and PPPoS's "open" flag, and *)
(* how the layers call each other (auth.c, lcp.c, ipcp.c, ppp.c, pppos.c),  *)
(* as functions of the block.  The build has IPCP as its only network       *)
(* protocol, asks for no authentication and is configured to refuse it.     *)
(***************************************************************************)
EXTENDS Fsm

Phase == {"DEAD", "ESTABLISH", "NETWORK", "RUNNING", "TERMINATE"}

Link ==
  [phase : Phase,
   lcp : Fsm, ipcp : Fsm,
   ipcp_is_open : BOOLEAN, ipcp_is_up : BOOLEAN,
   if4_up : BOOLEAN,       \* the interface carries IP
   open : BOOLEAN]         \* pppos->open

\* pppos_create and ppp_new.
ppp_new ==
  [phase |-> "DEAD", lcp |-> fsm_init, ipcp |-> fsm_init,
   ipcp_is_open |-> FALSE, ipcp_is_up |-> FALSE, if4_up |-> FALSE,
   open |-> FALSE]

-----------------------------------------------------------------------------
(* IPCP going down, and LCP taking it down. *)

\* Mutant: np_down is not called.
ipcp_down_KeepsPhase(l) == [l EXCEPT !.ipcp_is_up = FALSE, !.if4_up = FALSE]

\* ipcp_down: np_down, when the protocol was up, and sifdown.
ipcp_down(l) ==
  [l EXCEPT !.phase = IF l.ipcp_is_up THEN "NETWORK" ELSE @,
            !.ipcp_is_up = FALSE, !.if4_up = FALSE]

\* Install what fsm.c has made of IPCP, and go down with it if it says so.
IpcpDownWith(l, r) ==
  LET m == [l EXCEPT !.ipcp = r.f] IN IF r.cb = "down" THEN ipcp_down(m) ELSE m

ipcp_lowerdown(l) == IpcpDownWith(l, fsm_lowerdown(l.ipcp))

upper_layers_down(l) ==
  LET d == ipcp_lowerdown(l) IN IpcpDownWith(d, fsm_close(d.ipcp))

link_down(l) ==
  LET u == upper_layers_down(l)
  IN  [u EXCEPT !.phase = IF @ = "DEAD" THEN @ ELSE "ESTABLISH"]

LcpDownWith(l, r) ==
  LET m == [l EXCEPT !.lcp = r.f] IN IF r.cb = "down" THEN link_down(m) ELSE m

lcp_close(l) ==
  LET t == [l EXCEPT !.phase = IF @ = "DEAD" THEN @ ELSE "TERMINATE"]
  IN  LcpDownWith(t, fsm_close(t.lcp))

\* Mutant: the block stays open for input.
pppos_disconnect_StaysOpen(l) == [l EXCEPT !.phase = "DEAD"]

\* pppos_disconnect and ppp_link_end.  The status callback gets an error code,
\* prints it and changes nothing.
pppos_disconnect(l) == [l EXCEPT !.open = FALSE, !.phase = "DEAD"]

link_terminated(l) ==
  IF l.phase = "DEAD" THEN l
  ELSE pppos_disconnect(LcpDownWith(l, fsm_lowerdown(l.lcp)))

-----------------------------------------------------------------------------
(* Going up. *)

\* link_established, network_phase and continue_networks.
link_established(l) ==
  LET lower == fsm_lowerup(l.ipcp).f
  IN  [l EXCEPT !.phase = "NETWORK", !.ipcp = fsm_open(lower).f, !.ipcp_is_open = TRUE]

\* ipcp_up; "address" says whether the peer has given us one.  sifup calls the status
\* callback with PPPERR_NONE, which posts httpc_READY.
ipcp_up(l, address) ==
  IF address THEN [l EXCEPT !.if4_up = TRUE, !.ipcp_is_up = TRUE, !.phase = "RUNNING"]
             ELSE IpcpDownWith(l, fsm_close(l.ipcp))

\* ipcp_finished and np_finished: without IP there is no use for the link.
ipcp_finished(l) ==
  IF l.ipcp_is_open THEN lcp_close([l EXCEPT !.ipcp_is_open = FALSE]) ELSE l

-----------------------------------------------------------------------------
(* The callbacks of fsm.c. *)

LcpCallback(l, r) ==
  LET m == [l EXCEPT !.lcp = r.f]
  IN  CASE r.cb = "up"       -> link_established(m)
        [] r.cb = "down"     -> link_down(m)
        [] r.cb = "finished" -> link_terminated(m)
        [] OTHER             -> m

IpcpCallback(l, r, address) ==
  LET m == [l EXCEPT !.ipcp = r.f]
  IN  CASE r.cb = "up"       -> ipcp_up(m, address)
        [] r.cb = "down"     -> ipcp_down(m)
        [] r.cb = "finished" -> ipcp_finished(m)
        [] OTHER             -> m

-----------------------------------------------------------------------------
(* What lwIP does with the block. *)

\* ppp_connect, pppos_connect and ppp_start.
ppp_connect(l) ==
  IF l.phase # "DEAD" THEN l
  ELSE LET started == fsm_lowerup(fsm_open(l.lcp).f).f
       IN  [l EXCEPT !.open = TRUE, !.phase = "ESTABLISH", !.lcp = started]

LcpTimeout(l) == LcpCallback(l, fsm_timeout(l.lcp))

IpcpTimeout(l) == IpcpCallback(l, fsm_timeout(l.ipcp), FALSE)

\* lcp_input.
LcpInput(l, packet) == LcpCallback(l, fsm_input(l.lcp, packet))

\* A Nak that is the tenth in a row to hold our own magic number: the line is looped
\* back, and lcp_nakci closes LCP.
LcpLoopback(l) ==
  IF l.lcp.seen_ack \/ l.lcp.state \in {"INITIAL", "STARTING", "OPENED"} THEN l
  ELSE [lcp_close(l) EXCEPT !.lcp.seen_ack = TRUE]

\* lcp_rprotrej and lcp_protrej: the peer does not speak LCP, it says.
LcpRejected(l) ==
  IF l.lcp.state # "OPENED" THEN l
  ELSE LcpCallback(l, terminate_layer(l.lcp, "STOPPING"))

\* lcp_rprotrej and ipcp_protrej: IPCP is taken down, and nobody is told.
IpcpRejected(l) ==
  IF l.lcp.state # "OPENED" THEN l
  ELSE ipcp_lowerdown(l)

\* ppp_input: packets for IPCP are tossed before the network phase.
IpcpInput(l, packet, address) ==
  IF l.lcp.state = "OPENED" /\ l.phase \in {"NETWORK", "RUNNING", "TERMINATE"}
    THEN IpcpCallback(l, fsm_input(l.ipcp, packet), address)
    ELSE l

\* pppos_input: what a block that is not open is given is dropped.  What is left of
\* the possible inputs does not touch the control block: IP, echo requests, and
\* bytes that are no frame.
Inputs(l) ==
  IF ~l.open THEN {l}
  ELSE {l, LcpLoopback(l), LcpRejected(l), IpcpRejected(l)}
       \cup {LcpInput(l, p) : p \in Packet}
       \cup {IpcpInput(l, p, address) : p \in Packet, address \in BOOLEAN}

-----------------------------------------------------------------------------
(* What holds of the block between two of these functions. *)

\* A block is open, or it is dead and its LCP is not started.
OpenOrDead(l) ==
  IF l.open THEN l.phase # "DEAD" /\ l.lcp.state \in Timed \cup {"OPENED"}
            ELSE l.phase = "DEAD" /\ l.lcp.state \in {"INITIAL", "STARTING"}

\* The phase follows LCP, and IPCP is not touched before LCP is open nor after.  While it
\* is, an IPCP that has been started has not ended: its end would have closed LCP.
LcpBelowIpcp(l) ==
  /\ l.lcp.state = "OPENED" <=> l.phase \in {"NETWORK", "RUNNING"}
  /\ IF l.lcp.state = "OPENED"
       THEN l.ipcp_is_open /\ l.ipcp.state \notin {"CLOSED", "STOPPED"}
       ELSE l.ipcp.state = "INITIAL"

\* IP, the phase RUNNING and an open IPCP are one and the same.
IpFollowsIpcp(l) ==
  /\ l.if4_up <=> l.ipcp.state = "OPENED"
  /\ l.if4_up <=> l.phase = "RUNNING"
  /\ l.if4_up <=> l.ipcp_is_up

LinkInv(l) ==
  /\ l \in Link
  /\ WellTimed(l.lcp) /\ WellTimed(l.ipcp)
  /\ OpenOrDead(l) /\ LcpBelowIpcp(l) /\ IpFollowsIpcp(l)
=============================================================================
