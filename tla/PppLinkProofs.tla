---------------------------- MODULE PppLinkProofs ----------------------------
(***************************************************************************)
(* What the functions of the PPP control block keep, for any number of     *)
(* retransmissions: LinkInv, whatever the peer sends and whichever timer   *)
(* expires.                                                                *)
(***************************************************************************)
EXTENDS PppLink, FsmProofs

\* ipcp_down leaves IPCP, LCP and the rest alone: it only ends IP, and the phase with it.
LEMMA IpcpDownFacts ==
  ASSUME NEW l \in Link
  PROVE  LET d == ipcp_down(l)
         IN  /\ d \in Link /\ d.phase = IF l.ipcp_is_up THEN "NETWORK" ELSE l.phase
             /\ d.lcp = l.lcp /\ d.ipcp = l.ipcp /\ d.open = l.open
             /\ d.ipcp_is_open = l.ipcp_is_open
             /\ d.ipcp_is_up = FALSE /\ d.if4_up = FALSE
<1> DEFINE p == IF l.ipcp_is_up THEN "NETWORK" ELSE l.phase
           d == [l EXCEPT !.phase = p, !.ipcp_is_up = FALSE, !.if4_up = FALSE]
<1>1. p \in Phase
  BY DEF Link, Phase
<1>2. ipcp_down(l) = d
  BY DEF ipcp_down
<1> HIDE DEF p
<1>3. d \in Link /\ d.phase = p /\ d.lcp = l.lcp /\ d.ipcp = l.ipcp
  BY <1>1 DEF Link
<1>4. d.open = l.open /\ d.ipcp_is_open = l.ipcp_is_open
  BY <1>1 DEF Link
<1>5. d.ipcp_is_up = FALSE /\ d.if4_up = FALSE
  BY <1>1 DEF Link
<1> QED BY <1>2, <1>3, <1>4, <1>5 DEF p

\* Installing a new IPCP in the block leaves its other parts alone.
LEMMA SetIpcp ==
  ASSUME NEW l \in Link, NEW g \in Fsm
  PROVE  LET m == [l EXCEPT !.ipcp = g]
         IN  /\ m \in Link /\ m.phase = l.phase /\ m.lcp = l.lcp /\ m.ipcp = g
             /\ m.open = l.open /\ m.ipcp_is_open = l.ipcp_is_open
             /\ m.ipcp_is_up = l.ipcp_is_up /\ m.if4_up = l.if4_up
BY DEF Link

\* So does installing a new LCP.
LEMMA SetLcp ==
  ASSUME NEW l \in Link, NEW g \in Fsm
  PROVE  LET m == [l EXCEPT !.lcp = g]
         IN  /\ m \in Link /\ m.phase = l.phase /\ m.lcp = g /\ m.ipcp = l.ipcp
             /\ m.open = l.open /\ m.ipcp_is_open = l.ipcp_is_open
             /\ m.ipcp_is_up = l.ipcp_is_up /\ m.if4_up = l.if4_up
BY DEF Link

\* And changing the phase.
LEMMA SetPhase ==
  ASSUME NEW l \in Link, NEW p \in Phase
  PROVE  LET m == [l EXCEPT !.phase = p]
         IN  /\ m \in Link /\ m.phase = p /\ m.lcp = l.lcp /\ m.ipcp = l.ipcp
             /\ m.open = l.open /\ m.ipcp_is_open = l.ipcp_is_open
             /\ m.ipcp_is_up = l.ipcp_is_up /\ m.if4_up = l.if4_up
BY DEF Link

-----------------------------------------------------------------------------
(* LCP going down. *)

\* IP is what IPCP says, whatever the phase is on the way.
Coupled(l) ==
  /\ l.if4_up <=> l.ipcp.state = "OPENED"
  /\ l.if4_up <=> l.ipcp_is_up

\* The lower layer of IPCP going down takes IP down.
LEMMA IpcpLowerdownFacts ==
  ASSUME NEW l \in Link, WellTimed(l.ipcp), Coupled(l)
  PROVE  LET d == ipcp_lowerdown(l)
         IN  /\ d \in Link /\ d.lcp = l.lcp /\ d.open = l.open /\ d.ipcp_is_open = l.ipcp_is_open
             /\ WellTimed(d.ipcp) /\ d.ipcp.state \in {"INITIAL", "STARTING"}
             /\ d.phase = IF l.ipcp_is_up THEN "NETWORK" ELSE l.phase
             /\ d.ipcp_is_up = FALSE /\ d.if4_up = FALSE
<1> DEFINE r == fsm_lowerdown(l.ipcp)
           m == [l EXCEPT !.ipcp = r.f]
<1>1. /\ r.f \in Fsm /\ WellTimed(r.f) /\ r.f.state \in {"INITIAL", "STARTING"}
      /\ r.cb = IF l.ipcp.state = "OPENED" THEN "down" ELSE "none"
  BY LowerdownFacts DEF Link
<1>2. ipcp_lowerdown(l) = IF r.cb = "down" THEN ipcp_down(m) ELSE m
  BY DEF ipcp_lowerdown, IpcpDownWith
<1> HIDE DEF r
<1>3. /\ m \in Link /\ m.phase = l.phase /\ m.lcp = l.lcp /\ m.ipcp = r.f
      /\ m.open = l.open /\ m.ipcp_is_open = l.ipcp_is_open
      /\ m.ipcp_is_up = l.ipcp_is_up /\ m.if4_up = l.if4_up
  BY <1>1, SetIpcp
<1> HIDE DEF m
<1>4. CASE l.ipcp.state = "OPENED"
  <2>1. ipcp_lowerdown(l) = ipcp_down(m)
    BY <1>1, <1>2, <1>4
  <2> DEFINE d == ipcp_down(m)
  <2>2. /\ d \in Link /\ d.phase = IF m.ipcp_is_up THEN "NETWORK" ELSE m.phase
        /\ d.lcp = m.lcp /\ d.ipcp = m.ipcp /\ d.open = m.open
        /\ d.ipcp_is_open = m.ipcp_is_open
        /\ d.ipcp_is_up = FALSE /\ d.if4_up = FALSE
    BY <1>3, IpcpDownFacts
  <2> HIDE DEF d
  <2>3. l.ipcp_is_up
    BY <1>4 DEF Coupled
  <2>4. d.phase = "NETWORK"
    BY <1>3, <2>2, <2>3
  <2> QED BY <1>1, <1>3, <2>1, <2>2, <2>3, <2>4 DEF d
<1>5. CASE l.ipcp.state # "OPENED"
  <2>1. ipcp_lowerdown(l) = m
    BY <1>1, <1>2, <1>5
  <2>2. l.ipcp_is_up = FALSE /\ l.if4_up = FALSE
    BY <1>5 DEF Coupled, Link
  <2> QED BY <1>1, <1>3, <2>1, <2>2
<1> QED BY <1>4, <1>5

\* link_down leaves IPCP as it was before the link was established.
LEMMA LinkDownFacts ==
  ASSUME NEW l \in Link, WellTimed(l.ipcp), Coupled(l), l.phase # "DEAD"
  PROVE  LET u == link_down(l)
         IN  /\ u \in Link /\ u.lcp = l.lcp /\ u.open = l.open
             /\ WellTimed(u.ipcp) /\ u.ipcp.state = "INITIAL"
             /\ u.phase = "ESTABLISH"
             /\ u.ipcp_is_up = FALSE /\ u.if4_up = FALSE
<1> DEFINE d == ipcp_lowerdown(l)
           r == fsm_close(d.ipcp)
           m == [d EXCEPT !.ipcp = r.f]
           u == [m EXCEPT !.phase = "ESTABLISH"]
<1>1. /\ d \in Link /\ d.lcp = l.lcp /\ d.open = l.open
      /\ WellTimed(d.ipcp) /\ d.ipcp.state \in {"INITIAL", "STARTING"}
      /\ d.phase = IF l.ipcp_is_up THEN "NETWORK" ELSE l.phase
      /\ d.ipcp_is_up = FALSE /\ d.if4_up = FALSE
  BY IpcpLowerdownFacts
<1>2. /\ upper_layers_down(l) = IF r.cb = "down" THEN ipcp_down(m) ELSE m
      /\ link_down(l) = [upper_layers_down(l) EXCEPT !.phase = IF @ = "DEAD" THEN @ ELSE "ESTABLISH"]
  BY DEF link_down, upper_layers_down, IpcpDownWith
<1> HIDE DEF d
<1>3. r.f \in Fsm /\ WellTimed(r.f) /\ r.f.state = "INITIAL" /\ r.cb = "none"
  BY <1>1, CloseFacts DEF Link
<1> HIDE DEF r
<1>4. /\ m \in Link /\ m.phase = d.phase /\ m.lcp = l.lcp /\ m.ipcp = r.f
      /\ m.open = l.open /\ m.ipcp_is_up = FALSE /\ m.if4_up = FALSE
  BY <1>1, <1>3, SetIpcp
<1> HIDE DEF m
<1>5. m.phase # "DEAD"
  BY <1>1, <1>4
<1>6. link_down(l) = u
  BY <1>2, <1>3, <1>5
<1> HIDE DEF u
<1>7. /\ u \in Link /\ u.phase = "ESTABLISH" /\ u.lcp = l.lcp /\ u.ipcp = r.f
      /\ u.open = l.open /\ u.ipcp_is_up = FALSE /\ u.if4_up = FALSE
  BY <1>4, SetPhase DEF u, Phase
<1> QED BY <1>3, <1>6, <1>7

\* A block whose LCP has left OPENED, or was not there, is in order once IPCP is.
LEMMA BelowIp ==
  ASSUME NEW u \in Link, WellTimed(u.lcp), WellTimed(u.ipcp), u.ipcp.state = "INITIAL",
         u.open, u.lcp.state \in Timed, u.phase \in {"ESTABLISH", "TERMINATE"},
         u.ipcp_is_up = FALSE, u.if4_up = FALSE
  PROVE  LinkInv(u)
BY DEF LinkInv, OpenOrDead, LcpBelowIpcp, IpFollowsIpcp, Timed, Negotiating, Closing

\* lcp_close ends in a block in order, from an IPCP that has ended as well.
LEMMA LcpCloseFacts ==
  ASSUME NEW l \in Link, WellTimed(l.lcp), WellTimed(l.ipcp), l.open, l.phase # "DEAD",
         l.lcp.state \in Started, Coupled(l),
         l.lcp.state # "OPENED" => l.ipcp.state = "INITIAL"
  PROVE  LinkInv(lcp_close(l)) /\ lcp_close(l).lcp.state \in Closing /\ lcp_close(l).open
<1> DEFINE t == [l EXCEPT !.phase = "TERMINATE"]
           r == fsm_close(t.lcp)
           m == [t EXCEPT !.lcp = r.f]
<1>1. lcp_close(l) = IF r.cb = "down" THEN link_down(m) ELSE m
  BY DEF lcp_close, LcpDownWith
<1>2. /\ t \in Link /\ t.phase = "TERMINATE" /\ t.lcp = l.lcp /\ t.ipcp = l.ipcp
      /\ t.open = l.open /\ t.ipcp_is_up = l.ipcp_is_up /\ t.if4_up = l.if4_up
  BY SetPhase DEF Phase
<1> HIDE DEF t
<1>3. Sound(l.lcp, r) /\ r.f.state \in Closing
  BY <1>2, CloseFacts DEF Link
<1> HIDE DEF r
<1>4. /\ m \in Link /\ m.phase = "TERMINATE" /\ m.lcp = r.f /\ m.ipcp = l.ipcp
      /\ m.open = l.open /\ m.ipcp_is_up = l.ipcp_is_up /\ m.if4_up = l.if4_up
  BY <1>2, <1>3, SetLcp DEF Sound
<1> HIDE DEF m
<1>5. r.f.state \in Timed /\ r.f.state # "OPENED" /\ WellTimed(r.f)
  BY <1>3 DEF Sound, Timed, Closing
<1>6. CASE l.lcp.state = "OPENED"
  <2>1. lcp_close(l) = link_down(m)
    BY <1>1, <1>3, <1>5, <1>6 DEF Sound, Timed, Negotiating, Closing
  <2>2. Coupled(m)
    BY <1>4 DEF Coupled
  <2> DEFINE u == link_down(m)
  <2>3. /\ u \in Link /\ u.lcp = r.f /\ u.open /\ WellTimed(u.ipcp)
        /\ u.ipcp.state = "INITIAL" /\ u.phase = "ESTABLISH"
        /\ u.ipcp_is_up = FALSE /\ u.if4_up = FALSE
    BY <1>4, <2>2, LinkDownFacts
  <2> HIDE DEF u
  <2>4. LinkInv(u)
    BY <1>5, <2>3, BelowIp
  <2> QED BY <1>3, <2>1, <2>3, <2>4 DEF u
<1>7. CASE l.lcp.state # "OPENED"
  <2>1. lcp_close(l) = m
    BY <1>1, <1>3, <1>5, <1>7 DEF Sound, Timed, Negotiating, Closing
  <2>2. l.ipcp_is_up = FALSE /\ l.if4_up = FALSE
    BY <1>7 DEF Coupled, Link
  <2>3. LinkInv(m)
    BY <1>4, <1>5, <1>7, <2>2, BelowIp
  <2> QED BY <1>3, <1>4, <2>1, <2>3
<1> QED BY <1>6, <1>7

-----------------------------------------------------------------------------
(* The callbacks of LCP. *)

\* An open block: what LinkInv says of it.
LEMMA OpenLink ==
  ASSUME NEW l, LinkInv(l), l.open
  PROVE  /\ l \in Link /\ WellTimed(l.lcp) /\ WellTimed(l.ipcp) /\ l.lcp \in Fsm /\ l.ipcp \in Fsm
         /\ l.phase # "DEAD" /\ l.lcp.state \in Started /\ Coupled(l)
         /\ l.lcp.state # "OPENED" =>
              /\ l.ipcp.state = "INITIAL" /\ l.phase \in {"ESTABLISH", "TERMINATE"}
              /\ l.ipcp_is_up = FALSE /\ l.if4_up = FALSE
         /\ l.lcp.state = "OPENED" =>
              /\ l.phase \in {"NETWORK", "RUNNING"} /\ l.ipcp_is_open = TRUE
              /\ l.ipcp.state \in Started \cup {"INITIAL", "STARTING"}
<1>1. /\ l \in Link /\ WellTimed(l.lcp) /\ WellTimed(l.ipcp) /\ Coupled(l)
      /\ l.phase # "DEAD" /\ l.lcp.state \in Started
  BY DEF LinkInv, OpenOrDead, IpFollowsIpcp, Coupled, Started
<1>2. ASSUME l.lcp.state # "OPENED"
      PROVE  /\ l.ipcp.state = "INITIAL" /\ l.phase \in {"ESTABLISH", "TERMINATE"}
             /\ l.ipcp_is_up = FALSE /\ l.if4_up = FALSE
  <2>1. l.ipcp.state = "INITIAL" /\ l.phase \notin {"NETWORK", "RUNNING"}
    BY <1>2 DEF LinkInv, LcpBelowIpcp
  <2> QED BY <1>1, <2>1 DEF Coupled, Link, Phase
<1>3. ASSUME l.lcp.state = "OPENED"
      PROVE  /\ l.phase \in {"NETWORK", "RUNNING"} /\ l.ipcp_is_open = TRUE
             /\ l.ipcp.state \in Started \cup {"INITIAL", "STARTING"}
  BY <1>1, <1>3 DEF LinkInv, LcpBelowIpcp, Link, Fsm, FsmState, Started
<1>4. l.lcp \in Fsm /\ l.ipcp \in Fsm
  BY <1>1 DEF Link
<1> QED BY <1>1, <1>2, <1>3, <1>4

\* LCP is open: IPCP is started.
LEMMA EstablishedFacts ==
  ASSUME NEW l \in Link, WellTimed(l.lcp), l.lcp.state = "OPENED", l.open,
         WellTimed(l.ipcp), l.ipcp.state = "INITIAL", l.ipcp_is_up = FALSE, l.if4_up = FALSE
  PROVE  LinkInv(link_established(l))
<1> DEFINE g == fsm_open(fsm_lowerup(l.ipcp).f).f
           m == [l EXCEPT !.phase = "NETWORK", !.ipcp = g, !.ipcp_is_open = TRUE]
<1>1. g \in Fsm /\ g.state \in Timed /\ WellTimed(g)
  BY StartUpperFacts DEF Link
<1>2. link_established(l) = m
  BY DEF link_established
<1> HIDE DEF g
<1>3. m \in Link /\ m.phase = "NETWORK" /\ m.lcp = l.lcp /\ m.ipcp = g
  BY <1>1 DEF Link, Phase
<1>4. m.open = l.open /\ m.ipcp_is_up = l.ipcp_is_up /\ m.if4_up = l.if4_up
  BY <1>1 DEF Link
<1>5. m.ipcp_is_open = TRUE
  BY <1>1 DEF Link
<1> HIDE DEF m
<1> QED BY <1>1, <1>2, <1>3, <1>4, <1>5
        DEF LinkInv, OpenOrDead, LcpBelowIpcp, IpFollowsIpcp, Timed, Negotiating, Closing

\* LCP has ended: the block is dead.
LEMMA TerminatedFacts ==
  ASSUME NEW l \in Link, WellTimed(l.lcp), l.lcp.state \in {"CLOSED", "STOPPED"}, l.phase # "DEAD",
         WellTimed(l.ipcp), l.ipcp.state = "INITIAL", l.ipcp_is_up = FALSE, l.if4_up = FALSE
  PROVE  LinkInv(link_terminated(l))
<1> DEFINE r == fsm_lowerdown(l.lcp)
           m == [l EXCEPT !.lcp = r.f]
           d == [m EXCEPT !.open = FALSE, !.phase = "DEAD"]
<1>1. r.f \in Fsm /\ WellTimed(r.f) /\ r.f.state \in {"INITIAL", "STARTING"} /\ r.cb = "none"
  BY LowerdownFacts DEF Link
<1>2. link_terminated(l) = d
  BY <1>1 DEF link_terminated, LcpDownWith, pppos_disconnect
<1> HIDE DEF r
<1>3. /\ m \in Link /\ m.lcp = r.f /\ m.ipcp = l.ipcp
      /\ m.ipcp_is_up = l.ipcp_is_up /\ m.if4_up = l.if4_up
  BY <1>1, SetLcp
<1> HIDE DEF m
<1>4. d \in Link /\ d.phase = "DEAD" /\ d.lcp = m.lcp /\ d.ipcp = m.ipcp
  BY <1>3 DEF Link, Phase
<1>5. d.ipcp_is_up = m.ipcp_is_up /\ d.if4_up = m.if4_up
  BY <1>3 DEF Link
<1>6. d.open = FALSE
  BY <1>3 DEF Link
<1> HIDE DEF d
<1> QED BY <1>1, <1>2, <1>3, <1>4, <1>5, <1>6
        DEF LinkInv, OpenOrDead, LcpBelowIpcp, IpFollowsIpcp, Timed, Negotiating, Closing

\* Every event of LCP leaves the block in order.
LEMMA LcpCallbackKeeps ==
  ASSUME NEW l, LinkInv(l), l.open, NEW r, Sound(l.lcp, r)
  PROVE  LinkInv(LcpCallback(l, r))
<1> DEFINE m == [l EXCEPT !.lcp = r.f]
<1> USE OpenLink
<1>1. /\ LcpCallback(l, r) = CASE r.cb = "up"       -> link_established(m)
                               [] r.cb = "down"     -> link_down(m)
                               [] r.cb = "finished" -> link_terminated(m)
                               [] OTHER             -> m
      /\ r.f \in Fsm /\ WellTimed(r.f)
  BY DEF LcpCallback, Sound
<1>2. /\ m \in Link /\ m.phase = l.phase /\ m.lcp = r.f /\ m.ipcp = l.ipcp
      /\ m.open = l.open /\ m.ipcp_is_open = l.ipcp_is_open
      /\ m.ipcp_is_up = l.ipcp_is_up /\ m.if4_up = l.if4_up
  BY <1>1, SetLcp
<1> HIDE DEF m
<1>3. CASE r.cb = "up"
  <2>1. LcpCallback(l, r) = link_established(m)
    BY <1>1, <1>3
  <2>2. l.lcp.state # "OPENED" /\ r.f.state = "OPENED"
    BY <1>3 DEF Sound, Timed, Negotiating, Closing
  <2> QED BY <1>1, <1>2, <2>1, <2>2, EstablishedFacts
<1>4. CASE r.cb = "down"
  <2> DEFINE u == link_down(m)
  <2>1. LcpCallback(l, r) = u
    BY <1>1, <1>4
  <2>2. Coupled(m)
    BY <1>2 DEF Coupled
  <2>3. /\ u \in Link /\ u.lcp = r.f /\ u.open = m.open /\ WellTimed(u.ipcp)
        /\ u.ipcp.state = "INITIAL" /\ u.phase = "ESTABLISH"
        /\ u.ipcp_is_up = FALSE /\ u.if4_up = FALSE
    BY <1>2, <2>2, LinkDownFacts
  <2> HIDE DEF u
  <2>4. r.f.state \in Timed
    BY <1>4 DEF Sound
  <2> QED BY <1>1, <1>2, <2>1, <2>3, <2>4, BelowIp
<1>5. CASE r.cb = "finished"
  <2>1. LcpCallback(l, r) = link_terminated(m)
    BY <1>1, <1>5
  <2>2. l.lcp.state # "OPENED" /\ r.f.state \in {"CLOSED", "STOPPED"}
    BY <1>5 DEF Sound, Timed, Negotiating, Closing
  <2> QED BY <1>1, <1>2, <2>1, <2>2, TerminatedFacts
<1>6. CASE r.cb = "none"
  <2>1. LcpCallback(l, r) = m
    BY <1>1, <1>6
  <2>2. CASE l.lcp.state = "OPENED"
    <3>1. r.f.state = "OPENED"
      BY <1>6, <2>2 DEF Sound, Timed, Negotiating, Closing
    <3> QED BY <1>1, <1>2, <2>1, <2>2, <3>1 DEF LinkInv, OpenOrDead, LcpBelowIpcp, IpFollowsIpcp
  <2>3. CASE l.lcp.state # "OPENED"
    <3>1. r.f.state \in Timed
      BY <1>6, <2>3 DEF Sound
    <3> QED BY <1>1, <1>2, <2>1, <2>3, <3>1, BelowIp
  <2> QED BY <2>2, <2>3
<1> QED BY <1>3, <1>4, <1>5, <1>6 DEF Sound

-----------------------------------------------------------------------------
(* The callbacks of IPCP. *)

\* A block whose LCP is open is in order once IP is what IPCP says.
LEMMA AboveLcp ==
  ASSUME NEW u \in Link, WellTimed(u.lcp), WellTimed(u.ipcp), u.open, u.lcp.state = "OPENED",
         u.ipcp_is_open = TRUE,
         \/ /\ u.ipcp.state = "OPENED" /\ u.phase = "RUNNING"
            /\ u.ipcp_is_up = TRUE /\ u.if4_up = TRUE
         \/ /\ u.ipcp.state \in Timed \cup {"INITIAL", "STARTING"} /\ u.phase = "NETWORK"
            /\ u.ipcp_is_up = FALSE /\ u.if4_up = FALSE
  PROVE  LinkInv(u)
BY DEF LinkInv, OpenOrDead, LcpBelowIpcp, IpFollowsIpcp, Timed, Negotiating, Closing

\* In an open link, IP and the phase are what IPCP says.
LEMMA NetworkPhase ==
  ASSUME NEW l, LinkInv(l), l.open, l.lcp.state = "OPENED"
  PROVE  /\ l.ipcp.state = "OPENED" =>
              l.phase = "RUNNING" /\ l.ipcp_is_up = TRUE /\ l.if4_up = TRUE
         /\ l.ipcp.state # "OPENED" =>
              l.phase = "NETWORK" /\ l.ipcp_is_up = FALSE /\ l.if4_up = FALSE
<1>1. l \in Link /\ l.phase \in {"NETWORK", "RUNNING"}
  BY OpenLink
<1>2. l.phase = "RUNNING" <=> l.ipcp.state = "OPENED"
  BY DEF LinkInv, IpFollowsIpcp
<1>3. ASSUME l.ipcp.state = "OPENED" PROVE l.ipcp_is_up = TRUE /\ l.if4_up = TRUE
  BY <1>1, <1>3 DEF LinkInv, IpFollowsIpcp, Link
<1>4. ASSUME l.ipcp.state # "OPENED" PROVE l.ipcp_is_up = FALSE /\ l.if4_up = FALSE
  BY <1>1, <1>4 DEF LinkInv, IpFollowsIpcp, Link
<1> QED BY <1>1, <1>2, <1>3, <1>4

\* Every event of IPCP leaves the block in order, with an address from the peer or without.
LEMMA IpcpCallbackKeeps ==
  ASSUME NEW l, LinkInv(l), l.open, l.lcp.state = "OPENED",
         NEW r, Sound(l.ipcp, r), NEW address \in {TRUE, FALSE}
  PROVE  LinkInv(IpcpCallback(l, r, address))
<1> DEFINE m == [l EXCEPT !.ipcp = r.f]
<1> USE OpenLink, NetworkPhase
<1>1. /\ IpcpCallback(l, r, address) =
           CASE r.cb = "up"       -> ipcp_up(m, address)
             [] r.cb = "down"     -> ipcp_down(m)
             [] r.cb = "finished" -> ipcp_finished(m)
             [] OTHER             -> m
      /\ r.f \in Fsm /\ WellTimed(r.f)
  BY DEF IpcpCallback, Sound
<1>2. /\ m \in Link /\ m.phase = l.phase /\ m.lcp = l.lcp /\ m.ipcp = r.f
      /\ m.open = l.open /\ m.ipcp_is_open = l.ipcp_is_open
      /\ m.ipcp_is_up = l.ipcp_is_up /\ m.if4_up = l.if4_up
  BY <1>1, SetIpcp
<1> HIDE DEF m
<1>3. CASE r.cb = "up"
  <2>1. /\ IpcpCallback(l, r, address) = ipcp_up(m, address)
        /\ l.ipcp.state # "OPENED" /\ r.f.state = "OPENED"
    BY <1>1, <1>3 DEF Sound, Timed, Negotiating, Closing
  <2>2. CASE address
    <3> DEFINE u == [m EXCEPT !.if4_up = TRUE, !.ipcp_is_up = TRUE, !.phase = "RUNNING"]
    <3>1. ipcp_up(m, address) = u
      BY <2>2 DEF ipcp_up
    <3>2. u \in Link /\ u.phase = "RUNNING" /\ u.lcp = m.lcp /\ u.ipcp = m.ipcp
      BY <1>2 DEF Link, Phase
    <3>3. u.open = m.open /\ u.ipcp_is_open = m.ipcp_is_open
      BY <1>2 DEF Link
    <3>4. u.ipcp_is_up = TRUE /\ u.if4_up = TRUE
      BY <1>2 DEF Link
    <3> HIDE DEF u
    <3>5. /\ WellTimed(u.lcp) /\ WellTimed(u.ipcp) /\ u.ipcp.state = "OPENED"
          /\ u.lcp.state = "OPENED" /\ u.open /\ u.ipcp_is_open = TRUE
      BY ZenonT(60), <1>1, <1>2, <2>1, <3>2, <3>3
    <3>6. LinkInv(u)
      BY <3>2, <3>4, <3>5, AboveLcp
    <3> QED BY <2>1, <3>1, <3>6
  <2>3. CASE ~address
    <3> DEFINE c == fsm_close(m.ipcp)
               n == [m EXCEPT !.ipcp = c.f]
               d == ipcp_down(n)
    <3>1. ipcp_up(m, address) = IF c.cb = "down" THEN d ELSE n
      BY <2>3 DEF ipcp_up, IpcpDownWith
    <3>2. Sound(m.ipcp, c) /\ c.f.state \in Closing
      BY <1>1, <1>2, <2>1, CloseFacts DEF Started
    <3> HIDE DEF c
    <3>3. c.cb = "down" /\ c.f \in Fsm /\ WellTimed(c.f)
      BY <1>2, <2>1, <3>2 DEF Sound, Timed, Negotiating, Closing
    <3>4. /\ n \in Link /\ n.phase = m.phase /\ n.lcp = m.lcp /\ n.ipcp = c.f
          /\ n.open = m.open /\ n.ipcp_is_open = m.ipcp_is_open
          /\ n.ipcp_is_up = m.ipcp_is_up /\ n.if4_up = m.if4_up
      BY ZenonT(60), <1>2, <3>3, SetIpcp
    <3> HIDE DEF n
    <3>5. m.phase = "NETWORK" /\ m.ipcp_is_up = FALSE /\ m.if4_up = FALSE
      BY <1>2, <2>1
    <3>6. /\ d \in Link /\ d.phase = IF n.ipcp_is_up THEN "NETWORK" ELSE n.phase
          /\ d.lcp = n.lcp /\ d.ipcp = n.ipcp /\ d.open = n.open
          /\ d.ipcp_is_open = n.ipcp_is_open
          /\ d.ipcp_is_up = FALSE /\ d.if4_up = FALSE
      BY <3>4, IpcpDownFacts
    <3> HIDE DEF d
    <3>7. d.phase = "NETWORK"
      BY <3>4, <3>5, <3>6
    <3>8. /\ WellTimed(d.lcp) /\ WellTimed(d.ipcp) /\ d.ipcp.state \in Timed
          /\ d.lcp.state = "OPENED" /\ d.open /\ d.ipcp_is_open = TRUE
      BY ZenonT(60), <1>2, <3>2, <3>3, <3>4, <3>6 DEF Timed
    <3>9. LinkInv(d)
      BY <3>6, <3>7, <3>8, AboveLcp
    <3> QED BY <2>1, <3>1, <3>3, <3>9
  <2> QED BY <2>2, <2>3
<1>4. CASE r.cb = "down"
  <2> DEFINE d == ipcp_down(m)
  <2>1. IpcpCallback(l, r, address) = d
    BY <1>1, <1>4
  <2>2. l.ipcp.state = "OPENED" /\ r.f.state \in Timed
    BY <1>4 DEF Sound
  <2>3. /\ d \in Link /\ d.phase = IF m.ipcp_is_up THEN "NETWORK" ELSE m.phase
        /\ d.lcp = m.lcp /\ d.ipcp = m.ipcp /\ d.open = m.open
        /\ d.ipcp_is_open = m.ipcp_is_open
        /\ d.ipcp_is_up = FALSE /\ d.if4_up = FALSE
    BY <1>2, IpcpDownFacts
  <2> HIDE DEF d
  <2>4. m.ipcp_is_up
    BY <1>2, <2>2
  <2>5. d.phase = "NETWORK"
    BY <2>3, <2>4
  <2> QED BY ZenonT(60), <1>1, <1>2, <2>1, <2>2, <2>3, <2>5, AboveLcp
<1>5. CASE r.cb = "finished"
  <2> DEFINE n == [m EXCEPT !.ipcp_is_open = FALSE]
  <2>1. IpcpCallback(l, r, address) = ipcp_finished(m)
    BY <1>1, <1>5
  <2>2. l.ipcp.state # "OPENED" /\ r.f.state \in {"CLOSED", "STOPPED"}
    BY <1>5 DEF Sound, Timed, Negotiating, Closing
  <2>3. m.ipcp_is_open
    BY <1>2
  <2>4. ipcp_finished(m) = lcp_close(n)
    BY <2>3 DEF ipcp_finished
  <2>5. n \in Link /\ n.phase = m.phase /\ n.lcp = m.lcp /\ n.ipcp = m.ipcp
    BY <1>2 DEF Link
  <2>6. n.open = m.open /\ n.ipcp_is_up = m.ipcp_is_up /\ n.if4_up = m.if4_up
    BY <1>2 DEF Link
  <2> HIDE DEF n
  <2>7. Coupled(n)
    BY <1>2, <2>2, <2>5, <2>6 DEF Coupled
  <2> QED BY ZenonT(60), <1>1, <1>2, <2>1, <2>4, <2>5, <2>6, <2>7, LcpCloseFacts
<1>6. CASE r.cb = "none"
  <2>1. IpcpCallback(l, r, address) = m
    BY <1>1, <1>6
  <2>2. \/ l.ipcp.state = "OPENED" /\ r.f.state = "OPENED"
        \/ l.ipcp.state # "OPENED" /\ r.f.state \in Timed
    BY <1>6 DEF Sound, Timed, Negotiating, Closing
  <2> QED BY ZenonT(60), <1>1, <1>2, <2>1, <2>2, AboveLcp
<1> QED BY <1>3, <1>4, <1>5, <1>6 DEF Sound

-----------------------------------------------------------------------------
(* What lwIP does with the block. *)

\* A block that is not open has no timer, and none of its parts is started.
LEMMA DeadLink ==
  ASSUME NEW l, LinkInv(l), ~l.open
  PROVE  /\ l.phase = "DEAD" /\ l.lcp.timers = 0 /\ l.ipcp.timers = 0
         /\ l.lcp.state \in {"INITIAL", "STARTING"} /\ l.ipcp.state = "INITIAL"
         /\ l.ipcp_is_up = FALSE /\ l.if4_up = FALSE
<1>1. l \in Link /\ l.lcp \in Fsm /\ l.ipcp \in Fsm /\ WellTimed(l.lcp) /\ WellTimed(l.ipcp)
  BY DEF LinkInv, Link
<1>2. l.phase = "DEAD" /\ l.lcp.state \in {"INITIAL", "STARTING"} /\ l.ipcp.state = "INITIAL"
  BY DEF LinkInv, OpenOrDead, LcpBelowIpcp
<1>3. l.ipcp_is_up = FALSE /\ l.if4_up = FALSE
  BY <1>1, <1>2 DEF LinkInv, IpFollowsIpcp, Link
<1>4. Idle(l.lcp) /\ Idle(l.ipcp)
  BY <1>1, <1>2, WellTimedIs DEF Timed, Negotiating, Closing
<1> QED BY <1>2, <1>3, <1>4 DEF Idle

\* A block is open exactly when it is not dead.
LEMMA OpenIsNotDead ==
  ASSUME NEW l, LinkInv(l)
  PROVE  l.open <=> l.phase # "DEAD"
BY DEF LinkInv, OpenOrDead

\* A new block is in order.
THEOREM NewLink == LinkInv(ppp_new)
<1>1. fsm_init \in Fsm /\ fsm_init.state = "INITIAL" /\ fsm_init.timers = 0
  BY DEF fsm_init, Fsm, FsmState
<1>2. fsm_init.starved = FALSE
  BY DEF fsm_init
<1>3. WellTimed(fsm_init)
  BY <1>1, <1>2, WellTimedIs DEF Idle, Timed, Negotiating, Closing
<1>4. ppp_new \in Link /\ ppp_new.phase = "DEAD" /\ ppp_new.lcp = fsm_init /\ ppp_new.ipcp = fsm_init
  BY <1>1 DEF ppp_new, Link, Phase
<1>5. ppp_new.open = FALSE /\ ppp_new.ipcp_is_up = FALSE /\ ppp_new.if4_up = FALSE
  BY DEF ppp_new
<1> QED BY <1>1, <1>3, <1>4, <1>5 DEF LinkInv, OpenOrDead, LcpBelowIpcp, IpFollowsIpcp

\* Connecting a dead block opens it.
THEOREM ConnectKeeps ==
  ASSUME NEW l, LinkInv(l)
  PROVE  LinkInv(ppp_connect(l)) /\ ppp_connect(l).open
<1>1. CASE l.phase # "DEAD"
  BY <1>1, OpenIsNotDead DEF ppp_connect
<1>2. CASE l.phase = "DEAD"
  <2> DEFINE g == fsm_lowerup(fsm_open(l.lcp).f).f
             u == [l EXCEPT !.open = TRUE, !.phase = "ESTABLISH", !.lcp = g]
  <2>1. /\ l \in Link /\ l.lcp \in Fsm /\ WellTimed(l.lcp) /\ WellTimed(l.ipcp)
    BY DEF LinkInv, Link
  <2>2. /\ l.lcp.state \in {"INITIAL", "STARTING"} /\ l.ipcp.state = "INITIAL"
        /\ l.ipcp_is_up = FALSE /\ l.if4_up = FALSE
    BY <1>2, OpenIsNotDead, DeadLink
  <2>3. g \in Fsm /\ g.state \in Timed /\ WellTimed(g)
    BY <2>1, <2>2, StartFacts
  <2>4. ppp_connect(l) = u
    BY <1>2 DEF ppp_connect
  <2> HIDE DEF g
  <2>5. u \in Link /\ u.phase = "ESTABLISH" /\ u.lcp = g /\ u.ipcp = l.ipcp
    BY <2>1, <2>3 DEF Link, Phase
  <2>6. u.ipcp_is_up = l.ipcp_is_up /\ u.if4_up = l.if4_up
    BY <2>1, <2>3 DEF Link
  <2>7. u.open = TRUE
    BY <2>1, <2>3 DEF Link
  <2> HIDE DEF u
  <2> QED BY <2>1, <2>2, <2>3, <2>4, <2>5, <2>6, <2>7, BelowIp
<1> QED BY <1>1, <1>2

\* Timers only run out in an open block, and leave it in order.
THEOREM TimeoutKeeps ==
  ASSUME NEW l, LinkInv(l)
  PROVE  /\ l.lcp.timers > 0 => l.open /\ LinkInv(LcpTimeout(l))
         /\ l.ipcp.timers > 0 => l.open /\ LinkInv(IpcpTimeout(l))
<1>1. /\ l.lcp \in Fsm /\ l.ipcp \in Fsm /\ WellTimed(l.lcp) /\ WellTimed(l.ipcp) /\ l \in Link
  BY DEF LinkInv, Link
<1>2. ASSUME l.lcp.timers > 0 \/ l.ipcp.timers > 0 PROVE l.open
  <2>1. ASSUME ~l.open PROVE l.lcp.timers = 0 /\ l.ipcp.timers = 0
    BY <2>1, DeadLink
  <2> QED BY <1>2, <2>1
<1>3. ASSUME l.lcp.timers > 0 PROVE LinkInv(LcpTimeout(l))
  BY <1>1, <1>2, <1>3, TimerSound, LcpCallbackKeeps DEF LcpTimeout
<1>4. ASSUME l.ipcp.timers > 0 PROVE LinkInv(IpcpTimeout(l))
  <2>1. l.ipcp.state \in Timed /\ Sound(l.ipcp, fsm_timeout(l.ipcp))
    BY <1>1, <1>4, TimerSound
  <2>2. l.lcp.state = "OPENED"
    BY <1>2, <1>4, <2>1, OpenLink DEF Timed, Negotiating, Closing
  <2> QED BY <1>2, <1>4, <2>1, <2>2, IpcpCallbackKeeps DEF IpcpTimeout
<1> QED BY <1>2, <1>3, <1>4

\* A part of the block may be replaced by one that is in the same state and as well timed.
LEMMA ReplaceFsm ==
  ASSUME NEW l, LinkInv(l), NEW g \in Fsm, WellTimed(g)
  PROVE  /\ g.state = l.lcp.state => LinkInv([l EXCEPT !.lcp = g])
         /\ g.state = l.ipcp.state => LinkInv([l EXCEPT !.ipcp = g])
<1>1. l \in Link
  BY DEF LinkInv
<1>2. ASSUME g.state = l.lcp.state PROVE LinkInv([l EXCEPT !.lcp = g])
  <2> DEFINE m == [l EXCEPT !.lcp = g]
  <2>1. /\ m \in Link /\ m.phase = l.phase /\ m.lcp = g /\ m.ipcp = l.ipcp
        /\ m.open = l.open /\ m.ipcp_is_open = l.ipcp_is_open
        /\ m.ipcp_is_up = l.ipcp_is_up /\ m.if4_up = l.if4_up
    BY <1>1, SetLcp
  <2> HIDE DEF m
  <2>2. WellTimed(m.lcp) /\ WellTimed(m.ipcp)
    BY <1>2, <2>1 DEF LinkInv
  <2>3. OpenOrDead(m) /\ LcpBelowIpcp(m)
    BY <1>2, <2>1 DEF LinkInv, OpenOrDead, LcpBelowIpcp
  <2>4. IpFollowsIpcp(m)
    BY <1>2, <2>1 DEF LinkInv, IpFollowsIpcp
  <2>5. LinkInv(m)
    BY <2>1, <2>2, <2>3, <2>4 DEF LinkInv
  <2> QED BY <2>5 DEF m
<1>3. ASSUME g.state = l.ipcp.state PROVE LinkInv([l EXCEPT !.ipcp = g])
  <2> DEFINE m == [l EXCEPT !.ipcp = g]
  <2>1. /\ m \in Link /\ m.phase = l.phase /\ m.lcp = l.lcp /\ m.ipcp = g
        /\ m.open = l.open /\ m.ipcp_is_open = l.ipcp_is_open
        /\ m.ipcp_is_up = l.ipcp_is_up /\ m.if4_up = l.if4_up
    BY <1>1, SetIpcp
  <2> HIDE DEF m
  <2>2. WellTimed(m.lcp) /\ WellTimed(m.ipcp)
    BY <1>3, <2>1 DEF LinkInv
  <2>3. OpenOrDead(m) /\ LcpBelowIpcp(m)
    BY <1>3, <2>1 DEF LinkInv, OpenOrDead, LcpBelowIpcp
  <2>4. IpFollowsIpcp(m)
    BY <1>3, <2>1 DEF LinkInv, IpFollowsIpcp
  <2>5. LinkInv(m)
    BY <2>1, <2>2, <2>3, <2>4 DEF LinkInv
  <2> QED BY <2>5 DEF m
<1> QED BY <1>2, <1>3

\* The tenth looped-back Nak.
LEMMA LoopbackKeeps ==
  ASSUME NEW l, LinkInv(l), l.open
  PROVE  LinkInv(LcpLoopback(l))
<1>1. CASE l.lcp.seen_ack \/ l.lcp.state \in {"INITIAL", "STARTING", "OPENED"}
  <2>1. LcpLoopback(l) = l
    BY <1>1 DEF LcpLoopback
  <2> QED BY <2>1
<1>2. CASE ~(l.lcp.seen_ack \/ l.lcp.state \in {"INITIAL", "STARTING", "OPENED"})
  <2> DEFINE n == lcp_close(l)
             g == [n.lcp EXCEPT !.seen_ack = TRUE]
             u == [n EXCEPT !.lcp = g]
  <2>1. LinkInv(n)
    BY OpenLink, LcpCloseFacts
  <2>2. LcpLoopback(l) = [n EXCEPT !.lcp.seen_ack = TRUE]
    BY <1>2 DEF LcpLoopback
  <2> HIDE DEF n
  <2>3. LcpLoopback(l) = u
    BY <2>2
  <2>4. n.lcp \in Fsm /\ WellTimed(n.lcp)
    BY <2>1 DEF LinkInv, Link
  <2>5. /\ g \in Fsm /\ g.state = n.lcp.state
        /\ Idle(g) <=> Idle(n.lcp)
        /\ Waits(g) <=> Waits(n.lcp)
    BY <2>4, AckFacts
  <2> HIDE DEF g
  <2>6. WellTimed(g)
    BY <2>4, <2>5, WellTimedIs
  <2> QED BY <2>1, <2>3, <2>5, <2>6, ReplaceFsm
<1> QED BY <1>1, <1>2

\* The two ways in which the peer may reject a protocol.
LEMMA RejectedKeeps ==
  ASSUME NEW l, LinkInv(l), l.open
  PROVE  LinkInv(LcpRejected(l)) /\ LinkInv(IpcpRejected(l))
<1>1. CASE l.lcp.state # "OPENED"
  <2>1. LcpRejected(l) = l /\ IpcpRejected(l) = l
    BY <1>1 DEF LcpRejected, IpcpRejected
  <2> QED BY <2>1
<1>2. CASE l.lcp.state = "OPENED"
  <2>1. LinkInv(LcpRejected(l))
    <3> DEFINE r == terminate_layer(l.lcp, "STOPPING")
    <3>1. LcpRejected(l) = LcpCallback(l, r)
      BY <1>2 DEF LcpRejected
    <3>2. /\ r.f \in Fsm /\ WellTimed(r.f) /\ r.f.state = "STOPPING"
          /\ r.cb = IF l.lcp.state = "OPENED" THEN "down" ELSE "none"
      BY <1>2, OpenLink, TerminateFacts DEF Closing
    <3> HIDE DEF r
    <3>3. Sound(l.lcp, r)
      BY <1>2, <3>2 DEF Sound, Timed, Closing
    <3> QED BY <3>1, <3>3, LcpCallbackKeeps
  <2>2. LinkInv(IpcpRejected(l))
    <3> DEFINE d == ipcp_lowerdown(l)
    <3>1. IpcpRejected(l) = d
      BY <1>2 DEF IpcpRejected
    <3>2. /\ d \in Link /\ d.lcp = l.lcp /\ d.open = l.open /\ d.ipcp_is_open = l.ipcp_is_open
          /\ WellTimed(d.ipcp) /\ d.ipcp.state \in {"INITIAL", "STARTING"}
          /\ d.phase = IF l.ipcp_is_up THEN "NETWORK" ELSE l.phase
          /\ d.ipcp_is_up = FALSE /\ d.if4_up = FALSE
      BY OpenLink, IpcpLowerdownFacts
    <3> HIDE DEF d
    <3>3. d.phase = "NETWORK"
      <4>1. CASE l.ipcp_is_up
        BY <3>2, <4>1
      <4>2. CASE ~l.ipcp_is_up
        BY <1>2, <3>2, <4>2, NetworkPhase
      <4> QED BY <4>1, <4>2
    <3>4. WellTimed(d.lcp) /\ d.open /\ d.lcp.state = "OPENED" /\ d.ipcp_is_open = TRUE
      BY <1>2, <3>2, OpenLink
    <3>5. LinkInv(d)
      BY <3>2, <3>3, <3>4, AboveLcp
    <3> QED BY <3>1, <3>5
  <2> QED BY <2>1, <2>2
<1> QED BY <1>1, <1>2

\* A packet for IPCP: tossed before the network phase and by an IPCP that is not started.
LEMMA IpcpInputKeeps ==
  ASSUME NEW l, LinkInv(l), l.open, NEW p \in Packet, NEW address \in {TRUE, FALSE}
  PROVE  LinkInv(IpcpInput(l, p, address))
<1> DEFINE r == fsm_input(l.ipcp, p)
<1>1. CASE l.lcp.state # "OPENED" \/ l.phase \notin {"NETWORK", "RUNNING", "TERMINATE"}
  <2>1. IpcpInput(l, p, address) = l
    BY <1>1 DEF IpcpInput
  <2> QED BY <2>1
<1>2. CASE l.lcp.state = "OPENED" /\ l.phase \in {"NETWORK", "RUNNING", "TERMINATE"}
  <2>1. IpcpInput(l, p, address) = IpcpCallback(l, r, address)
    BY <1>2 DEF IpcpInput
  <2>2. CASE l.ipcp.state \in Started
    <3>1. Sound(l.ipcp, r)
      BY <2>2, OpenLink, InputSound
    <3> QED BY <1>2, <2>1, <3>1, IpcpCallbackKeeps
  <2>3. CASE l.ipcp.state \in {"INITIAL", "STARTING"}
    <3>1. r = Only(l.ipcp)
      BY <2>3 DEF fsm_input
    <3>2. IpcpCallback(l, r, address) = [l EXCEPT !.ipcp = l.ipcp]
      BY <3>1 DEF IpcpCallback, Only
    <3>3. l.ipcp \in Fsm /\ WellTimed(l.ipcp)
      BY OpenLink
    <3>4. LinkInv([l EXCEPT !.ipcp = l.ipcp])
      BY <3>3, ReplaceFsm
    <3> QED BY <2>1, <3>2, <3>4
  <2> QED BY <1>2, <2>2, <2>3, OpenLink
<1> QED BY <1>1, <1>2

\* Whatever is received leaves the block in order, and a block that is not open as it was.
THEOREM InputKeeps ==
  ASSUME NEW l, LinkInv(l), NEW m \in Inputs(l)
  PROVE  LinkInv(m) /\ (~l.open => m = l)
<1>1. CASE ~l.open
  BY <1>1 DEF Inputs
<1>2. CASE l.open
  <2>1. \/ m = l \/ m = LcpLoopback(l) \/ m = LcpRejected(l) \/ m = IpcpRejected(l)
        \/ \E p \in Packet : m = LcpInput(l, p)
        \/ \E p \in Packet : \E address \in BOOLEAN : m = IpcpInput(l, p, address)
    BY <1>2 DEF Inputs
  <2>2. ASSUME NEW p \in Packet PROVE LinkInv(LcpInput(l, p))
    <3>1. Sound(l.lcp, fsm_input(l.lcp, p))
      BY <1>2, OpenLink, InputSound
    <3> QED BY <1>2, <3>1, LcpCallbackKeeps DEF LcpInput
  <2>3. ASSUME NEW p \in Packet, NEW address \in BOOLEAN PROVE LinkInv(IpcpInput(l, p, address))
    <3>1. address \in {TRUE, FALSE}
      OBVIOUS
    <3> QED BY <1>2, <3>1, IpcpInputKeeps
  <2> QED BY <1>2, <2>1, <2>2, <2>3, LoopbackKeeps, RejectedKeeps
<1> QED BY <1>1, <1>2
=============================================================================
