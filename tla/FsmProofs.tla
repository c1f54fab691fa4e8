----------------------------- MODULE FsmProofs -----------------------------
(***************************************************************************)
(* What the functions of fsm.c keep, for any number of retransmissions: an *)
(* automaton that has been started stays typed and keeps exactly one timer *)
(* while it waits, and its callback tells how it moved.                    *)
(***************************************************************************)
EXTENDS Fsm, TLAPS

\* No timer, and one timer (or none for want of a pbuf).
Idle(f)  == f.timers = 0 /\ f.starved = FALSE
Waits(f) == (f.timers = 1 /\ f.starved = FALSE) \/ (f.timers = 0 /\ f.starved = TRUE)

\* An automaton has its one timer exactly when it waits.
LEMMA WellTimedIs ==
  ASSUME NEW f \in Fsm
  PROVE  WellTimed(f) <=> IF f.state \in Timed THEN Waits(f) ELSE Idle(f)
<1>1. CASE f.starved
  BY <1>1 DEF WellTimed, Waits, Idle, Fsm
<1>2. CASE ~f.starved
  BY <1>2 DEF WellTimed, Waits, Idle, Fsm
<1> QED BY <1>1, <1>2

-----------------------------------------------------------------------------
(* The primitives. *)

\* A change of state leaves the timers alone.
LEMMA ToFacts ==
  ASSUME NEW f \in Fsm, NEW s \in FsmState
  PROVE  /\ To(f, s) \in Fsm /\ To(f, s).state = s
         /\ Idle(To(f, s)) <=> Idle(f)
         /\ Waits(To(f, s)) <=> Waits(f)
<1>1. /\ To(f, s) \in Fsm /\ To(f, s).state = s
      /\ To(f, s).timers = f.timers /\ To(f, s).starved = f.starved
  BY DEF To, Fsm
<1> QED BY <1>1 DEF Idle, Waits

\* So does a change of the counter of retransmissions.
LEMMA CountFacts ==
  ASSUME NEW f \in Fsm, NEW n \in Nat
  PROVE  LET g == [f EXCEPT !.retransmits = n]
         IN  /\ g \in Fsm /\ g.state = f.state /\ g.retransmits = n
             /\ Idle(g) <=> Idle(f)
             /\ Waits(g) <=> Waits(f)
<1> DEFINE g == [f EXCEPT !.retransmits = n]
<1>1. /\ g \in Fsm /\ g.state = f.state /\ g.timers = f.timers /\ g.starved = f.starved
      /\ g.retransmits = n
  BY DEF Fsm
<1> QED BY <1>1 DEF Idle, Waits

\* And noting an acknowledgement.
LEMMA AckFacts ==
  ASSUME NEW f \in Fsm, NEW b \in BOOLEAN
  PROVE  LET g == [f EXCEPT !.seen_ack = b]
         IN  /\ g \in Fsm /\ g.state = f.state /\ g.retransmits = f.retransmits
             /\ g.pbuf = f.pbuf
             /\ Idle(g) <=> Idle(f)
             /\ Waits(g) <=> Waits(f)
<1> DEFINE g == [f EXCEPT !.seen_ack = b]
<1>1. /\ g \in Fsm /\ g.state = f.state /\ g.timers = f.timers /\ g.starved = f.starved
      /\ g.retransmits = f.retransmits /\ g.pbuf = f.pbuf
  BY DEF Fsm
<1> QED BY <1>1 DEF Idle, Waits

\* Starting the timer of an automaton that has none.
LEMMA TimeoutFacts ==
  ASSUME NEW f \in Fsm, Idle(f)
  PROVE  TIMEOUT(f) \in Fsm /\ TIMEOUT(f).state = f.state /\ Waits(TIMEOUT(f))
<1>1. /\ TIMEOUT(f) \in Fsm /\ TIMEOUT(f).state = f.state
      /\ TIMEOUT(f).timers = f.timers + 1 /\ TIMEOUT(f).starved = f.starved
  BY DEF TIMEOUT, Fsm
<1> QED BY <1>1 DEF Idle, Waits

\* Cancelling the one timer that may be there.
LEMMA UntimeoutFacts ==
  ASSUME NEW f \in Fsm, Idle(f) \/ Waits(f)
  PROVE  UNTIMEOUT(f) \in Fsm /\ UNTIMEOUT(f).state = f.state /\ Idle(UNTIMEOUT(f))
<1> DEFINE t == IF f.timers > 0 THEN f.timers - 1 ELSE 0
           g == [f EXCEPT !.timers = t, !.starved = FALSE]
<1>1. t = 0
  BY DEF Idle, Waits
<1>2. UNTIMEOUT(f) = g
  BY DEF UNTIMEOUT
<1> HIDE DEF t
<1>3. g \in Fsm /\ g.state = f.state /\ g.timers = t
  BY <1>1 DEF Fsm
<1>4. g.starved = FALSE
  BY <1>1 DEF Fsm
<1> QED BY <1>1, <1>2, <1>3, <1>4 DEF Idle

\* fsm_sconfreq starts the timer, or notes that it could not.
LEMMA SconfreqFacts ==
  ASSUME NEW f \in Fsm, Idle(f), NEW re \in {TRUE, FALSE}, re => f.retransmits > 0
  PROVE  LET g == fsm_sconfreq(f, re)
         IN  g \in Fsm /\ g.state = f.state /\ Waits(g)
<1> DEFINE n == IF re THEN f.retransmits ELSE MaxConfReq
           a == [f EXCEPT !.retransmits = n, !.seen_ack = FALSE]
           b == [a EXCEPT !.retransmits = n - 1]
<1>1. n \in Nat /\ n - 1 \in Nat
  BY FsmAssumption DEF Fsm
<1>2. fsm_sconfreq(f, re) = IF a.pbuf THEN TIMEOUT([a EXCEPT !.retransmits = @ - 1])
                                      ELSE [a EXCEPT !.starved = TRUE]
  BY DEF fsm_sconfreq
<1> HIDE DEF n
<1>3. a \in Fsm /\ a.state = f.state /\ a.retransmits = n /\ a.timers = 0 /\ a.starved = FALSE
  BY <1>1 DEF Fsm, Idle
<1> HIDE DEF a
<1>4. b = [a EXCEPT !.retransmits = @ - 1]
  BY <1>3
<1>5. b \in Fsm /\ b.state = f.state /\ Idle(b)
  BY <1>1, <1>3, CountFacts DEF Idle
<1>6. CASE a.pbuf
  <2>1. fsm_sconfreq(f, re) = TIMEOUT(b)
    BY <1>2, <1>4, <1>6
  <2> HIDE DEF b
  <2> QED BY <2>1, <1>5, TimeoutFacts
<1>7. CASE ~a.pbuf
  <2> DEFINE c == [a EXCEPT !.starved = TRUE]
  <2>1. fsm_sconfreq(f, re) = c
    BY <1>2, <1>7
  <2>2. c \in Fsm /\ c.state = f.state /\ c.timers = 0
    BY <1>3 DEF Fsm
  <2>3. c.starved = TRUE
    BY <1>3 DEF Fsm
  <2> QED BY <2>1, <2>2, <2>3 DEF Waits
<1> QED BY <1>6, <1>7

\* A new Configure-Request.
LEMMA RequestFacts ==
  ASSUME NEW f \in Fsm, Idle(f)
  PROVE  Request(f) \in Fsm /\ Request(f).state = "REQSENT" /\ Waits(Request(f))
BY SconfreqFacts, ToFacts DEF Request, FsmState, Timed, Negotiating

-----------------------------------------------------------------------------
(* Events. *)

\* How a started automaton moves, as its callback tells it.
Started == Timed \cup {"OPENED"}
Sound(f, r) ==
  /\ r.f \in Fsm /\ WellTimed(r.f)
  /\ \/ r.cb = "none"     /\ f.state \in Timed   /\ r.f.state \in Timed
     \/ r.cb = "none"     /\ f.state = "OPENED"  /\ r.f.state = "OPENED"
     \/ r.cb = "up"       /\ f.state \in Timed   /\ r.f.state = "OPENED"
     \/ r.cb = "down"     /\ f.state = "OPENED"  /\ r.f.state \in Timed
     \/ r.cb = "finished" /\ f.state \in Timed   /\ r.f.state \in {"CLOSED", "STOPPED"}

\* The beginning: an automaton that is opened over a layer that is up waits for an answer.
LEMMA StartFacts ==
  ASSUME NEW f \in Fsm, f.state \in {"INITIAL", "STARTING"}, WellTimed(f)
  PROVE  LET g == fsm_lowerup(fsm_open(f).f).f
         IN  g \in Fsm /\ g.state \in Timed /\ WellTimed(g)
<1>1. Idle(f)
  BY WellTimedIs DEF Timed, Negotiating, Closing
<1>2. PICK g \in Fsm : fsm_open(f).f = g /\ g.state = "STARTING" /\ Idle(g)
  BY <1>1, ToFacts DEF fsm_open, Only, FsmState
<1>3. fsm_lowerup(fsm_open(f).f).f = Request(fsm_open(f).f)
  BY <1>2 DEF fsm_lowerup, Only
<1> QED BY <1>2, <1>3, RequestFacts, WellTimedIs DEF Timed, Negotiating

\* The same for the upper layer, in the order in which LCP starts IPCP.
LEMMA StartUpperFacts ==
  ASSUME NEW f \in Fsm, f.state = "INITIAL", WellTimed(f)
  PROVE  LET g == fsm_open(fsm_lowerup(f).f).f
         IN  g \in Fsm /\ g.state \in Timed /\ WellTimed(g)
<1>1. Idle(f)
  BY WellTimedIs DEF Timed, Negotiating, Closing
<1>2. PICK g \in Fsm : fsm_lowerup(f).f = g /\ g.state = "CLOSED" /\ Idle(g)
  BY <1>1, ToFacts DEF fsm_lowerup, Only, FsmState
<1>3. fsm_open(fsm_lowerup(f).f).f = Request(fsm_lowerup(f).f)
  BY <1>2 DEF fsm_open, Only
<1> QED BY <1>2, <1>3, RequestFacts, WellTimedIs DEF Timed, Negotiating

\* The lower layer going down leaves an automaton that is not started.
LEMMA LowerdownFacts ==
  ASSUME NEW f \in Fsm, WellTimed(f)
  PROVE  LET r == fsm_lowerdown(f)
         IN  /\ r.f \in Fsm /\ WellTimed(r.f) /\ r.f.state \in {"INITIAL", "STARTING"}
             /\ r.cb = IF f.state = "OPENED" THEN "down" ELSE "none"
<1> DEFINE r == fsm_lowerdown(f)
<1>1. r.cb = IF f.state = "OPENED" THEN "down" ELSE "none"
  BY DEF fsm_lowerdown, Only, Then, Timed, Negotiating, Closing, Fsm, FsmState
<1>2. CASE f.state \in Timed
  <2>1. PICK s \in {"INITIAL", "STARTING"} : r.f = UNTIMEOUT(To(f, s))
    BY <1>2 DEF fsm_lowerdown, Only, Timed, Negotiating, Closing
  <2>2. To(f, s) \in Fsm /\ Waits(To(f, s)) /\ To(f, s).state = s
    BY <1>2, <2>1, ToFacts, WellTimedIs DEF FsmState
  <2> QED BY <1>1, <2>1, <2>2, UntimeoutFacts, WellTimedIs DEF Timed, Negotiating, Closing
<1>3. CASE f.state \notin Timed
  <2>1. PICK s \in {"INITIAL", "STARTING"} : r.f = To(f, s) \/ (r.f = f /\ f.state = s)
    BY <1>3 DEF fsm_lowerdown, Only, Then, Timed, Negotiating, Closing, Fsm, FsmState
  <2>2. To(f, s) \in Fsm /\ Idle(To(f, s)) /\ To(f, s).state = s
    BY <1>3, <2>1, ToFacts, WellTimedIs DEF FsmState
  <2> QED BY <1>1, <1>3, <2>1, <2>2, WellTimedIs DEF Timed, Negotiating, Closing
<1> QED BY <1>2, <1>3

\* Termination waits for an answer.
LEMMA TerminateFacts ==
  ASSUME NEW f \in Fsm, WellTimed(f), NEW s \in Closing,
         f.state \in Negotiating \cup {"OPENED"}
  PROVE  LET r == terminate_layer(f, s)
         IN  /\ r.f \in Fsm /\ WellTimed(r.f) /\ r.f.state = s
             /\ r.cb = IF f.state = "OPENED" THEN "down" ELSE "none"
<1> DEFINE quiet == IF f.state = "OPENED" THEN f ELSE UNTIMEOUT(f)
           g == [quiet EXCEPT !.retransmits = MaxTermReq - 1]
<1>1. quiet \in Fsm /\ Idle(quiet)
  BY UntimeoutFacts, WellTimedIs DEF Timed, Negotiating, Closing
<1>2. /\ terminate_layer(f, s).f = To(TIMEOUT(g), s)
      /\ terminate_layer(f, s).cb = IF f.state = "OPENED" THEN "down" ELSE "none"
  BY DEF terminate_layer, Then
<1> HIDE DEF quiet
<1>3. g \in Fsm /\ Idle(g)
  BY <1>1, CountFacts, FsmAssumption
<1> HIDE DEF g
<1>4. TIMEOUT(g) \in Fsm /\ Waits(TIMEOUT(g))
  BY <1>3, TimeoutFacts
<1>5. s \in FsmState /\ s \in Timed
  BY DEF Closing, Timed, FsmState
<1> QED BY <1>2, <1>4, <1>5, ToFacts, WellTimedIs

\* Closing an automaton that is started, or is not.
LEMMA CloseFacts ==
  ASSUME NEW f \in Fsm, WellTimed(f)
  PROVE  LET r == fsm_close(f)
         IN  /\ f.state \in Started => Sound(f, r) /\ r.f.state \in Closing
             /\ f.state \in {"INITIAL", "STARTING"} =>
                  /\ r.f \in Fsm /\ WellTimed(r.f) /\ r.f.state = "INITIAL" /\ r.cb = "none"
<1>1. CASE f.state \in Negotiating \cup {"OPENED"}
  <2>1. fsm_close(f) = terminate_layer(f, "CLOSING")
    BY <1>1 DEF fsm_close, Negotiating
  <2> QED BY <1>1, <2>1, TerminateFacts DEF Sound, Timed, Negotiating, Closing, Started
<1>2. CASE f.state \in Closing
  <2>1. \/ fsm_close(f) = Only(f)
        \/ fsm_close(f) = Only(To(f, "CLOSING"))
    BY <1>2 DEF fsm_close, Closing, Negotiating
  <2> QED BY <1>2, <2>1, ToFacts, WellTimedIs DEF Sound, Only, Timed, Negotiating, Closing, Started, FsmState
<1>3. CASE f.state \in {"INITIAL", "STARTING"}
  <2>1. \/ fsm_close(f) = Only(f) /\ f.state = "INITIAL"
        \/ fsm_close(f) = Only(To(f, "INITIAL"))
    BY <1>3 DEF fsm_close, Closing, Negotiating
  <2> QED BY <1>3, <2>1, ToFacts, WellTimedIs DEF Only, Timed, Negotiating, Closing, Started, FsmState
<1> QED BY <1>1, <1>2, <1>3 DEF Started, Timed

\* A timer that is due is the only one, and the next is set if the automaton goes on waiting.
LEMMA TimerSound ==
  ASSUME NEW f \in Fsm, WellTimed(f), f.timers > 0
  PROVE  f.state \in Timed /\ Sound(f, fsm_timeout(f))
<1> DEFINE g == [f EXCEPT !.timers = @ - 1]
           over == g.retransmits <= 0
<1>1. f.state \in Timed /\ f.timers = 1 /\ f.starved = FALSE
  <2>1. ~Idle(f)
    BY DEF Idle
  <2>2. f.state \in Timed /\ Waits(f)
    BY <2>1, WellTimedIs
  <2> QED BY <2>2 DEF Waits
<1>2. g \in Fsm /\ g.state = f.state /\ Idle(g)
  <2>1. g \in Fsm /\ g.state = f.state /\ g.timers = 0
    BY <1>1 DEF Fsm
  <2>2. g.starved = FALSE
    BY <1>1 DEF Fsm
  <2> QED BY <2>1, <2>2 DEF Idle
<1>3. fsm_timeout(f) =
        CASE g.state = "CLOSING" /\ over  -> Then(To(g, "CLOSED"), "finished")
          [] g.state = "STOPPING" /\ over -> Then(To(g, "STOPPED"), "finished")
          [] g.state \in Closing /\ ~over -> Only(TIMEOUT([g EXCEPT !.retransmits = @ - 1]))
          [] g.state \in Negotiating /\ over  -> Then(To(g, "STOPPED"), "finished")
          [] g.state \in Negotiating /\ ~over -> Only(Retransmit(g))
          [] OTHER -> Only(g)
  BY DEF fsm_timeout
<1> HIDE DEF g
<1>4. CASE over
  <2>1. PICK s \in {"CLOSED", "STOPPED"} : fsm_timeout(f) = Then(To(g, s), "finished")
    BY <1>1, <1>2, <1>3, <1>4 DEF Timed, Closing, Negotiating
  <2>2. To(g, s) \in Fsm /\ To(g, s).state = s /\ Idle(To(g, s))
    BY <1>2, ToFacts DEF FsmState
  <2> QED BY <1>1, <2>1, <2>2, WellTimedIs DEF Sound, Then, Timed, Closing, Negotiating
<1>5. CASE ~over /\ g.state \in Closing
  <2> DEFINE h == [g EXCEPT !.retransmits = @ - 1]
  <2>1. fsm_timeout(f) = Only(TIMEOUT(h))
    BY <1>2, <1>3, <1>5 DEF Closing, Negotiating
  <2>2. g.retransmits \in Nat /\ g.retransmits - 1 \in Nat
    BY <1>2, <1>5 DEF Fsm
  <2>3. h \in Fsm /\ h.state = g.state /\ Idle(h)
    BY <1>2, <2>2, CountFacts
  <2> HIDE DEF h
  <2>4. TIMEOUT(h) \in Fsm /\ TIMEOUT(h).state = g.state /\ Waits(TIMEOUT(h))
    BY <2>3, TimeoutFacts
  <2> QED BY <1>1, <1>2, <2>1, <2>4, WellTimedIs DEF Sound, Only
<1>6. CASE ~over /\ g.state \in Negotiating
  <2> DEFINE h == fsm_sconfreq(g, TRUE)
  <2>1. fsm_timeout(f) = Only(Retransmit(g))
    BY <1>2, <1>3, <1>6 DEF Closing, Negotiating
  <2>2. g.retransmits > 0
    BY <1>2, <1>6 DEF Fsm
  <2>3. h \in Fsm /\ h.state = g.state /\ Waits(h)
    BY <1>2, <2>2, SconfreqFacts
  <2> HIDE DEF h
  <2>4. Retransmit(g) = h \/ Retransmit(g) = To(h, "REQSENT")
    BY DEF Retransmit, h
  <2>5. /\ Retransmit(g) \in Fsm /\ Retransmit(g).state \in Timed
        /\ Waits(Retransmit(g))
    <3>1. CASE Retransmit(g) = h
      BY <1>1, <1>2, <2>3, <3>1
    <3>2. CASE Retransmit(g) = To(h, "REQSENT")
      BY <2>3, <3>2, ToFacts DEF FsmState, Timed, Negotiating
    <3> QED BY <2>4, <3>1, <3>2
  <2> QED BY <1>1, <2>1, <2>5, WellTimedIs DEF Sound, Only
<1> QED BY <1>1, <1>2, <1>4, <1>5, <1>6 DEF Timed

\* An automaton that was open and starts again.
LEMMA RestartSound ==
  ASSUME NEW f \in Fsm, f.state = "OPENED", Idle(f)
  PROVE  Restart(f).f = Request(f) /\ Restart(f).cb = "down"
BY DEF Restart, Then

\* The end of a negotiation cancels the timer.
LEMMA OpenedFacts ==
  ASSUME NEW f \in Fsm, Waits(f), f.state \in Timed
  PROVE  /\ Opened(f).f \in Fsm /\ Opened(f).f.state = "OPENED" /\ Idle(Opened(f).f)
         /\ Opened(f).cb = "up"
BY UntimeoutFacts, ToFacts DEF Opened, Then, FsmState

\* Configure-Request.
LEMMA ConfReqSound ==
  ASSUME NEW f \in Fsm, WellTimed(f), f.state \in Started, NEW agree \in {TRUE, FALSE}
  PROVE  Sound(f, fsm_rconfreq(f, agree))
<1>1. CASE f.state \in Closing
  <2>1. fsm_rconfreq(f, agree) = Only(f)
    BY <1>1 DEF fsm_rconfreq
  <2> QED BY <1>1, <2>1 DEF Sound, Only, Timed
<1>2. CASE f.state = "OPENED"
  <2> DEFINE g == Request(f)
  <2>1. Idle(f) /\ g \in Fsm /\ g.state = "REQSENT" /\ Waits(g)
    BY <1>2, WellTimedIs, RequestFacts DEF Timed, Negotiating, Closing
  <2> HIDE DEF g
  <2>2. PICK s \in {"ACKSENT", "REQSENT"} : fsm_rconfreq(f, agree) = Then(To(g, s), "down")
    BY <1>2, <2>1 DEF fsm_rconfreq, Restart, Then, Closing, g
  <2>3. To(g, s) \in Fsm /\ To(g, s).state = s /\ Waits(To(g, s))
    BY <2>1, ToFacts DEF FsmState, Timed, Negotiating
  <2> QED BY <1>2, <2>2, <2>3, WellTimedIs DEF Sound, Then, Timed, Negotiating
<1>3. CASE f.state \in Negotiating
  <2>1. Waits(f) /\ f.state \in Timed
    BY <1>3, WellTimedIs DEF Timed
  <2>2. \/ fsm_rconfreq(f, agree) = Opened(f)
        \/ \E s \in {"ACKSENT", "REQSENT"} : fsm_rconfreq(f, agree) = Then(To(f, s), "none")
        \/ fsm_rconfreq(f, agree) = Only(f)
    BY <1>3 DEF fsm_rconfreq, Only, Then, Closing, Negotiating
  <2>3. CASE fsm_rconfreq(f, agree) = Opened(f)
    BY <2>1, <2>3, OpenedFacts, WellTimedIs DEF Sound, Timed, Negotiating, Closing
  <2>4. CASE \E s \in {"ACKSENT", "REQSENT"} : fsm_rconfreq(f, agree) = Then(To(f, s), "none")
    <3>1. PICK s \in {"ACKSENT", "REQSENT"} : fsm_rconfreq(f, agree) = Then(To(f, s), "none")
      BY <2>4
    <3>2. To(f, s) \in Fsm /\ To(f, s).state = s /\ Waits(To(f, s))
      BY <2>1, ToFacts DEF FsmState, Timed, Negotiating
    <3> QED BY <2>1, <3>1, <3>2, WellTimedIs DEF Sound, Then, Timed, Negotiating
  <2>5. CASE fsm_rconfreq(f, agree) = Only(f)
    BY <2>1, <2>5 DEF Sound, Only
  <2> QED BY <2>2, <2>3, <2>4, <2>5
<1> QED BY <1>1, <1>2, <1>3 DEF Started, Timed

\* Configure-Ack.
LEMMA ConfAckSound ==
  ASSUME NEW g \in Fsm, WellTimed(g), g.state \in Started
  PROVE  Sound(g, fsm_rconfack(g))
<1> DEFINE f == [g EXCEPT !.seen_ack = TRUE]
           full == [f EXCEPT !.retransmits = MaxConfReq]
<1>1. f \in Fsm /\ f.state = g.state /\ (Idle(f) <=> Idle(g)) /\ (Waits(f) <=> Waits(g))
  BY AckFacts
<1>2. fsm_rconfack(g) =
        CASE g.seen_ack -> Only(g)
          [] OTHER -> CASE f.state = "REQSENT" -> Only(To(full, "ACKRCVD"))
                        [] f.state = "ACKRCVD" -> Only(Request(UNTIMEOUT(f)))
                        [] f.state = "ACKSENT" -> Opened(full)
                        [] f.state = "OPENED"  -> Restart(f)
                        [] OTHER               -> Only(f)
  BY DEF fsm_rconfack
<1> HIDE DEF f
<1>3. full \in Fsm /\ full.state = f.state /\ (Waits(full) <=> Waits(f))
  BY <1>1, CountFacts, FsmAssumption
<1> HIDE DEF full
<1>4. CASE g.seen_ack
  <2>1. fsm_rconfack(g) = Only(g)
    BY <1>2, <1>4
  <2> QED BY <2>1 DEF Sound, Only, Started
<1>5. CASE ~g.seen_ack /\ f.state = "OPENED"
  <2>1. fsm_rconfack(g) = Restart(f)
    BY <1>2, <1>5
  <2>2. Idle(f)
    BY <1>1, <1>5, WellTimedIs DEF Timed, Negotiating, Closing
  <2> QED BY <1>1, <1>5, <2>1, <2>2, RestartSound, RequestFacts, WellTimedIs
          DEF Sound, Timed, Negotiating
<1>6. CASE ~g.seen_ack /\ f.state \in Timed
  <2>1. Waits(f) /\ Waits(full)
    BY <1>1, <1>3, <1>6, WellTimedIs
  <2>2. \/ f.state = "REQSENT" /\ fsm_rconfack(g) = Only(To(full, "ACKRCVD"))
        \/ f.state = "ACKRCVD" /\ fsm_rconfack(g) = Only(Request(UNTIMEOUT(f)))
        \/ f.state = "ACKSENT" /\ fsm_rconfack(g) = Opened(full)
        \/ fsm_rconfack(g) = Only(f)
    BY <1>2, <1>6 DEF Timed, Negotiating, Closing
  <2>3. CASE f.state = "REQSENT" /\ fsm_rconfack(g) = Only(To(full, "ACKRCVD"))
    BY <1>1, <1>3, <1>6, <2>1, <2>3, ToFacts, WellTimedIs
    DEF Sound, Only, FsmState, Timed, Negotiating
  <2>4. CASE f.state = "ACKRCVD" /\ fsm_rconfack(g) = Only(Request(UNTIMEOUT(f)))
    BY <1>1, <1>6, <2>1, <2>4, UntimeoutFacts, RequestFacts, WellTimedIs
    DEF Sound, Only, Timed, Negotiating
  <2>5. CASE f.state = "ACKSENT" /\ fsm_rconfack(g) = Opened(full)
    BY <1>1, <1>3, <1>6, <2>1, <2>5, OpenedFacts, WellTimedIs
    DEF Sound, Timed, Negotiating, Closing
  <2>6. CASE fsm_rconfack(g) = Only(f)
    BY <1>1, <1>6, <2>1, <2>6, WellTimedIs DEF Sound, Only
  <2> QED BY <2>2, <2>3, <2>4, <2>5, <2>6
<1> QED BY <1>1, <1>4, <1>5, <1>6 DEF Started

\* Configure-Nak and Configure-Reject.
LEMMA ConfNakRejSound ==
  ASSUME NEW g \in Fsm, WellTimed(g), g.state \in Started
  PROVE  Sound(g, fsm_rconfnakrej(g))
<1> DEFINE f == [g EXCEPT !.seen_ack = TRUE]
           again == fsm_sconfreq(UNTIMEOUT(f), FALSE)
<1>1. f \in Fsm /\ f.state = g.state /\ (Idle(f) <=> Idle(g)) /\ (Waits(f) <=> Waits(g))
  BY AckFacts
<1>2. fsm_rconfnakrej(g) =
        CASE g.seen_ack -> Only(g)
          [] OTHER -> CASE f.state \in {"REQSENT", "ACKSENT"} -> Only(again)
                        [] f.state = "ACKRCVD"                -> Only(To(again, "REQSENT"))
                        [] f.state = "OPENED"                 -> Restart(f)
                        [] OTHER                              -> Only(f)
  BY DEF fsm_rconfnakrej
<1> HIDE DEF f
<1>3. CASE g.seen_ack
  <2>1. fsm_rconfnakrej(g) = Only(g)
    BY <1>2, <1>3
  <2> QED BY <2>1 DEF Sound, Only, Started
<1>4. CASE ~g.seen_ack /\ f.state = "OPENED"
  <2>1. fsm_rconfnakrej(g) = Restart(f)
    BY <1>2, <1>4
  <2>2. Idle(f)
    BY <1>1, <1>4, WellTimedIs DEF Timed, Negotiating, Closing
  <2> QED BY <1>1, <1>4, <2>1, <2>2, RestartSound, RequestFacts, WellTimedIs
          DEF Sound, Timed, Negotiating
<1>5. CASE ~g.seen_ack /\ f.state \in Timed
  <2>1. Waits(f)
    BY <1>1, <1>5, WellTimedIs
  <2>2. again \in Fsm /\ again.state = f.state /\ Waits(again)
    <3>1. UNTIMEOUT(f) \in Fsm /\ UNTIMEOUT(f).state = f.state /\ Idle(UNTIMEOUT(f))
      BY <1>1, <2>1, UntimeoutFacts
    <3> QED BY <3>1, SconfreqFacts
  <2> HIDE DEF again
  <2>3. \/ fsm_rconfnakrej(g) = Only(again)
        \/ fsm_rconfnakrej(g) = Only(To(again, "REQSENT"))
        \/ fsm_rconfnakrej(g) = Only(f)
    BY <1>2, <1>5 DEF Timed, Negotiating, Closing
  <2>4. CASE fsm_rconfnakrej(g) = Only(again)
    BY <1>1, <1>5, <2>2, <2>4, WellTimedIs DEF Sound, Only
  <2>5. CASE fsm_rconfnakrej(g) = Only(To(again, "REQSENT"))
    BY <1>1, <1>5, <2>2, <2>5, ToFacts, WellTimedIs DEF Sound, Only, FsmState, Timed, Negotiating
  <2>6. CASE fsm_rconfnakrej(g) = Only(f)
    BY <1>1, <1>5, <2>1, <2>6, WellTimedIs DEF Sound, Only
  <2> QED BY <2>3, <2>4, <2>5, <2>6
<1> QED BY <1>1, <1>3, <1>4, <1>5 DEF Started

\* Terminate-Request: an open automaton waits one more period before it ends.
LEMMA TermReqSound ==
  ASSUME NEW f \in Fsm, WellTimed(f), f.state \in Started
  PROVE  Sound(f, fsm_rtermreq(f))
<1>1. CASE f.state = "OPENED"
  <2> DEFINE g == [f EXCEPT !.retransmits = 0]
  <2>1. fsm_rtermreq(f) = Then(TIMEOUT(To(g, "STOPPING")), "down")
    BY <1>1 DEF fsm_rtermreq
  <2>2. g \in Fsm /\ Idle(g)
    BY <1>1, CountFacts, WellTimedIs DEF Timed, Negotiating, Closing
  <2> HIDE DEF g
  <2>3. To(g, "STOPPING") \in Fsm /\ To(g, "STOPPING").state = "STOPPING" /\ Idle(To(g, "STOPPING"))
    BY <2>2, ToFacts DEF FsmState, Timed, Closing
  <2> QED BY <1>1, <2>1, <2>3, TimeoutFacts, WellTimedIs DEF Sound, Then, Timed, Closing
<1>2. CASE f.state \in {"ACKRCVD", "ACKSENT"}
  <2>1. fsm_rtermreq(f) = Only(To(f, "REQSENT")) /\ Waits(f) /\ f.state \in Timed
    BY <1>2, WellTimedIs DEF fsm_rtermreq, Timed, Negotiating
  <2> QED BY <2>1, ToFacts, WellTimedIs DEF Sound, Only, FsmState, Timed, Negotiating
<1>3. CASE f.state \notin {"ACKRCVD", "ACKSENT", "OPENED"}
  <2>1. fsm_rtermreq(f) = Only(f)
    BY <1>3 DEF fsm_rtermreq
  <2> QED BY <1>3, <2>1 DEF Sound, Only, Started
<1> QED BY <1>1, <1>2, <1>3

\* Terminate-Ack: what closes is closed, and its timer cancelled.
LEMMA TermAckSound ==
  ASSUME NEW f \in Fsm, WellTimed(f), f.state \in Started
  PROVE  Sound(f, fsm_rtermack(f))
<1>1. CASE f.state = "OPENED"
  <2>1. fsm_rtermack(f) = Restart(f) /\ Idle(f)
    BY <1>1, WellTimedIs DEF fsm_rtermack, Timed, Negotiating, Closing
  <2> QED BY <1>1, <2>1, RestartSound, RequestFacts, WellTimedIs DEF Sound, Timed, Negotiating
<1>2. CASE f.state \in Closing
  <2>1. PICK s \in {"CLOSED", "STOPPED"} : fsm_rtermack(f) = Then(UNTIMEOUT(To(f, s)), "finished")
    BY <1>2 DEF fsm_rtermack, Closing
  <2>2. To(f, s) \in Fsm /\ To(f, s).state = s /\ Waits(To(f, s))
    BY <1>2, ToFacts, WellTimedIs DEF FsmState, Timed
  <2> QED BY <1>2, <2>1, <2>2, UntimeoutFacts, WellTimedIs
          DEF Sound, Then, Timed, Negotiating, Closing
<1>3. CASE f.state = "ACKRCVD"
  <2>1. fsm_rtermack(f) = Only(To(f, "REQSENT")) /\ Waits(f) /\ f.state \in Timed
    BY <1>3, WellTimedIs DEF fsm_rtermack, Timed, Negotiating
  <2> QED BY <2>1, ToFacts, WellTimedIs DEF Sound, Only, FsmState, Timed, Negotiating
<1>4. CASE f.state \in {"REQSENT", "ACKSENT"}
  <2>1. fsm_rtermack(f) = Only(f)
    BY <1>4 DEF fsm_rtermack
  <2> QED BY <1>4, <2>1 DEF Sound, Only, Timed, Negotiating
<1> QED BY <1>1, <1>2, <1>3, <1>4 DEF Started, Timed, Negotiating

\* Code-Reject.
LEMMA CodeRejSound ==
  ASSUME NEW f \in Fsm, WellTimed(f), f.state \in Started
  PROVE  Sound(f, fsm_rcoderej(f))
<1>1. CASE f.state = "ACKRCVD"
  <2>1. fsm_rcoderej(f) = Only(To(f, "REQSENT")) /\ Waits(f) /\ f.state \in Timed
    BY <1>1, WellTimedIs DEF fsm_rcoderej, Timed, Negotiating
  <2> QED BY <2>1, ToFacts, WellTimedIs DEF Sound, Only, FsmState, Timed, Negotiating
<1>2. CASE f.state # "ACKRCVD"
  <2>1. fsm_rcoderej(f) = Only(f)
    BY <1>2 DEF fsm_rcoderej
  <2> QED BY <2>1 DEF Sound, Only, Started
<1> QED BY <1>1, <1>2

\* Whatever the peer sends: a started automaton keeps its one timer.
THEOREM InputSound ==
  ASSUME NEW f \in Fsm, WellTimed(f), f.state \in Started, NEW p \in Packet
  PROVE  Sound(f, fsm_input(f, p))
<1>1. f.state \notin {"INITIAL", "STARTING"}
  BY DEF Started, Timed, Negotiating, Closing
<1>2. /\ p = "ConfReq" => fsm_input(f, p) = fsm_rconfreq(f, TRUE)
      /\ p = "ConfReqBad" => fsm_input(f, p) = fsm_rconfreq(f, FALSE)
      /\ p = "ConfAck" => fsm_input(f, p) = fsm_rconfack(f)
      /\ p = "ConfNakRej" => fsm_input(f, p) = fsm_rconfnakrej(f)
      /\ p = "TermReq" => fsm_input(f, p) = fsm_rtermreq(f)
      /\ p = "TermAck" => fsm_input(f, p) = fsm_rtermack(f)
      /\ p = "CodeRej" => fsm_input(f, p) = fsm_rcoderej(f)
  BY <1>1 DEF fsm_input
<1> QED BY <1>2, ConfReqSound, ConfAckSound, ConfNakRejSound, TermReqSound, TermAckSound, CodeRejSound DEF Packet
=============================================================================
