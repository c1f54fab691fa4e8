-------------------------- MODULE WebServiceProofs --------------------------
(***************************************************************************)
(* Proofs about WebService, for queues of any length and any number of     *)
(* sessions.                                                               *)
(***************************************************************************)
EXTENDS WebService, TLAPS

\* A message that is put into the response queue leaves a queue of messages within the
\* bound, and there is no new OK in it unless the message is one.
LEMMA PutMessage ==
  ASSUME NEW q \in Seq(State), NEW m \in State, ~Full(q), Len(q) <= QueueCap
  PROVE  /\ Append(q, m) \in Seq(State) /\ Len(Append(q, m)) <= QueueCap
         /\ m # "OK" => ((\E i \in DOMAIN Append(q, m) : Append(q, m)[i] = "OK")
                           => \E i \in DOMAIN q : q[i] = "OK")
BY WebAssumption DEF Full, State

\* Taking the first message leaves a queue of messages; an OK in the rest, or taken, was in
\* the queue.
LEMMA TakeMessage ==
  ASSUME NEW q \in Seq(State), q # <<>>, Len(q) <= QueueCap
  PROVE  /\ Tail(q) \in Seq(State) /\ Len(Tail(q)) <= QueueCap /\ Head(q) \in State
         /\ (\E i \in DOMAIN Tail(q) : Tail(q)[i] = "OK") => \E i \in DOMAIN q : q[i] = "OK"
         /\ Head(q) = "OK" => \E i \in DOMAIN q : q[i] = "OK"
<1>1. /\ Tail(q) \in Seq(State) /\ Len(Tail(q)) = Len(q) - 1 /\ Head(q) = q[1] /\ 1 \in DOMAIN q
      /\ Head(q) \in State
  OBVIOUS
<1>2. ASSUME NEW i \in DOMAIN Tail(q), Tail(q)[i] = "OK"
      PROVE  \E j \in DOMAIN q : q[j] = "OK"
  <2>1. i + 1 \in DOMAIN q /\ q[i + 1] = Tail(q)[i]
    BY <1>1
  <2> QED BY <1>2, <2>1
<1>3. Len(Tail(q)) <= QueueCap
  BY <1>1, WebAssumption
<1> QED BY <1>1, <1>2, <1>3

-----------------------------------------------------------------------------
\* Initially the queues are empty and both tasks are at their start.
LEMMA WebInit == Init => TypeOK /\ OneRequest
BY WebAssumption DEF Init, TypeOK, OneRequest, Answered

\* Every step of the callback and of the two tasks keeps the types and the queues' bound.
LEMMA WebTypeStep == TypeOK /\ [Next]_vars => TypeOK'
<1> SUFFICES ASSUME TypeOK, [Next]_vars PROVE TypeOK'
  OBVIOUS
<1> USE WebAssumption
<1>1. CASE SessionUp
  BY <1>1 DEF TypeOK, SessionUp
<1>2. CASE PostReady
  <2>1. /\ Append(responses, "READY") \in Seq(State)
        /\ Len(Append(responses, "READY")) <= QueueCap
    BY <1>2, PutMessage DEF TypeOK, PostReady, State
  <2> QED BY <1>2, <2>1 DEF TypeOK, PostReady
<1>3. CASE GiveUpReady
  BY <1>3 DEF TypeOK, GiveUpReady
<1>4. CASE WaitReady \/ TakeResponse
  <2>1. Tail(responses) \in Seq(State) /\ Len(Tail(responses)) <= QueueCap
    BY <1>4, TakeMessage DEF TypeOK, WaitReady, TakeResponse
  <2> QED BY <1>4, <2>1 DEF TypeOK, WaitReady, TakeResponse
<1>5. CASE Request
  <2>1. requests' \in Seq({"GET"}) /\ Len(requests') <= QueueCap
    BY <1>5 DEF TypeOK, Request, Full
  <2> QED BY <1>5, <2>1 DEF TypeOK, Request
<1>6. CASE PrintResponse
  BY <1>6 DEF TypeOK, PrintResponse
<1>7. CASE TakeRequest
  <2>1. requests' \in Seq({"GET"}) /\ Len(requests') <= QueueCap
    BY <1>7 DEF TypeOK, TakeRequest
  <2> QED BY <1>7, <2>1 DEF TypeOK, TakeRequest
<1>8. CASE Finish
  BY <1>8 DEF TypeOK, Finish
<1>9. CASE Respond
  <2>1. responses' \in Seq(State) /\ Len(responses') <= QueueCap
    <3>1. CASE Full(responses)
      BY <1>9, <3>1 DEF TypeOK, Respond
    <3>2. CASE ~Full(responses)
      <4>1. PICK m \in State : responses' = Append(responses, m)
        BY <1>9, <3>2 DEF Respond, State
      <4> QED BY <3>2, <4>1, PutMessage DEF TypeOK
    <3> QED BY <3>1, <3>2
  <2> QED BY <1>9, <2>1 DEF TypeOK, Respond
<1>10. CASE UNCHANGED vars
  BY <1>10 DEF TypeOK, vars
<1> QED
  BY <1>1, <1>2, <1>3, <1>4, <1>5, <1>6, <1>7, <1>8, <1>9, <1>10
  DEF Next, StatusCallback, TestTask, ClientTask

\* Every step keeps the only request where it is accounted for: what the callback and the
\* client post into the same queue never makes a second request, nor an early OK.
LEMMA OneRequestStep == TypeOK /\ OneRequest /\ [Next]_vars => OneRequest'
<1> SUFFICES ASSUME TypeOK, OneRequest, [Next]_vars PROVE OneRequest'
  OBVIOUS
<1> DEFINE HasOK(q) == \E i \in DOMAIN q : q[i] = "OK"
<1>0. HasOK(responses) => Answered /\ test \notin {"wait_ready", "request"}
  BY DEF OneRequest
<1>1. CASE SessionUp \/ GiveUpReady \/ UNCHANGED vars
  BY <1>1 DEF OneRequest, Answered, SessionUp, GiveUpReady, vars
<1>2. CASE PostReady
  <2>1. HasOK(responses') => HasOK(responses)
    BY <1>2, PutMessage DEF TypeOK, PostReady, State
  <2> QED BY <1>0, <1>2, <2>1 DEF OneRequest, Answered, PostReady
<1>3. CASE WaitReady
  <2>1. HasOK(responses') => HasOK(responses)
    BY <1>3, TakeMessage DEF TypeOK, WaitReady
  <2> HIDE DEF HasOK
  <2>2. HasOK(responses') => Answered' /\ test' \notin {"wait_ready", "request"}
    BY <1>0, <1>3, <2>1 DEF WaitReady
  <2>3. test' \in {"wait_ready", "request", "print"} => Answered'
    BY <1>3 DEF OneRequest, Answered, WaitReady
  <2> USE DEF HasOK
  <2> QED BY <1>3, <2>2, <2>3 DEF OneRequest, WaitReady
<1>4. CASE Request
  <2>1. Answered /\ ~HasOK(responses)
    BY <1>0, <1>4 DEF OneRequest, Request
  <2>2. Len(requests') <= 1
    BY <1>4, <2>1 DEF Request, Answered
  <2> QED BY <1>4, <2>1, <2>2 DEF OneRequest, Answered, Request
<1>5. CASE TakeResponse
  <2>1. /\ HasOK(responses') => HasOK(responses)
        /\ Head(responses) = "OK" => HasOK(responses)
    BY <1>5, TakeMessage DEF TypeOK, TakeResponse
  <2> HIDE DEF HasOK
  <2>2. test' \in {"wait_ready", "request", "print"} => Answered'
    BY <1>0, <1>5, <2>1 DEF TakeResponse, Answered
  <2>3. HasOK(responses') => Answered' /\ test' \notin {"wait_ready", "request"}
    BY <1>0, <1>5, <2>1 DEF TakeResponse, Answered
  <2> USE DEF HasOK
  <2> QED BY <1>5, <2>2, <2>3 DEF OneRequest, TakeResponse
<1>6. CASE PrintResponse
  BY <1>6 DEF OneRequest, Answered, PrintResponse
<1>7. CASE TakeRequest
  <2>1. requests' = <<>>
    BY <1>7 DEF OneRequest, TypeOK, TakeRequest
  <2>2. ~Answered
    BY <1>7 DEF Answered, TakeRequest
  <2> QED BY <1>0, <1>7, <2>1, <2>2 DEF OneRequest, TakeRequest
<1>8. CASE Finish
  BY <1>8 DEF OneRequest, Answered, Finish
<1>9. CASE Respond
  <2>1. /\ requests = <<>> /\ ~Answered
        /\ test \notin {"wait_ready", "request", "print"}
    BY <1>9 DEF OneRequest, Answered, Respond
  <2> QED BY <1>9, <2>1 DEF OneRequest, Answered, Respond
<1> QED
  BY <1>1, <1>2, <1>3, <1>4, <1>5, <1>6, <1>7, <1>8, <1>9
  DEF Next, StatusCallback, TestTask, ClientTask

-----------------------------------------------------------------------------
\* The types and the bound of both queues hold in every behaviour.
THEOREM WebTypeCorrect == Spec => []TypeOK
BY WebInit, WebTypeStep, PTL DEF Spec

\* In every behaviour there is one request in all, and no OK before it is answered.
THEOREM RequestOnce == Spec => []OneRequest
BY WebTypeCorrect, WebInit, OneRequestStep, PTL DEF Spec

\* The test task prints in_buff only while the client has nothing to write into it.
THEOREM BufferOwned == Spec => []BufferHandedOver
<1>1. OneRequest => BufferHandedOver
  BY DEF OneRequest, Answered, BufferHandedOver
<1> QED BY RequestOnce, <1>1, PTL
=============================================================================
