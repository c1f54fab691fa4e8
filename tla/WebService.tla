----------------------------- MODULE WebService -----------------------------
(***************************************************************************)
(* The two message queues between the tasks that use the web: the status   *)
(* callback of PPP announces each session with httpc_READY in the response *)
(* queue; HTTPSClientTest_Task waits for that, sends one request and takes *)
(* the next message of the same queue as its response; HTTPSClient_Task    *)
(* carries requests out.                                                   *)
(***************************************************************************)
EXTENDS Naturals, Sequences

CONSTANTS
  QueueCap,    \* the length of both queues (5)
  MaxSessions  \* bound: how many sessions PPP brings up

ASSUME WebAssumption == QueueCap \in Nat \ {0} /\ MaxSessions \in Nat

VARIABLES
  requests,    \* web_queue_request
  responses,   \* web_queue_response
  test,        \* where HTTPSClientTest_Task is
  client,      \* where HTTPSClient_Task is
  status,      \* the status callback: "idle", or "posting" with the core lock held
  sessions     \* how many sessions have come up

vars == <<requests, responses, test, client, status, sessions>>

State == {"OK", "ERROR", "READY"}     \* httpsClientState

TypeOK ==
  /\ requests \in Seq({"GET"}) /\ Len(requests) <= QueueCap
  /\ responses \in Seq(State) /\ Len(responses) <= QueueCap
  /\ test \in {"wait_ready", "request", "wait_response", "print", "idle"}
  /\ client \in {"idle", "working", "respond_OK", "respond_ERROR"}
  /\ status \in {"idle", "posting"}
  /\ sessions \in Nat

Init ==
  /\ requests = <<>> /\ responses = <<>>
  /\ test = "wait_ready" /\ client = "idle" /\ status = "idle"
  /\ sessions = 0

Full(q) == Len(q) >= QueueCap

-----------------------------------------------------------------------------
(* The status callback, called by tcpip_thread under the core lock. *)

\* sifup: the session carries IP, for the first time or after a renegotiation.
SessionUp ==
  /\ status = "idle" /\ sessions < MaxSessions
  /\ status' = "posting" /\ sessions' = sessions + 1
  /\ UNCHANGED <<requests, responses, test, client>>

\* Mutant: the callback posts the state that the client posts.
PostReady_WrongState ==
  /\ status = "posting" /\ ~Full(responses)
  /\ responses' = Append(responses, "OK")
  /\ status' = "idle"
  /\ UNCHANGED <<requests, test, client, sessions>>

PostReady ==
  /\ status = "posting" /\ ~Full(responses)
  /\ responses' = Append(responses, "READY")
  /\ status' = "idle"
  /\ UNCHANGED <<requests, test, client, sessions>>

\* Mutant: osWaitForever instead of a timeout.
GiveUpReady_Never == FALSE /\ UNCHANGED vars

\* After 1000 ms in front of a full queue the message is dropped.
GiveUpReady ==
  /\ status = "posting" /\ Full(responses)
  /\ status' = "idle"
  /\ UNCHANGED <<requests, responses, test, client, sessions>>

StatusCallback == PostReady \/ GiveUpReady

-----------------------------------------------------------------------------
(* HTTPSClientTest_Task. *)

\* Mutant: the request is repeated when something else than its answer comes.
TakeResponse_Repeats ==
  /\ test = "wait_response" /\ responses # <<>>
  /\ test' = CASE Head(responses) = "OK"    -> "print"
               [] Head(responses) = "READY" -> "request"
               [] OTHER                     -> "idle"
  /\ responses' = Tail(responses)
  /\ UNCHANGED <<requests, client, status, sessions>>

\* Messages are discarded until one says httpc_READY.
WaitReady ==
  /\ test = "wait_ready" /\ responses # <<>>
  /\ test' = IF Head(responses) = "READY" THEN "request" ELSE test
  /\ responses' = Tail(responses)
  /\ UNCHANGED <<requests, client, status, sessions>>

\* Mutant: the request is put without regard to the room.
Request_Twice ==
  /\ test = "request"
  /\ requests' = requests \o [i \in 1..QueueCap + 1 |-> "GET"]
  /\ test' = "wait_response"
  /\ UNCHANGED <<responses, client, status, sessions>>

\* The request goes to the queue, and would be dropped if that stayed full.
Request ==
  /\ test = "request"
  /\ requests' = IF Full(requests) THEN requests ELSE Append(requests, "GET")
  /\ test' = "wait_response"
  /\ UNCHANGED <<responses, client, status, sessions>>

\* Mutant: everything but an error counts as success.
TakeResponse_NotError ==
  /\ test = "wait_response" /\ responses # <<>>
  /\ test' = IF Head(responses) # "ERROR" THEN "print" ELSE "idle"
  /\ responses' = Tail(responses)
  /\ UNCHANGED <<requests, client, status, sessions>>

\* Whatever message comes next is the response.  in_buff is printed for httpc_OK, and
\* an error is reported for anything else.
TakeResponse ==
  /\ test = "wait_response" /\ responses # <<>>
  /\ test' = IF Head(responses) = "OK" THEN "print" ELSE "idle"
  /\ responses' = Tail(responses)
  /\ UNCHANGED <<requests, client, status, sessions>>

\* in_buff is read, and the task idles from then on.
PrintResponse ==
  /\ test = "print"
  /\ test' = "idle"
  /\ UNCHANGED <<requests, responses, client, status, sessions>>

TestTask == WaitReady \/ Request \/ TakeResponse \/ PrintResponse

-----------------------------------------------------------------------------
(* HTTPSClient_Task. *)

TakeRequest ==
  /\ client = "idle" /\ requests # <<>>
  /\ client' = "working"
  /\ requests' = Tail(requests)
  /\ UNCHANGED <<responses, test, status, sessions>>

\* HTTPClient has written in_buff, and returns from its last socket call, for which it
\* needs the core lock.
Finish ==
  /\ client = "working" /\ status = "idle"
  /\ client' \in {"respond_OK", "respond_ERROR"}
  /\ UNCHANGED <<requests, responses, test, status, sessions>>

\* The response is posted, or dropped after 1000 ms in front of a full queue.
Respond ==
  /\ client \in {"respond_OK", "respond_ERROR"}
  /\ responses' = IF Full(responses) THEN responses
                  ELSE Append(responses, IF client = "respond_OK" THEN "OK" ELSE "ERROR")
  /\ client' = "idle"
  /\ UNCHANGED <<requests, test, status, sessions>>

ClientTask == TakeRequest \/ Finish \/ Respond

-----------------------------------------------------------------------------
Next == SessionUp \/ StatusCallback \/ TestTask \/ ClientTask

Spec == Init /\ [][Next]_vars

\* The tasks run when they can, and a put to a queue ends at its timeout.  How long
\* HTTPClient works is not bounded.
FairSpec ==
  Spec /\ WF_vars(StatusCallback) /\ WF_vars(TestTask) /\ WF_vars(TakeRequest \/ Respond)

-----------------------------------------------------------------------------
(* Properties. *)

\* in_buff belongs to the client from the request to the response: the test task never
\* reads it while the client may write it, although it may take a message that is not
\* its response.
BufferHandedOver == test = "print" => client # "working" /\ requests = <<>>

\* Why that is so: there is one request in all, and it is either in the queue, or with the
\* client, or answered.  While it is not answered, nothing in the response queue says OK.
Answered == requests = <<>> /\ client = "idle"
OneRequest ==
  /\ Len(requests) <= 1 /\ (client # "idle" => requests = <<>>)
  /\ test \in {"wait_ready", "request", "print"} => Answered
  /\ (\E i \in DOMAIN responses : responses[i] = "OK") =>
       Answered /\ test \notin {"wait_ready", "request"}

\* The session that is announced is noticed: the test task sends its request.
ReadyIsNoticed == sessions > 0 ~> test \notin {"wait_ready", "request"}

\* lwIP is never blocked for good by a response queue that nobody empties.
CoreLockReleased == status = "posting" ~> status = "idle"

\* What the test task prints as the "HTTPS Response": the answer to its request.
ResponseIsAnAnswer == [][TakeResponse => Head(responses) \in {"OK", "ERROR"}]_vars
=============================================================================
