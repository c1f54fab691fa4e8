----------------------------- MODULE HttpClient -----------------------------
(***************************************************************************)
(* HTTPClient::connect, which carries out one request after another over a *)
(* single static socket, and the socket classes below it.  The peer is any *)
(* server: it answers, and may stop at any byte by closing the connection, *)
(* by resetting it or by going silent; between two bytes it may also pause *)
(* for longer than the timeout of the request.                             *)
(*                                                                         *)
(* The buffer is modelled cell by cell, because the code leaves old bytes  *)
(* behind its length and looks at them again.  A symbol stands for a piece *)
(* of text that is never split in two: a status, a header without its end, *)
(* a chunk size, one byte of the body, a CR or an LF.  Lengths are of the  *)
(* type size_t; -1 stands for its largest value, which wolfSSL_read's -1   *)
(* becomes.                                                                *)
(***************************************************************************)
EXTENDS Integers, Sequences

CONSTANTS
  Chunk,       \* CHUNK_SIZE, the size of the buffer (8192)
  Cap,         \* how many bytes of a body HTTPText has room for
  MaxRetry,    \* MAX_RETRY (5)
  MaxPauses,   \* bound: how often a peer pauses for longer than the timeout
  Responses    \* the answers a server may give

Kind == {"status", "length", "chunked", "other", "bad", "size", "data", "cr", "lf", "nul", "junk"}
Sym  == [k : Kind, n : Nat]
S(kind, number) == [k |-> kind, n |-> number]
CR  == S("cr", 0)
LF  == S("lf", 0)
NUL == S("nul", 0)

\* An answer: what is sent, the body it carries, and how its end is announced.
Response == [bytes : Seq(Sym), body : Seq(Sym), framing : {"length", "chunked", "none"}]

ASSUME HttpAssumption ==
  /\ Chunk \in Nat /\ Chunk >= 4
  /\ Cap \in Nat /\ MaxRetry \in Nat \ {0} /\ MaxPauses \in Nat
  /\ Responses \subseteq Response /\ Responses # {}

CRLF(s, i) == s[i] = CR /\ s[i + 1] = LF

\* What HTTP demands of an answer that is not chunked: its headers do not say that it is, an
\* announced length is that of the body, and the body follows the empty line.  More than
\* HTTP demands is that nothing in the body looks like one of these headers or an empty
\* line: a client that skips a header into the body (SkipsToNext) would take it for one.
WellFormed(r) ==
  /\ \A i \in DOMAIN r.bytes :
       /\ r.bytes[i].k # "chunked"
       /\ r.bytes[i].k = "length" => r.framing = "length" /\ r.bytes[i].n = Len(r.body)
  /\ \A i \in 1..Len(r.bytes) - 3 : CRLF(r.bytes, i) /\ CRLF(r.bytes, i + 2) =>
       \A j \in DOMAIN r.body : i + 3 + j \in DOMAIN r.bytes /\ r.bytes[i + 3 + j] = r.body[j]

ASSUME AnswerAssumption == \A r \in Responses : r.framing # "chunked" => WellFormed(r)

VARIABLES
  pc,       \* where connect is
  ssl,      \* "off" unless the port is HTTPS_PORT; "error" after wolfSSL_read has failed
  retry,    \* attempts to connect that have failed
  sock,     \* m_sock: whether it has a descriptor, and _is_connected
  peer,     \* the server's end: its answer, what it has still to send and how it ends
  buf,      \* buf, and the byte behind it
  trfLen,   \* how many bytes of it count
  readLen,  \* what is missing of the body or the chunk
  mode,     \* recvChunked and recvContentLength
  out,      \* what pDataIn holds
  result    \* what the last request returned, "none" while one is going on

tcp  == <<ssl, retry, sock, peer>>
data == <<buf, trfLen, readLen, mode, out>>
vars == <<pc, ssl, retry, sock, peer, buf, trfLen, readLen, mode, out, result>>

HTTPResult == {"HTTP_OK", "HTTP_PARSE", "HTTP_CONN", "HTTP_PRTCL"}
Cells == 0..Chunk
Busy  == {"connect", "tls", "send", "status", "headers", "skip",
          "chunk", "body", "chunk_end", "chunk_next"}

TypeOK ==
  /\ pc \in {"idle", "hardfault"} \cup Busy
  /\ ssl \in {"off", "on", "error"}
  /\ retry \in 0..MaxRetry
  /\ sock \in [fd : BOOLEAN, connected : BOOLEAN]
  /\ peer \in [resp : Responses, wire : Seq(Sym), pauses : 0..MaxPauses,
               end : {"closes", "resets", "silent"}]
  /\ buf \in [Cells -> Sym]
  /\ trfLen \in -1..Chunk /\ readLen \in Nat
  /\ mode \in [chunked : BOOLEAN, length : Nat]
  /\ out \in Seq(Sym) /\ Len(out) <= Cap
  /\ result \in {"none"} \cup HTTPResult

NoPeer == [resp |-> CHOOSE r \in Responses : TRUE, wire |-> <<>>, pauses |-> 0, end |-> "closes"]
Junk   == [i \in Cells |-> S("junk", 0)]

Init ==
  /\ pc = "idle" /\ ssl = "off" /\ retry = 0
  /\ sock = [fd |-> FALSE, connected |-> FALSE]
  /\ peer = NoPeer /\ buf = Junk
  /\ trfLen = 0 /\ readLen = 0 /\ mode = [chunked |-> FALSE, length |-> 0]
  /\ out = <<>> /\ result = "none"

https == ssl # "off"

Goto(there) == pc' = there
Least(a, b) == IF a <= b THEN a ELSE b

-----------------------------------------------------------------------------
(* The end of a request. *)

\* Socket::close; _is_connected keeps its value.
Closed == [sock EXCEPT !.fd = FALSE]

\* Mutant: a protocol error leaves the socket open.
Finish_Leaks(r) ==
  /\ Goto("idle") /\ result' = r
  /\ sock' = IF r = "HTTP_PRTCL" THEN sock ELSE Closed
  /\ UNCHANGED <<ssl, retry>>

\* wolfssl_free and m_sock.close, in CHECK_CONN_ERR, PRTCL_ERR and on success.
Finish(r) ==
  /\ Goto("idle") /\ result' = r
  /\ sock' = Closed
  /\ UNCHANGED <<ssl, retry>>

-----------------------------------------------------------------------------
(* Receiving. *)

\* What remains of what the peer sends when k symbols have been read.
Take(k) == [mem |-> SubSeq(peer.wire, 1, k), n |-> k,
            wire |-> SubSeq(peer.wire, k + 1, Len(peer.wire)), fin |-> FALSE, slow |-> 0]

\* Without TLS: receive_all for the first min bytes, and receive, which does not wait,
\* for more.  "mem" is written to memory and "n" of it is counted.  A receive_all that
\* fails forgets what it has read; the end of the connection clears _is_connected, an
\* error does not; a timeout is no error.  A poll that finds nothing although more will
\* come changes nothing and is left out.
ReceiveTcp(min, max) ==
  LET avail  == Len(peer.wire)
      enough == {Take(k) : k \in {k \in min..Least(max, avail) : avail > 0 => k > 0}}
      fin    == IF peer.end = "closes" /\ avail < max
                  THEN {[Take(avail) EXCEPT !.fin = TRUE]} ELSE {}
      silent == IF peer.end = "silent" /\ avail < min THEN {Take(avail)} ELSE {}
      paused == IF peer.pauses > 0
                  THEN {[Take(k) EXCEPT !.slow = 1] : k \in 0..Least(min - 1, avail)} ELSE {}
      error  == IF peer.end = "resets" /\ avail < min
                  THEN {[Take(avail) EXCEPT !.n = 0]} ELSE {}
  IN  enough \cup fin \cup silent \cup paused \cup error

\* With TLS: one wolfSSL_read, whatever min says.  When SocketReceive gives up after its
\* timeouts, or the connection ends in any other way than by TLS's own closing, it
\* returns -1, now and from then on; the test for an error does not see it.
ReceiveTls(max) ==
  LET fails == [Take(0) EXCEPT !.n = -1]
      some  == {Take(k) : k \in 1..Least(max, Len(peer.wire))}
      ended == IF peer.wire = <<>> THEN {[fails EXCEPT !.fin = (peer.end = "closes")]} ELSE {}
      slow  == IF peer.pauses > 0 THEN {[fails EXCEPT !.slow = 1]} ELSE {}
  IN  IF ssl = "error" THEN {fails} ELSE some \cup ended \cup slow

\* HTTPClient::recv on a connection that it does not know to be closed.
Receive(min, most) ==
  LET max == IF most = 0 THEN 1 ELSE most
  IN  IF https THEN ReceiveTls(max) ELSE ReceiveTcp(min, max)

\* recv returns an error, and no length: the connection is closed, or TLS's own closing
\* arrives, after which the session is in error.
ReceiveFails ==
  \/ ~sock.connected
  \/ ssl = "on" /\ peer.wire = <<>> /\ peer.end = "closes"

\* Mutant: the end of the connection is not remembered.
Received_StaysConnected(o) ==
  /\ peer' = [peer EXCEPT !.wire = o.wire, !.pauses = @ - o.slow]
  /\ ssl' = IF o.n = -1 THEN "error" ELSE ssl
  /\ UNCHANGED <<sock, retry>>

\* The effect of an outcome o of Receive on the connection.
Received(o) ==
  /\ peer' = [peer EXCEPT !.wire = o.wire, !.pauses = @ - o.slow]
  /\ sock' = [sock EXCEPT !.connected = ~o.fin]
  /\ ssl' = IF o.n = -1 THEN "error" ELSE ssl
  /\ UNCHANGED retry

Put(b, at, s)      == [i \in Cells |-> IF at <= i /\ i < at + Len(s) THEN s[i - at + 1] ELSE b[i]]
Terminate(b, n)    == [i \in Cells |-> IF i = n THEN NUL ELSE b[i]]
MoveDown(b, by, n) == [i \in Cells |-> IF i < n THEN b[i + by] ELSE b[i]]

\* The outcome o in memory.  With TLS recv writes a NUL behind it: of a length of -1
\* that is the byte in front of it.
Stored(b, at, o) ==
  LET all == Put(b, at, o.mem) IN IF https THEN Terminate(all, at + o.n) ELSE all

\* strstr(buf, "\r\n"): where the first one is, or none.
Crlfs(b)   == {i \in 0..Chunk - 1 : b[i] = CR /\ b[i + 1] = LF /\ \A j \in 0..i : b[j] # NUL}
NoCrlf(b)  == Crlfs(b) = {}
CrlfPos(b) == CHOOSE i \in Crlfs(b) : \A j \in Crlfs(b) : i <= j

\* Mutant: the NUL behind the bytes is not moved with them.
NextLine_WithoutNul(b, n) == LET p == CrlfPos(b) IN MoveDown(Terminate(b, p), p + 2, n - (p + 2))

\* The buffer without its first line, which has been cut off with a NUL.
NextLine(b, n) == LET p == CrlfPos(b) IN MoveDown(Terminate(b, p), p + 2, n - (p + 2) + 1)

-----------------------------------------------------------------------------
(* Connecting. *)

\* An URL that does not parse is refused at once.  buf is on the stack, and nothing
\* of an earlier request is left of it.
Begin ==
  /\ pc = "idle"
  /\ out' = <<>>
  /\ \/ /\ ssl' \in {"off", "on"} /\ retry' = 0 /\ Goto("connect")
        /\ result' = "none"
     \/ /\ result' = "HTTP_PARSE"
        /\ UNCHANGED <<pc, ssl, retry>>
  /\ peer' = NoPeer /\ buf' = Junk
  /\ trfLen' = 0 /\ readLen' = 0 /\ mode' = [chunked |-> FALSE, length |-> 0]
  /\ UNCHANGED sock

\* One call of TCPSocketConnection::connect that fails: init_socket refuses an open
\* socket and may find no free one, the address may not resolve, which leaves the
\* socket open, or the server may not answer.
ConnectFails ==
  /\ pc = "connect"
  /\ retry' = retry + 1
  /\ IF retry + 1 = MaxRetry
       THEN Goto("idle") /\ result' = "HTTP_CONN" /\ sock' = Closed
       ELSE /\ UNCHANGED <<pc, result>>
            /\ sock' \in IF sock.fd THEN {sock} ELSE {sock, [sock EXCEPT !.fd = TRUE]}
  /\ UNCHANGED <<ssl, peer, data>>

\* The server's fate is chosen here: it sends all of an answer or a part of it.
\* (retry is not looked at any more.)
ConnectSucceeds ==
  /\ pc = "connect" /\ ~sock.fd
  /\ sock' = [fd |-> TRUE, connected |-> TRUE]
  /\ \E r \in Responses, e \in {"closes", "resets", "silent"} : \E k \in 0..Len(r.bytes) :
       peer' = [resp |-> r, wire |-> SubSeq(r.bytes, 1, k), pauses |-> MaxPauses, end |-> e]
  /\ Goto(IF https THEN "tls" ELSE "send")
  /\ retry' = 0
  /\ UNCHANGED <<ssl, data, result>>

\* The context, the session and the handshake.  The returns on an error free them but
\* do not close the socket.
TlsConnect ==
  /\ pc = "tls"
  /\ \/ Goto("send") /\ UNCHANGED result
     \/ Goto("idle") /\ result' = "HTTP_CONN"
  /\ UNCHANGED <<tcp, data>>

-----------------------------------------------------------------------------
(* The request, and the answer's head. *)

\* The request line, the headers and the body go through send_buf; the buffer or the
\* connection may fail at any of them.
SendRequest ==
  /\ pc = "send"
  /\ \/ /\ Goto("status")
        /\ UNCHANGED <<tcp, result>>
     \/ Finish("HTTP_CONN") /\ UNCHANGED peer
  /\ UNCHANGED data

\* CHECK_CONN_ERR after recv.
ClosedByPeer ==
  /\ ReceiveFails
  /\ Finish("HTTP_CONN")
  /\ UNCHANGED <<peer, buf, trfLen, readLen, mode>>

\* The first receive waits until the buffer is full, or the connection has ended or
\* been quiet for the timeout; with TLS it takes the first piece.  (What of the request
\* is still in the buffer is no status either.)
ReadStatus ==
  /\ pc = "status"
  /\ \/ /\ sock.connected
        /\ \E o \in Receive(Chunk - 1, Chunk - 1) :
             LET b == Terminate(Stored(buf, 0, o), o.n)
             IN  IF NoCrlf(b) \/ b[0].k # "status" \/ b[0].n < 200 \/ b[0].n >= 400
                   THEN /\ Finish("HTTP_PRTCL")
                        /\ UNCHANGED <<peer, data>>
                   ELSE /\ Received(o)
                        /\ buf' = NextLine(b, o.n) /\ trfLen' = o.n - (CrlfPos(b) + 2)
                        /\ mode' = [chunked |-> FALSE, length |-> 0]
                        /\ Goto("headers")
                        /\ UNCHANGED <<readLen, out, result>>
     \/ ClosedByPeer /\ UNCHANGED out

\* No line is complete: more is read, or a line that is too long is skipped.  When
\* recv fails it does not set newTrfLen, and buf[trfLen] is written before the result is
\* looked at: harmless, or anywhere in memory.
MoreHeaders ==
  /\ pc = "headers" /\ NoCrlf(buf)
  /\ \/ /\ trfLen \in 0..Chunk - 2 /\ sock.connected
        /\ \E o \in Receive(1, Chunk - trfLen - 1) :
             /\ Received(o)
             /\ buf' = Terminate(Stored(buf, trfLen, o), trfLen + o.n)
             /\ trfLen' = trfLen + o.n
        /\ UNCHANGED <<pc, readLen, mode, out, result>>
     \/ /\ trfLen \in 0..Chunk - 2
        /\ \/ ClosedByPeer
           \/ /\ ReceiveFails /\ Goto("hardfault")
              /\ UNCHANGED <<tcp, buf, trfLen, readLen, mode, result>>
        /\ UNCHANGED out
     \/ /\ trfLen \notin 0..Chunk - 2
        /\ Goto("skip")
        /\ UNCHANGED <<tcp, data, result>>

\* Up to the end of the line that is too long.  The result of recv is ignored: when
\* the connection is closed or the session in error, this goes on for ever.
SkipHeader ==
  /\ pc = "skip" /\ sock.connected
  /\ \/ \E o \in Receive(1, Chunk - 1) :
          LET b == Terminate(Stored(buf, 0, o), o.n)
          IN  /\ Received(o)
              /\ IF NoCrlf(b)
                   THEN buf' = b /\ trfLen' = o.n /\ UNCHANGED pc
                   ELSE /\ buf' = MoveDown(b, CrlfPos(b) + 2, o.n - (CrlfPos(b) + 2) + 1)
                        /\ trfLen' = o.n - (CrlfPos(b) + 2)
                        /\ Goto("headers")
     \/ ReceiveFails /\ ssl' = "error" /\ UNCHANGED <<pc, retry, sock, peer, buf, trfLen>>
  /\ UNCHANGED <<readLen, mode, out, result>>

\* One header; one without a colon is a protocol error.
ParseHeader ==
  /\ pc = "headers" /\ ~NoCrlf(buf) /\ CrlfPos(buf) > 0
  /\ IF buf[0].k \in {"length", "chunked", "other"}
       THEN /\ mode' = CASE buf[0].k = "length"  -> [mode EXCEPT !.length = buf[0].n]
                         [] buf[0].k = "chunked" -> [mode EXCEPT !.chunked = TRUE]
                         [] OTHER                -> mode
            /\ buf' = NextLine(buf, trfLen) /\ trfLen' = trfLen - (CrlfPos(buf) + 2)
            /\ UNCHANGED <<pc, tcp, readLen, out, result>>
       ELSE Finish("HTTP_PRTCL") /\ UNCHANGED <<peer, data>>

EndOfHeaders ==
  /\ pc = "headers" /\ ~NoCrlf(buf) /\ CrlfPos(buf) = 0
  /\ buf' = MoveDown(buf, 2, trfLen - 2 + 1) /\ trfLen' = trfLen - 2
  /\ readLen' = mode.length
  /\ Goto(IF mode.chunked THEN "chunk" ELSE "body")
  /\ UNCHANGED <<tcp, mode, out, result>>

-----------------------------------------------------------------------------
(* The body. *)

\* sscanf(buf, "%zx") on a line: white space is skipped, a byte of the body may be a
\* digit, and -1 stands for no number.
Sizes(b, p) ==
  LET text  == {i \in 0..p - 1 : b[i] \notin {CR, LF}}
      first == CHOOSE i \in text : \A j \in text : i <= j
  IN  CASE text # {} /\ b[first].k = "size" -> {b[first].n}
        [] text # {} /\ b[first].k = "data" -> {-1, 0, 1}
        [] OTHER -> {-1}

\* The line with the size of a chunk.  Two LFs before its end make it a last chunk; on
\* a short line the code looks for them in front of the buffer.
ChunkHeader ==
  /\ pc = "chunk" /\ trfLen >= 2 /\ ~NoCrlf(Terminate(buf, trfLen))
  /\ LET p    == CrlfPos(Terminate(buf, trfLen))
         b    == Terminate(Terminate(buf, trfLen), p)
         null == \A i \in {p - 2, p - 1} : i >= 0 => b[i] = LF
     IN  \/ null /\ Finish("HTTP_OK") /\ UNCHANGED <<peer, data>>
         \/ /\ null => p < 2
            /\ \E n \in Sizes(b, p) :
                 \/ /\ n > 0
                    /\ readLen' = n
                    /\ buf' = MoveDown(b, p + 2, trfLen - (p + 2)) /\ trfLen' = trfLen - (p + 2)
                    /\ Goto("body")
                    /\ UNCHANGED <<tcp, mode, out, result>>
                 \/ n = 0 /\ Finish("HTTP_OK") /\ UNCHANGED <<peer, data>>
                 \/ n < 0 /\ Finish("HTTP_PRTCL") /\ UNCHANGED <<peer, data>>

MoreChunkHeader ==
  /\ pc = "chunk" /\ (trfLen < 2 \/ NoCrlf(Terminate(buf, trfLen)))
  /\ \/ /\ trfLen \in 0..Chunk - 1 /\ sock.connected
        /\ \E o \in Receive(0, Chunk - trfLen - 1) :
             /\ Received(o)
             /\ buf' = Stored(Terminate(buf, trfLen), trfLen, o) /\ trfLen' = trfLen + o.n
        /\ UNCHANGED <<pc, readLen, mode, out, result>>
     \/ trfLen \in 0..Chunk - 1 /\ ClosedByPeer /\ UNCHANGED out
     \/ trfLen \notin 0..Chunk - 1 /\ Finish("HTTP_PRTCL") /\ UNCHANGED <<peer, data>>

\* Mutant: everything that has been received is taken for the body.
Taken_All == trfLen

\* How much of the buffer belongs to the body or the chunk: the MIN of two lengths of the type
\* size_t.
Taken == IF trfLen = -1 THEN readLen ELSE Least(trfLen, readLen)

\* What is read there; behind the buffer is whatever else the stack holds.
Byte(i) == IF i \in Cells THEN buf[i] ELSE S("junk", 0)

\* Mutant: the room that is left is not looked at.
Write_Unclipped == out' = out \o [i \in 1..Taken |-> Byte(i - 1)]

\* HTTPText::write: what does not fit is dropped.
Write ==
  out' = LET all == out \o [i \in 1..Taken |-> Byte(i - 1)]
         IN  SubSeq(all, 1, Least(Len(all), Cap))

\* The body or the chunk is complete.  When it ends where the received bytes end,
\* trfLen keeps its value.
LastOfBody ==
  /\ pc = "body" /\ trfLen >= readLen
  /\ Write
  /\ IF trfLen > readLen
       THEN buf' = MoveDown(buf, readLen, trfLen - readLen) /\ trfLen' = trfLen - readLen
       ELSE UNCHANGED <<buf, trfLen>>
  /\ readLen' = 0
  /\ \/ mode.chunked /\ Goto("chunk_end") /\ UNCHANGED <<ssl, retry, sock, result>>
     \/ ~mode.chunked /\ Finish("HTTP_OK")
  /\ UNCHANGED <<peer, mode>>

\* Mutant: a receive that brings nothing ends the body.
MoreBody_EmptyEnds ==
  /\ pc = "body" /\ trfLen \in 0..readLen - 1
  /\ Write
  /\ \/ /\ sock.connected
        /\ \E o \in Receive(1, Chunk - trfLen - 1) :
             IF o.n = 0
               THEN /\ Finish("HTTP_OK")
                    /\ UNCHANGED <<peer, buf, trfLen, readLen>>
               ELSE /\ Received(o)
                    /\ buf' = Stored(buf, 0, o) /\ trfLen' = o.n
                    /\ readLen' = readLen - trfLen
                    /\ UNCHANGED <<pc, result>>
        /\ UNCHANGED mode
     \/ ClosedByPeer

MoreBody ==
  /\ pc = "body" /\ trfLen \in 0..readLen - 1
  /\ Write
  /\ \/ /\ sock.connected
        /\ \E o \in Receive(1, Chunk - trfLen - 1) :
             /\ Received(o)
             /\ buf' = Stored(buf, 0, o) /\ trfLen' = o.n
        /\ readLen' = readLen - trfLen
        /\ UNCHANGED <<pc, mode, result>>
     \/ ClosedByPeer

\* A length of -1 is larger than what is missing: as many old bytes of the buffer are
\* delivered as are missing, and memmove is called with the difference.
BodyFault ==
  /\ pc = "body" /\ trfLen = -1
  /\ Write
  /\ Goto("hardfault")
  /\ UNCHANGED <<tcp, buf, trfLen, readLen, mode, result>>

\* Mutant: one byte is enough.
ChunkEnd_One ==
  /\ pc = "chunk_end"
  /\ \/ /\ trfLen >= 1
        /\ Goto("chunk_next")
        /\ UNCHANGED <<tcp, data, result>>
     \/ /\ trfLen < 1 /\ sock.connected
        /\ \E o \in Receive(1, Chunk - trfLen - 1) :
             /\ Received(o)
             /\ buf' = Stored(buf, trfLen, o) /\ trfLen' = trfLen + o.n
        /\ Goto("chunk_next")
        /\ UNCHANGED <<readLen, mode, out, result>>
     \/ trfLen < 1 /\ ClosedByPeer /\ UNCHANGED out

\* "Read missing chars to find end of chunk".
ChunkEnd ==
  /\ pc = "chunk_end"
  /\ \/ /\ trfLen >= 2
        /\ Goto("chunk_next")
        /\ UNCHANGED <<tcp, data, result>>
     \/ /\ trfLen < 2 /\ sock.connected
        /\ \E o \in Receive(2 - trfLen, Chunk - trfLen - 1) :
             /\ Received(o)
             /\ buf' = Stored(buf, trfLen, o) /\ trfLen' = trfLen + o.n
        /\ Goto("chunk_next")
        /\ UNCHANGED <<readLen, mode, out, result>>
     \/ trfLen < 2 /\ ClosedByPeer /\ UNCHANGED out

\* strcmp(buf, "\r\n") sees a NUL only if one is left there.  When a byte is missing,
\* memmove is called with trfLen - 2, which is negative and a size_t.
ChunkNext ==
  /\ pc = "chunk_next"
  /\ CASE buf[0] = CR /\ buf[1] = LF /\ buf[2] = NUL ->
            Finish("HTTP_OK") /\ UNCHANGED <<peer, data>>
       [] ~(buf[0] = CR /\ buf[1] = LF /\ buf[2] = NUL) /\ trfLen >= 2 ->
            /\ buf' = MoveDown(buf, 2, trfLen - 2) /\ trfLen' = trfLen - 2
            /\ Goto("chunk")
            /\ UNCHANGED <<tcp, readLen, mode, out, result>>
       [] OTHER -> Goto("hardfault") /\ UNCHANGED <<tcp, data, result>>

-----------------------------------------------------------------------------
Request ==
  \/ ConnectFails \/ ConnectSucceeds \/ TlsConnect \/ SendRequest
  \/ ReadStatus \/ MoreHeaders \/ SkipHeader \/ ParseHeader \/ EndOfHeaders
  \/ ChunkHeader \/ MoreChunkHeader \/ LastOfBody \/ MoreBody \/ BodyFault \/ ChunkEnd \/ ChunkNext

Next == Begin \/ Request

Spec == Init /\ [][Next]_vars

\* HTTPSClient_Task keeps running, and every wait of a socket call ends at its timeout.
FairSpec == Spec /\ WF_vars(Request)

-----------------------------------------------------------------------------
(* Properties. *)

Clip(s) == SubSeq(s, 1, Least(Len(s), Cap))

\* Memory is lost after a failure of TLS; in a body, old bytes have been delivered by then.
TlsFault == pc = "hardfault" /\ ssl = "error"

\* Nothing but the body reaches the caller's buffer, in its order and without gaps,
\* however the stream is cut into pieces and wherever the peer stops.  The exception is a
\* failure of TLS in a body, which the program does not survive: old bytes follow what was
\* delivered before the hard fault.  It does not hold for chunks either: see EndOfChunkRead.
BodyIsPrefix ==
  peer.resp.framing # "chunked" /\ ~TlsFault =>
    /\ Len(out) <= Len(peer.resp.body)
    /\ out = SubSeq(peer.resp.body, 1, Len(out))

\* Success means that a body whose length the client has read in the headers is
\* complete, as far as there is room for it.
OkMeansComplete ==
  pc = "idle" /\ result = "HTTP_OK" /\ peer.resp.framing = "length"
  /\ mode.length = Len(peer.resp.body) => out = Clip(peer.resp.body)

\* One static socket serves all requests, so each has to give it back.  Only a failed
\* TLS set-up does not, and then the next request pays for it with all its retries.
SocketGivenBack == pc = "idle" /\ sock.fd => https /\ result \in {"HTTP_CONN", "HTTP_PARSE"}

\* Without TLS, memory is accessed with a wrong length only when the peer has stopped, or has
\* paused for longer than the timeout: however its answer is cut into pieces, one that comes
\* does no harm.
FaultsForAReason == pc = "hardfault" => https \/ peer.wire = <<>> \/ peer.pauses < MaxPauses

\* Why memory is in order otherwise.  No line is taken from bytes that were not received:
\* what is in the buffer holds no line, or ends with a NUL where its length says.
LinesEnd ==
  /\ pc \in {"connect", "tls", "send", "status", "skip"} => NoCrlf(buf)
  /\ pc = "headers" => IF trfLen >= 0 THEN buf[trfLen] = NUL ELSE NoCrlf(buf)

\* The length of -1 comes from TLS only, and there is room for one more byte of a body.
LengthFits ==
  /\ trfLen >= 0 \/ https
  /\ pc = "body" => trfLen < Chunk
  /\ pc = "chunk_end" => trfLen \in 0..Chunk - 1

\* Without TLS, a connection that is known to be closed has delivered everything, and
\* the end of a chunk is missing only when the peer has stopped or paused.
StopIsSeen ==
  /\ pc = "tls" => https
  /\ pc \in Busy \ {"connect"} /\ ~sock.connected => https \/ peer.wire = <<>>
  /\ pc = "chunk_next" /\ trfLen < 2
       => https \/ peer.wire = <<>> \/ peer.pauses < MaxPauses

\* A request that is still connecting has an attempt left.
AttemptLeft == pc = "connect" => retry < MaxRetry

MemoryInv ==
  /\ TypeOK /\ SocketGivenBack /\ FaultsForAReason
  /\ LinesEnd /\ LengthFits /\ StopIsSeen /\ AttemptLeft

\* Why what is delivered is the body.  The buffer and what is on its way continue the answer
\* from a position that the place in the request tells: b holds n symbols of it from q on,
\* and w is sent from e on.
Holds(r, b, n, q) == \A i \in 0..n - 1 : q + 1 + i \in DOMAIN r.bytes /\ b[i] = r.bytes[q + 1 + i]
Sent(r, w, e)     == \A i \in 1..Len(w) : e + i \in DOMAIN r.bytes /\ w[i] = r.bytes[e + i]
AfterLine(r, q)   == q >= 2 /\ CRLF(r.bytes, q - 1)
BodyFrom(r, h)    == \A j \in DOMAIN r.body : h + j \in DOMAIN r.bytes /\ r.bytes[h + j] = r.body[j]

Clipped(s, n) == SubSeq(s, 1, Least(n, Cap))

\* A line begins where the buffer does, unless TLS has failed and no line is there.
HeadRead(r) ==
  \/ ssl = "error" /\ NoCrlf(buf)
  \/ \E q \in 0..Len(r.bytes) :
       /\ AfterLine(r, q) /\ trfLen >= 0
       /\ Holds(r, buf, trfLen, q) /\ Sent(r, peer.wire, q + trfLen)

\* c symbols of the body have been delivered, and the buffer holds what follows them, unless
\* TLS has failed.
BodyRead(r) ==
  \E c \in 0..Len(r.body), h \in 0..Len(r.bytes) :
    /\ BodyFrom(r, h)
    /\ out = Clipped(r.body, c) /\ c + readLen = mode.length
    /\ IF trfLen >= 0
         THEN Holds(r, buf, trfLen, h + c) /\ Sent(r, peer.wire, h + c + trfLen)
         ELSE ssl = "error"

\* At the end of a request that succeeds it was as much as the client knew of.
Delivered(r) ==
  \E c \in 0..Len(r.body) :
    out = Clipped(r.body, c) /\ (pc = "idle" /\ result = "HTTP_OK" => c = mode.length)

LengthKnown(r) ==
  ~mode.chunked /\ (mode.length # 0 => r.framing = "length" /\ mode.length = Len(r.body))

StreamInv(r) ==
  /\ pc \in {"tls", "send", "status"} => Sent(r, peer.wire, 0)
  /\ pc \in {"headers", "skip", "body"} => LengthKnown(r)
  /\ pc = "headers" => HeadRead(r)
  /\ pc = "skip" => ssl = "error" \/ \E e \in 0..Len(r.bytes) : Sent(r, peer.wire, e)
  /\ pc = "body" => BodyRead(r)
  /\ pc \in {"idle", "hardfault"} /\ ~TlsFault => Delivered(r)
  /\ pc \notin {"chunk", "chunk_end", "chunk_next"}

NothingYet == pc \in {"connect", "tls", "send", "status", "headers", "skip"} => out = <<>>

DeliveryInv == NothingYet /\ (peer.resp.framing # "chunked" => StreamInv(peer.resp))

IInv == MemoryInv /\ DeliveryInv

\* A request whose peer closes the connection returns, unless it is skipping a header that is
\* longer than the buffer (or that a negative length makes look so), or memory is accessed
\* with a wrong length.
ReturnsWhenClosed ==
  pc \in Busy \ {"connect"} /\ peer.end = "closes" ~> pc \in {"idle", "skip", "hardfault"}

\* What the documentation of get, post, put and del says of the timeout: the request
\* waits no longer.
Returns == pc \in Busy ~> pc \notin Busy

\* What the comment says of the receive after a chunk: if enough has been read, the
\* characters that are dropped as the chunk's end are the CR and the LF.
EndOfChunkRead == pc = "chunk_next" /\ trfLen >= 2 => buf[0] = CR /\ buf[1] = LF

\* What the comment says of a header that is too large: the next one is not skipped, so
\* that the announced length of a body is not missed.
SkipsToNext == pc = "body" /\ peer.resp.framing = "length" => mode.length = Len(peer.resp.body)
=============================================================================
