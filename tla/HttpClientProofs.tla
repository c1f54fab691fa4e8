--------------------------- MODULE HttpClientProofs ---------------------------
(***************************************************************************)
(* Proofs about HttpClient, for a buffer of any size and any answers.      *)
(***************************************************************************)
EXTENDS HttpClient, WellFoundedInduction, SequenceTheorems, TLAPS

-----------------------------------------------------------------------------
(* The buffer. *)

Buffers == [Cells -> Sym]

\* CR, LF and NUL are three symbols.
LEMMA EndsDiffer == CR \in Sym /\ LF \in Sym /\ NUL \in Sym /\ CR # LF /\ CR # NUL /\ LF # NUL
BY DEF CR, LF, NUL, S, Sym, Kind

\* A set of natural numbers that is not empty has a least element.
LEMMA LeastElement ==
  ASSUME NEW T, T \subseteq Nat, T # {}
  PROVE  \E m \in T : \A k \in T : m <= k
<1>1. PICK m \in T : \A k \in T : <<k, m>> \notin OpToRel(<, Nat)
  BY NatLessThanWellFounded, WFMin, Zenon
<1>2. ASSUME NEW k \in T PROVE m <= k
  <2>1. <<k, m>> \in Nat \X Nat /\ ~(k < m)
    BY <1>1, Zenon DEF OpToRel
  <2> QED BY <2>1
<1> QED BY <1>2

\* A line that is found in a buffer that is cut off behind its n-th byte ends within them.
LEMMA LineFits ==
  ASSUME NEW b \in Buffers, NEW n \in Cells, b[n] = NUL, ~NoCrlf(b)
  PROVE  /\ CrlfPos(b) \in 0..Chunk - 1 /\ CrlfPos(b) + 2 <= n
         /\ b[CrlfPos(b)] = CR /\ b[CrlfPos(b) + 1] = LF
<1> DEFINE p == CrlfPos(b)
<1>1. Crlfs(b) \subseteq Nat /\ Crlfs(b) # {}
  BY HttpAssumption DEF NoCrlf, Crlfs
<1>2. p \in Crlfs(b)
  <2>1. \E i \in Crlfs(b) : \A j \in Crlfs(b) : i <= j
    BY <1>1, LeastElement
  <2> QED BY <2>1 DEF CrlfPos
<1> HIDE DEF p
<1>3. /\ p \in 0..Chunk - 1 /\ b[p] = CR /\ b[p + 1] = LF
      /\ \A j \in 0..p : b[j] # NUL
  BY <1>2 DEF Crlfs
<1>4. n \notin 0..p /\ n # p + 1
  BY <1>3, EndsDiffer
<1>5. n \in Nat /\ p \in Nat
  BY <1>3, HttpAssumption DEF Cells
<1>6. p + 2 <= n
  BY <1>4, <1>5
<1> QED BY <1>3, <1>6 DEF p

\* Writing into the buffer, cutting it off and moving its bytes down.
LEMMA PutType ==
  ASSUME NEW b \in Buffers, NEW at \in Nat, NEW s \in Seq(Sym)
  PROVE  Put(b, at, s) \in Buffers
<1>1. ASSUME NEW i \in Cells, at <= i, i < at + Len(s) PROVE s[i - at + 1] \in Sym
  BY <1>1, HttpAssumption DEF Cells
<1> QED BY <1>1 DEF Put, Buffers

\* Nothing is written where there is nothing to write.
LEMMA PutNothing ==
  ASSUME NEW b \in Buffers, NEW at \in Nat
  PROVE  Put(b, at, <<>>) = b
<1>1. Put(b, at, <<>>) = [i \in Cells |-> b[i]]
  BY HttpAssumption DEF Put, Cells
<1> QED BY <1>1 DEF Buffers

\* A buffer that is cut off at n differs there only, and not at all when n is outside.
LEMMA TerminateType ==
  ASSUME NEW b \in Buffers, NEW n \in Int
  PROVE  /\ Terminate(b, n) \in Buffers
         /\ n \in Cells => Terminate(b, n)[n] = NUL
         /\ \A i \in Cells : i # n => Terminate(b, n)[i] = b[i]
         /\ n \notin Cells => Terminate(b, n) = b
BY EndsDiffer DEF Terminate, Buffers

\* Bytes that lie within the buffer move down to its front.
LEMMA MoveDownType ==
  ASSUME NEW b \in Buffers, NEW by \in Nat, NEW n \in Int, by + n <= Chunk + 1
  PROVE  /\ MoveDown(b, by, n) \in Buffers
         /\ \A i \in Cells : i < n => MoveDown(b, by, n)[i] = b[i + by]
<1>1. ASSUME NEW i \in Cells, i < n PROVE i + by \in Cells
  BY <1>1, HttpAssumption DEF Cells
<1> QED BY <1>1 DEF MoveDown, Buffers

\* What follows the first line, moved to the front, is cut off where its bytes end.
LEMMA LineDropped ==
  ASSUME NEW b \in Buffers, NEW n \in Cells, b[n] = NUL, ~NoCrlf(b),
         NEW c \in Buffers, c[n] = NUL
  PROVE  LET m == n - (CrlfPos(b) + 2)
             d == MoveDown(c, CrlfPos(b) + 2, n - (CrlfPos(b) + 2) + 1)
         IN  m \in 0..Chunk - 2 /\ d \in Buffers /\ d[m] = NUL
<1> DEFINE q == CrlfPos(b) + 2
           k == n - q + 1
           m == n - q
<1>1. CrlfPos(b) \in 0..Chunk - 1 /\ q <= n
  BY LineFits
<1>2. n \in Nat /\ n <= Chunk /\ CrlfPos(b) \in Nat /\ Chunk \in Nat
  BY <1>1, HttpAssumption DEF Cells
<1>3. q \in Nat /\ q >= 2
  BY <1>2
<1> HIDE DEF q
<1>4. k \in Int /\ q + k <= Chunk + 1 /\ m \in 0..Chunk - 2 /\ m \in Cells /\ m < k /\ m + q = n
  BY <1>1, <1>2, <1>3 DEF Cells
<1> HIDE DEF k, m
<1>5. MoveDown(c, q, k) \in Buffers /\ \A i \in Cells : i < k => MoveDown(c, q, k)[i] = c[i + q]
  BY <1>3, <1>4, MoveDownType
<1>6. MoveDown(c, q, k)[m] = NUL
  BY <1>4, <1>5
<1> QED BY <1>4, <1>5, <1>6 DEF q, k, m

\* So it is when the line itself has been cut off first.
LEMMA NextLineFacts ==
  ASSUME NEW b \in Buffers, NEW n \in Cells, b[n] = NUL, ~NoCrlf(b)
  PROVE  LET m == n - (CrlfPos(b) + 2)
         IN  m \in 0..Chunk - 2 /\ NextLine(b, n) \in Buffers /\ NextLine(b, n)[m] = NUL
<1> DEFINE p == CrlfPos(b)
           c == Terminate(b, p)
<1>1. p \in 0..Chunk - 1 /\ p + 2 <= n /\ p \in Int /\ n \in Int
  BY LineFits, HttpAssumption DEF Cells
<1>2. p # n
  BY <1>1
<1>3. c \in Buffers /\ c[n] = NUL
  BY <1>1, <1>2, TerminateType
<1>4. NextLine(b, n) = MoveDown(c, p + 2, n - (p + 2) + 1)
  BY DEF NextLine
<1> HIDE DEF c
<1> QED BY <1>3, <1>4, LineDropped

-----------------------------------------------------------------------------
(* Receiving. *)

\* What an outcome of a receive may be that was asked for min to max symbols.
Outcome(o, min, max) ==
  /\ o.mem \in Seq(Sym) /\ o.wire \in Seq(Sym) /\ o.n \in -1..max /\ o.fin \in BOOLEAN
  /\ o.slow \in 0..1 /\ o.slow <= peer.pauses
  /\ o.n = -1 => https /\ o.mem = <<>>
  /\ ~https /\ o.fin => o.wire = <<>>
  /\ ~https /\ o.n < min => o.wire = <<>> \/ o.slow = 1

\* An outcome as a record of its parts.
Parts(s, n, w, f, p) == [mem |-> s, n |-> n, wire |-> w, fin |-> f, slow |-> p]

\* What taking k symbols from the wire writes and leaves.
Mem(k)  == SubSeq(peer.wire, 1, k)
Rest(k) == SubSeq(peer.wire, k + 1, Len(peer.wire))

\* The outcomes of a receive without TLS in their parts.
LEMMA TakeParts ==
  ASSUME NEW k, NEW x
  PROVE  /\ Take(k) = Parts(Mem(k), k, Rest(k), FALSE, 0)
         /\ [Take(k) EXCEPT !.fin = x] = Parts(Mem(k), k, Rest(k), x, 0)
         /\ [Take(k) EXCEPT !.slow = x] = Parts(Mem(k), k, Rest(k), FALSE, x)
         /\ [Take(k) EXCEPT !.n = x] = Parts(Mem(k), x, Rest(k), FALSE, 0)
<1> DEFINE s == Mem(k)
           w == Rest(k)
           no == FALSE
           zero == 0
<1>1. Take(k) = [mem |-> s, n |-> k, wire |-> w, fin |-> no, slow |-> zero]
  BY DEF Take, Mem, Rest
<1> HIDE DEF s, w, no, zero
<1>2. /\ Take(k) = Parts(s, k, w, no, zero)
      /\ [Take(k) EXCEPT !.fin = x] = Parts(s, k, w, x, zero)
      /\ [Take(k) EXCEPT !.slow = x] = Parts(s, k, w, no, x)
      /\ [Take(k) EXCEPT !.n = x] = Parts(s, x, w, no, zero)
  BY <1>1 DEF Parts
<1> QED BY <1>2 DEF s, w, no, zero

\* A read of TLS that fails.
LEMMA TlsFailure ==
  ASSUME NEW x
  PROVE  LET fails == [Take(0) EXCEPT !.n = -1]
         IN  /\ fails = Parts(Mem(0), -1, Rest(0), FALSE, 0)
             /\ [fails EXCEPT !.fin = x] = Parts(Mem(0), -1, Rest(0), x, 0)
             /\ [fails EXCEPT !.slow = x] = Parts(Mem(0), -1, Rest(0), FALSE, x)
<1> DEFINE s == Mem(0)
           w == Rest(0)
           no == FALSE
           zero == 0
           minus == -1
           fails == [Take(0) EXCEPT !.n = minus]
<1>1. fails = Parts(s, minus, w, no, zero)
  BY TakeParts
<1> HIDE DEF s, w, no, zero, minus, fails
<1>2. /\ [fails EXCEPT !.fin = x] = Parts(s, minus, w, x, zero)
      /\ [fails EXCEPT !.slow = x] = Parts(s, minus, w, no, x)
  BY <1>1 DEF Parts
<1> QED BY <1>1, <1>2 DEF s, w, no, zero, minus, fails

\* The types of what is taken.
LEMMA TakeTypes ==
  ASSUME TypeOK, NEW k \in 0..Len(peer.wire)
  PROVE  /\ Mem(k) \in Seq(Sym) /\ Rest(k) \in Seq(Sym)
         /\ k = 0 => Mem(k) = <<>>
         /\ k = Len(peer.wire) => Rest(k) = <<>>
<1>1. peer.wire \in Seq(Sym) /\ Len(peer.wire) \in Nat /\ k \in Nat
  BY DEF TypeOK
<1>2. \A i \in 1..Len(peer.wire) : peer.wire[i] \in Sym
  BY <1>1
<1>3. Mem(k) \in Seq(Sym) /\ (k = 0 => Mem(k) = <<>>)
  BY <1>1, <1>2, SubSeqProperties DEF Mem
<1>4. Rest(k) \in Seq(Sym)
  BY <1>1, <1>2, SubSeqProperties DEF Rest
<1>5. k = Len(peer.wire) => Rest(k) = <<>>
  BY <1>1, <1>2, SubSeqProperties DEF Rest
<1> QED BY <1>3, <1>4, <1>5

\* Without TLS.
LEMMA TcpOutcome ==
  ASSUME TypeOK, ~https, NEW min \in Nat, NEW max \in Nat, min <= max,
         NEW o \in ReceiveTcp(min, max)
  PROVE  Outcome(o, min, max)
<1> DEFINE avail == Len(peer.wire)
<1>1. avail \in Nat /\ peer.pauses \in Nat
  BY DEF TypeOK
<1>2. \/ \E k \in min..Least(max, avail) : o = Take(k)
      \/ avail < max /\ o = [Take(avail) EXCEPT !.fin = TRUE]
      \/ avail < min /\ o = Take(avail)
      \/ peer.pauses > 0 /\ \E k \in 0..Least(min - 1, avail) : o = [Take(k) EXCEPT !.slow = 1]
      \/ avail < min /\ o = [Take(avail) EXCEPT !.n = 0]
  BY DEF ReceiveTcp
<1>3. ASSUME NEW k \in min..Least(max, avail), o = Take(k) PROVE Outcome(o, min, max)
  <2>1. k \in 0..avail /\ k \in -1..max /\ k >= min /\ k # -1 /\ ~(k < min)
    BY <1>1 DEF Least
  <2>2. Mem(k) \in Seq(Sym) /\ Rest(k) \in Seq(Sym)
    BY <2>1, TakeTypes
  <2>3. o = Parts(Mem(k), k, Rest(k), FALSE, 0)
    BY <1>3, TakeParts
  <2> QED BY <1>1, <2>1, <2>2, <2>3 DEF Outcome, Parts
<1>4. /\ Mem(avail) \in Seq(Sym) /\ Rest(avail) \in Seq(Sym) /\ Rest(avail) = <<>>
  <2>1. avail \in 0..avail
    BY <1>1
  <2> QED BY <2>1, TakeTypes
<1>5. ASSUME avail < max, o = [Take(avail) EXCEPT !.fin = TRUE] PROVE Outcome(o, min, max)
  <2>1. avail \in -1..max /\ avail # -1
    BY <1>1, <1>5
  <2>2. o = Parts(Mem(avail), avail, Rest(avail), TRUE, 0)
    BY <1>5, TakeParts
  <2> HIDE DEF avail
  <2> QED BY <1>1, <1>4, <2>1, <2>2 DEF Outcome, Parts
<1>6. ASSUME avail < min, o = Take(avail) PROVE Outcome(o, min, max)
  <2>1. avail \in -1..max /\ avail # -1
    BY <1>1, <1>6
  <2>2. o = Parts(Mem(avail), avail, Rest(avail), FALSE, 0)
    BY <1>6, TakeParts
  <2> HIDE DEF avail
  <2> QED BY <1>1, <1>4, <2>1, <2>2 DEF Outcome, Parts
<1>7. ASSUME peer.pauses > 0,
             NEW k \in 0..Least(min - 1, avail), o = [Take(k) EXCEPT !.slow = 1]
      PROVE  Outcome(o, min, max)
  <2>1. k \in 0..avail /\ k \in -1..max /\ k # -1 /\ 1 \in 0..1 /\ 1 <= peer.pauses
    BY <1>1, <1>7 DEF Least
  <2>2. Mem(k) \in Seq(Sym) /\ Rest(k) \in Seq(Sym)
    BY <2>1, TakeTypes
  <2>3. o = Parts(Mem(k), k, Rest(k), FALSE, 1)
    BY <1>7, TakeParts
  <2> QED BY <2>1, <2>2, <2>3 DEF Outcome, Parts
<1>8. ASSUME avail < min, o = [Take(avail) EXCEPT !.n = 0] PROVE Outcome(o, min, max)
  <2>1. 0 \in -1..max
    OBVIOUS
  <2>2. o = Parts(Mem(avail), 0, Rest(avail), FALSE, 0)
    BY <1>8, TakeParts
  <2> HIDE DEF avail
  <2> QED BY <1>1, <1>4, <2>1, <2>2 DEF Outcome, Parts
<1> QED BY <1>2, <1>3, <1>5, <1>6, <1>7, <1>8

\* With TLS.
LEMMA TlsOutcome ==
  ASSUME TypeOK, https, NEW min \in Nat, NEW max \in Nat, NEW o \in ReceiveTls(max)
  PROVE  Outcome(o, min, max)
<1> DEFINE avail == Len(peer.wire)
           fails == [Take(0) EXCEPT !.n = -1]
           closes == peer.end = "closes"
<1>1. avail \in Nat /\ peer.pauses \in Nat
  BY DEF TypeOK
<1>2. \/ \E k \in 1..Least(max, avail) : o = Take(k)
      \/ o = fails
      \/ o = [fails EXCEPT !.fin = closes]
      \/ peer.pauses > 0 /\ o = [fails EXCEPT !.slow = 1]
  BY DEF ReceiveTls
<1>3. ASSUME NEW k \in 1..Least(max, avail), o = Take(k) PROVE Outcome(o, min, max)
  <2>1. k \in 0..avail /\ k \in -1..max /\ k # -1
    BY <1>1 DEF Least
  <2>2. Mem(k) \in Seq(Sym) /\ Rest(k) \in Seq(Sym)
    BY <2>1, TakeTypes
  <2>3. o = Parts(Mem(k), k, Rest(k), FALSE, 0)
    BY <1>3, TakeParts
  <2> QED BY <1>1, <2>1, <2>2, <2>3 DEF Outcome, Parts
<1>4. Mem(0) \in Seq(Sym) /\ Rest(0) \in Seq(Sym) /\ Mem(0) = <<>>
  <2>1. 0 \in 0..avail
    BY <1>1
  <2> QED BY <2>1, TakeTypes
<1>5. ASSUME NEW f \in BOOLEAN, NEW p \in 0..1, p <= peer.pauses
      PROVE  Outcome(Parts(Mem(0), -1, Rest(0), f, p), min, max)
  <2>1. -1 \in -1..max
    OBVIOUS
  <2> QED BY <1>4, <1>5, <2>1 DEF Outcome, Parts
<1>6. o = fails => o = Parts(Mem(0), -1, Rest(0), FALSE, 0)
  BY TlsFailure
<1>7. o = [fails EXCEPT !.fin = closes] => o = Parts(Mem(0), -1, Rest(0), closes, 0)
  BY TlsFailure
<1>8. o = [fails EXCEPT !.slow = 1] => o = Parts(Mem(0), -1, Rest(0), FALSE, 1)
  BY TlsFailure
<1>9. closes \in BOOLEAN
  OBVIOUS
<1> HIDE DEF fails, closes
<1>10. CASE o = fails
  <2>1. 0 \in 0..1 /\ 0 <= peer.pauses /\ FALSE \in BOOLEAN
    BY <1>1
  <2>2. Outcome(Parts(Mem(0), -1, Rest(0), FALSE, 0), min, max)
    BY <1>5, <2>1
  <2> QED BY <1>6, <1>10, <2>2
<1>11. CASE o = [fails EXCEPT !.fin = closes]
  BY <1>1, <1>5, <1>7, <1>9, <1>11
<1>12. CASE peer.pauses > 0 /\ o = [fails EXCEPT !.slow = 1]
  <2>1. 1 \in 0..1 /\ 1 <= peer.pauses /\ FALSE \in BOOLEAN
    BY <1>1, <1>12
  <2>2. Outcome(Parts(Mem(0), -1, Rest(0), FALSE, 1), min, max)
    BY <1>5, <2>1
  <2> QED BY <1>8, <1>12, <2>2
<1> QED BY <1>2, <1>3, <1>10, <1>11, <1>12

\* HTTPClient::recv.  When nothing is asked for it asks for one byte.
LEMMA ReceiveOutcome ==
  ASSUME TypeOK, NEW min \in Nat, NEW most \in Nat, min <= (IF most = 0 THEN 1 ELSE most),
         NEW o \in Receive(min, most)
  PROVE  Outcome(o, min, IF most = 0 THEN 1 ELSE most)
<1> DEFINE max == IF most = 0 THEN 1 ELSE most
<1>1. max \in Nat /\ min <= max
  OBVIOUS
<1>2. o \in IF https THEN ReceiveTls(max) ELSE ReceiveTcp(min, max)
  BY DEF Receive
<1> HIDE DEF max
<1>3. Outcome(o, min, max)
  BY <1>1, <1>2, TcpOutcome, TlsOutcome
<1> QED BY <1>3 DEF max

\* An outcome written into the buffer.  A read of TLS that fails writes nothing.
LEMMA StoredFacts ==
  ASSUME NEW b \in Buffers, NEW at \in Nat, NEW min \in Nat, NEW max \in Nat,
         NEW o, Outcome(o, min, max)
  PROVE  /\ Stored(b, at, o) \in Buffers
         /\ o.n = -1 /\ at = 0 => Stored(b, at, o) = b
<1> DEFINE all == Put(b, at, o.mem)
<1>1. o.mem \in Seq(Sym) /\ o.n \in Int /\ at + o.n \in Int
  BY DEF Outcome
<1>2. all \in Buffers
  BY <1>1, PutType
<1>3. Stored(b, at, o) = IF https THEN Terminate(all, at + o.n) ELSE all
  BY DEF Stored
<1>4. ASSUME o.n = -1, at = 0 PROVE all = b /\ at + o.n \notin Cells
  BY <1>4, PutNothing DEF Outcome, Cells
<1> HIDE DEF all
<1>5. CASE https
  BY <1>1, <1>2, <1>3, <1>4, <1>5, TerminateType
<1>6. CASE ~https
  <2>1. o.n # -1
    BY <1>6 DEF Outcome
  <2> QED BY <1>2, <1>3, <1>6, <2>1
<1> QED BY <1>5, <1>6

\* What an outcome leaves of the connection.
LEMMA ReceivedFacts ==
  ASSUME TypeOK, NEW min \in Nat, NEW max \in Nat, NEW o, Outcome(o, min, max), Received(o)
  PROVE  /\ peer' \in [resp : Responses, wire : Seq(Sym), pauses : 0..MaxPauses,
                       end : {"closes", "resets", "silent"}]
         /\ sock' \in [fd : BOOLEAN, connected : BOOLEAN] /\ ssl' \in {"off", "on", "error"}
         /\ retry' \in 0..MaxRetry
         /\ https' <=> https
         /\ sock'.fd = sock.fd
         /\ ~https /\ ~sock'.connected => peer'.wire = <<>>
         /\ ~https /\ o.n < min => peer'.wire = <<>> \/ peer'.pauses < MaxPauses
<1> DEFINE w == o.wire
           p == peer.pauses - o.slow
           c == ~o.fin
<1>1. /\ w \in Seq(Sym) /\ p \in 0..MaxPauses /\ c \in BOOLEAN
  BY SMTT(30), HttpAssumption DEF Outcome, TypeOK
<1>2. peer' = [peer EXCEPT !.wire = w, !.pauses = p] /\ sock' = [sock EXCEPT !.connected = c]
  BY DEF Received
<1>3. /\ ~https => (o.fin => w = <<>>)
      /\ ~https /\ o.n < min => w = <<>> \/ p < MaxPauses
  BY HttpAssumption DEF Outcome, TypeOK
<1>4. retry' = retry /\ ssl' = IF o.n = -1 THEN "error" ELSE ssl
  BY DEF Received
<1>5. o.n = -1 => https
  BY DEF Outcome
<1>6. c <=> ~o.fin
  OBVIOUS
<1> HIDE DEF w, p, c
<1>7. peer' \in [resp : Responses, wire : Seq(Sym), pauses : 0..MaxPauses,
                 end : {"closes", "resets", "silent"}]
  BY <1>1, <1>2 DEF TypeOK
<1>8. peer'.wire = w /\ peer'.pauses = p
  BY <1>2 DEF TypeOK
<1>9. sock' \in [fd : BOOLEAN, connected : BOOLEAN] /\ sock'.fd = sock.fd /\ sock'.connected = c
  BY <1>1, <1>2 DEF TypeOK
<1>10. ssl' \in {"off", "on", "error"} /\ (https' <=> https)
  BY <1>4, <1>5 DEF TypeOK, https
<1> QED BY <1>3, <1>4, <1>6, <1>7, <1>8, <1>9, <1>10 DEF TypeOK

-----------------------------------------------------------------------------
(* How a step ends. *)

\* The types of the connection, of the buffer and of what has been delivered.
TcpTypes ==
  /\ ssl \in {"off", "on", "error"} /\ retry \in 0..MaxRetry
  /\ sock \in [fd : BOOLEAN, connected : BOOLEAN]
  /\ peer \in [resp : Responses, wire : Seq(Sym), pauses : 0..MaxPauses,
               end : {"closes", "resets", "silent"}]
BufTypes == buf \in Buffers /\ trfLen \in -1..Chunk /\ (trfLen >= 0 \/ https)
OutTypes ==
  /\ readLen \in Nat /\ mode \in [chunked : BOOLEAN, length : Nat]
  /\ out \in Seq(Sym) /\ Len(out) <= Cap

\* They are what TypeOK says, but for the place and the result.
LEMMA TypesAre ==
  /\ MemoryInv => TcpTypes /\ BufTypes /\ OutTypes
  /\ TypeOK <=> /\ pc \in {"idle", "hardfault"} \cup Busy
                /\ result \in {"none"} \cup HTTPResult
                /\ TcpTypes /\ OutTypes /\ buf \in Buffers /\ trfLen \in -1..Chunk
BY DEF MemoryInv, TypeOK, TcpTypes, BufTypes, OutTypes, LengthFits, Buffers

\* The end of a request keeps the invariant: the socket is given back.
LEMMA FinishKeeps ==
  ASSUME MemoryInv, NEW r \in HTTPResult, Finish(r), peer' = peer, BufTypes', OutTypes'
  PROVE  MemoryInv'
<1>1. /\ pc' = "idle" /\ result' = r /\ ssl' = ssl /\ retry' = retry
      /\ sock' = [sock EXCEPT !.fd = FALSE]
  BY DEF Finish, Goto, Closed
<1>2. sock' \in [fd : BOOLEAN, connected : BOOLEAN] /\ ~sock'.fd
  BY <1>1, TypesAre DEF TcpTypes
<1>3. TcpTypes'
  BY <1>1, <1>2, TypesAre DEF TcpTypes
<1>4. TypeOK'
  BY <1>1, <1>3, TypesAre DEF TypeOK, TcpTypes, OutTypes, BufTypes, Buffers
<1>5. SocketGivenBack' /\ FaultsForAReason'
  BY <1>1, <1>2 DEF SocketGivenBack, FaultsForAReason
<1>6. LinesEnd' /\ LengthFits' /\ StopIsSeen' /\ AttemptLeft'
  BY <1>1 DEF AttemptLeft, LinesEnd, LengthFits, StopIsSeen, BufTypes, Busy
<1> QED BY <1>4, <1>5, <1>6 DEF MemoryInv

\* So does a step to another place in the request that keeps the types and what its new
\* place requires.
LEMMA BusyKeeps ==
  ASSUME MemoryInv, pc' \in Busy \ {"connect", "tls"}, result' = result,
         TcpTypes', BufTypes', OutTypes', LinesEnd',
         pc' = "body" => trfLen' < Chunk, pc' = "chunk_end" => trfLen' \in 0..Chunk - 1,
         ~sock'.connected => https' \/ peer'.wire = <<>>,
         pc' = "chunk_next" /\ trfLen' < 2
           => https' \/ peer'.wire = <<>> \/ peer'.pauses < MaxPauses
  PROVE  MemoryInv'
<1>1. TypeOK'
  BY TypesAre DEF MemoryInv, TypeOK, TcpTypes, OutTypes, BufTypes, Buffers
<1>2. SocketGivenBack' /\ FaultsForAReason'
  BY DEF SocketGivenBack, FaultsForAReason, Busy
<1>3. LengthFits' /\ StopIsSeen' /\ AttemptLeft'
  BY DEF AttemptLeft, LengthFits, StopIsSeen, BufTypes
<1> QED BY <1>1, <1>2, <1>3 DEF MemoryInv

\* A step of the request that only moves on.
LEMMA MoveKeeps ==
  ASSUME MemoryInv, pc \in Busy \ {"connect"}, pc' \in Busy \ {"connect", "tls"}, UNCHANGED <<tcp, data, result>>,
         LinesEnd', pc' = "body" => trfLen < Chunk, pc' = "chunk_end" => trfLen \in 0..Chunk - 1,
         pc' = "chunk_next" => trfLen >= 2
  PROVE  MemoryInv'
<1>1. UNCHANGED <<ssl, retry, sock, peer, buf, trfLen, readLen, mode, out, result>>
  BY DEF tcp, data
<1>2. TcpTypes' /\ BufTypes' /\ OutTypes'
  BY <1>1, TypesAre DEF TcpTypes, BufTypes, OutTypes, https
<1>3. ~sock'.connected => https' \/ peer'.wire = <<>>
  BY <1>1 DEF MemoryInv, StopIsSeen, https
<1>4. trfLen \in -1..Chunk
  BY TypesAre DEF BufTypes
<1> QED BY <1>1, <1>2, <1>3, <1>4, BusyKeeps

\* The request ends and nothing but the socket changes.
LEMMA FinishNowKeeps ==
  ASSUME MemoryInv, NEW r \in HTTPResult, Finish(r), UNCHANGED <<peer, data>>
  PROVE  MemoryInv'
<1>1. BufTypes' /\ OutTypes'
  BY TypesAre DEF BufTypes, OutTypes, https, data, Finish
<1> QED BY <1>1, FinishKeeps DEF data

\* A receive that brings something keeps the invariant if the buffer is in order after it.
LEMMA ReceiveKeeps ==
  ASSUME MemoryInv, NEW min \in Nat, NEW max \in Nat, NEW o, Outcome(o, min, max), Received(o),
         pc' \in Busy \ {"connect", "tls"}, result' = result,
         buf' \in Buffers, trfLen' \in -1..Chunk, trfLen' >= 0 \/ https, OutTypes', LinesEnd',
         pc' = "body" => trfLen' < Chunk, pc' = "chunk_end" => trfLen' \in 0..Chunk - 1,
         pc' = "chunk_next" /\ trfLen' < 2 => o.n < min \/ https
  PROVE  MemoryInv'
<1>1. TypeOK
  BY DEF MemoryInv
<1>2. /\ TcpTypes' /\ (https' <=> https)
      /\ ~https /\ ~sock'.connected => peer'.wire = <<>>
      /\ ~https /\ o.n < min => peer'.wire = <<>> \/ peer'.pauses < MaxPauses
  BY <1>1, ReceivedFacts DEF TcpTypes
<1>3. BufTypes'
  BY <1>2 DEF BufTypes
<1> QED BY <1>2, <1>3, BusyKeeps

\* So does an access with a wrong length, for one of the reasons that there are for it.
LEMMA FaultKeeps ==
  ASSUME MemoryInv, pc' = "hardfault", UNCHANGED <<tcp, buf, trfLen, readLen, mode, result>>,
         out' \in Seq(Sym) /\ Len(out') <= Cap,
         https \/ peer.wire = <<>> \/ peer.pauses < MaxPauses
  PROVE  MemoryInv'
<1>1. UNCHANGED <<ssl, retry, sock, peer, buf, trfLen, readLen, mode, result>>
  BY DEF tcp
<1>2. TypeOK'
  BY <1>1 DEF MemoryInv, TypeOK
<1>3. SocketGivenBack' /\ FaultsForAReason'
  BY <1>1 DEF SocketGivenBack, FaultsForAReason, https
<1>4. BufTypes
  BY TypesAre
<1>5. LinesEnd' /\ LengthFits' /\ StopIsSeen' /\ AttemptLeft'
  BY <1>1, <1>4 DEF AttemptLeft, LinesEnd, LengthFits, StopIsSeen, BufTypes, https, Busy
<1> QED BY <1>2, <1>3, <1>5 DEF MemoryInv

\* recv tells that the connection is closed.
LEMMA ClosedKeeps ==
  ASSUME MemoryInv, ClosedByPeer, OutTypes'
  PROVE  MemoryInv'
<1>1. Finish("HTTP_CONN") /\ "HTTP_CONN" \in HTTPResult /\ UNCHANGED <<peer, buf, trfLen, readLen, mode>>
  BY DEF ClosedByPeer, HTTPResult
<1>2. BufTypes'
  BY <1>1, TypesAre DEF BufTypes, https, Finish
<1> QED BY <1>1, <1>2, FinishKeeps

\* Without TLS nothing is left to be read when recv fails.
LEMMA FailsWhenEmpty ==
  ASSUME MemoryInv, pc \in Busy \ {"connect"}, ReceiveFails
  PROVE  https \/ peer.wire = <<>>
BY DEF MemoryInv, StopIsSeen, ReceiveFails, https

-----------------------------------------------------------------------------
(* The steps of a request. *)

\* What is read over a buffer without a line, and cut off: a failure of TLS leaves it so.
LEMMA FreshBytes ==
  ASSUME MemoryInv, NoCrlf(buf), NEW min \in Nat, NEW max \in Nat, max <= Chunk,
         NEW o, Outcome(o, min, max)
  PROVE  LET b == Terminate(Stored(buf, 0, o), o.n)
         IN  /\ b \in Buffers /\ o.n \in -1..Chunk
             /\ ~NoCrlf(b) => o.n >= 0
             /\ o.n >= 0 => o.n \in Cells /\ b[o.n] = NUL
             /\ o.n >= 0 \/ https
<1> DEFINE a == Stored(buf, 0, o)
           b == Terminate(a, o.n)
<1>1. o.n \in -1..max /\ o.n \in Int /\ (o.n = -1 => https) /\ 0 \in Nat /\ Chunk \in Nat
  BY HttpAssumption DEF Outcome
<1>2. buf \in Buffers
  BY TypesAre DEF BufTypes
<1>3. a \in Buffers /\ (o.n = -1 => a = buf)
  BY <1>1, <1>2, StoredFacts
<1> HIDE DEF a
<1>4. b \in Buffers /\ (o.n \in Cells => b[o.n] = NUL) /\ (o.n \notin Cells => b = a)
  BY <1>1, <1>3, TerminateType
<1> HIDE DEF b
<1>5. o.n >= 0 => o.n \in Cells
  BY <1>1 DEF Cells
<1>6. o.n = -1 => NoCrlf(b)
  <2>1. o.n = -1 => o.n \notin Cells
    BY DEF Cells
  <2> QED BY <1>3, <1>4, <2>1
<1>7. o.n >= 0 \/ o.n = -1
  BY <1>1
<1> QED BY <1>1, <1>4, <1>5, <1>6, <1>7 DEF a, b

\* The status line: the request goes on only with a line that has been received.
LEMMA ReadStatusKeeps ==
  ASSUME MemoryInv, ReadStatus
  PROVE  MemoryInv'
<1> DEFINE B(o) == Terminate(Stored(buf, 0, o), o.n)
<1>1. pc = "status" /\ NoCrlf(buf) /\ "HTTP_PRTCL" \in HTTPResult
  BY DEF ReadStatus, MemoryInv, LinesEnd, HTTPResult
<1>2. Chunk - 1 \in Nat /\ Chunk - 1 # 0 /\ Chunk - 1 <= Chunk
  BY HttpAssumption
<1>9. CASE ClosedByPeer /\ UNCHANGED out
  <2>1. OutTypes'
    BY <1>9, TypesAre DEF ClosedByPeer, OutTypes
  <2> QED BY <1>9, <2>1, ClosedKeeps
<1>3. SUFFICES ASSUME NEW o \in Receive(Chunk - 1, Chunk - 1),
        \/ Finish("HTTP_PRTCL") /\ UNCHANGED <<peer, data>>
        \/ /\ ~NoCrlf(B(o))
           /\ Received(o)
           /\ buf' = NextLine(B(o), o.n) /\ trfLen' = o.n - (CrlfPos(B(o)) + 2)
           /\ mode' = [chunked |-> FALSE, length |-> 0]
           /\ pc' = "headers"
           /\ UNCHANGED <<readLen, out, result>>
      PROVE  MemoryInv'
  BY <1>9 DEF ReadStatus, Goto
<1>4. Outcome(o, Chunk - 1, Chunk - 1)
  <2> DEFINE max == Chunk - 1
  <2>1. TypeOK /\ max \in Nat /\ max # 0 /\ max <= max /\ o \in Receive(max, max)
    BY <1>2 DEF MemoryInv
  <2> HIDE DEF max
  <2>2. Outcome(o, max, max)
    BY <2>1, ReceiveOutcome
  <2> QED BY <2>2 DEF max
<1>5. /\ B(o) \in Buffers
      /\ ~NoCrlf(B(o)) => o.n >= 0
      /\ o.n >= 0 => o.n \in Cells /\ B(o)[o.n] = NUL
  BY <1>1, <1>2, <1>4, FreshBytes
<1> HIDE DEF B
<1>6. CASE Finish("HTTP_PRTCL") /\ UNCHANGED <<peer, data>>
  BY <1>1, <1>6, FinishNowKeeps
<1>7. CASE /\ ~NoCrlf(B(o))
           /\ Received(o)
           /\ buf' = NextLine(B(o), o.n) /\ trfLen' = o.n - (CrlfPos(B(o)) + 2)
           /\ mode' = [chunked |-> FALSE, length |-> 0]
           /\ pc' = "headers"
           /\ UNCHANGED <<readLen, out, result>>
  <2>1. trfLen' \in 0..Chunk - 2 /\ buf' \in Buffers /\ buf'[trfLen'] = NUL
    BY <1>5, <1>7, NextLineFacts
  <2>2. trfLen' \in -1..Chunk /\ trfLen' >= 0
    BY <2>1, HttpAssumption
  <2>3. OutTypes'
    BY <1>7, TypesAre DEF OutTypes
  <2>4. LinesEnd'
    BY <1>7, <2>1 DEF LinesEnd
  <2>5. pc' \in Busy \ {"connect", "tls"}
    BY <1>7 DEF Busy
  <2> QED BY <1>2, <1>4, <1>7, <2>1, <2>2, <2>3, <2>4, <2>5, ReceiveKeeps
<1> QED BY <1>3, <1>6, <1>7

\* The headers: a line that is not complete is completed, or found too long.
LEMMA MoreHeadersKeeps ==
  ASSUME MemoryInv, MoreHeaders
  PROVE  MemoryInv'
<1> DEFINE most == Chunk - trfLen - 1
           A(o) == Stored(buf, trfLen, o)
           B(o) == Terminate(A(o), trfLen + o.n)
<1>1. pc = "headers" /\ NoCrlf(buf) /\ pc \in Busy \ {"connect"}
  BY DEF MoreHeaders, Busy
<1>2. BufTypes /\ OutTypes /\ Chunk \in Nat /\ trfLen \in Int
  BY TypesAre, HttpAssumption DEF BufTypes
<1>3. CASE /\ trfLen \in 0..Chunk - 2
           /\ \E o \in Receive(1, most) :
                /\ Received(o)
                /\ buf' = B(o)
                /\ trfLen' = trfLen + o.n
           /\ UNCHANGED <<pc, readLen, mode, out, result>>
  <2>1. most \in Nat /\ most # 0 /\ 1 <= most /\ trfLen + most = Chunk - 1 /\ trfLen \in Nat
    BY <1>2, <1>3
  <2>2. PICK o \in Receive(1, most) : Received(o) /\ buf' = B(o) /\ trfLen' = trfLen + o.n
    BY <1>3
  <2>3. Outcome(o, 1, most)
    BY <2>1, ReceiveOutcome DEF MemoryInv
  <2>4. o.n \in -1..most /\ (o.n = -1 => https)
    BY <2>3 DEF Outcome
  <2> HIDE DEF most
  <2>5. trfLen' \in -1..Chunk - 1 /\ (trfLen' >= 0 \/ https) /\ trfLen' \in Int
    BY <1>2, <2>1, <2>2, <2>4
  <2>6. A(o) \in Buffers /\ (o.n = -1 /\ trfLen = 0 => A(o) = buf)
    BY <1>2, <2>1, <2>3, StoredFacts DEF BufTypes
  <2> HIDE DEF A
  <2>7. /\ buf' \in Buffers
        /\ trfLen' \in Cells => buf'[trfLen'] = NUL
        /\ trfLen' \notin Cells => buf' = A(o)
    BY <2>2, <2>5, <2>6, TerminateType
  <2> HIDE DEF B
  <2>8. LinesEnd'
    <3>1. trfLen' >= 0 => trfLen' \in Cells
      BY <1>2, <2>5 DEF Cells
    <3>2. trfLen' < 0 => o.n = -1 /\ trfLen = 0 /\ trfLen' \notin Cells
      BY <2>1, <2>2, <2>4 DEF Cells
    <3>3. trfLen' < 0 => NoCrlf(buf')
      BY <1>1, <2>6, <2>7, <3>2
    <3> QED BY <1>1, <1>3, <2>5, <2>7, <3>1, <3>3 DEF LinesEnd
  <2>9. OutTypes'
    BY <1>2, <1>3 DEF OutTypes
  <2>10. /\ pc' = "headers" /\ pc' \in Busy \ {"connect", "tls"} /\ result' = result
         /\ trfLen' \in -1..Chunk
    BY <1>1, <1>2, <1>3, <2>5 DEF Busy
  <2> QED BY <2>1, <2>2, <2>3, <2>5, <2>7, <2>8, <2>9, <2>10, ReceiveKeeps
<1>4. CASE ClosedByPeer /\ UNCHANGED out
  <2>1. OutTypes'
    BY <1>2, <1>4 DEF OutTypes, ClosedByPeer
  <2> QED BY <1>4, <2>1, ClosedKeeps
<1>5. CASE /\ ReceiveFails /\ pc' = "hardfault"
           /\ UNCHANGED <<tcp, buf, trfLen, readLen, mode, result>> /\ UNCHANGED out
  <2>1. https \/ peer.wire = <<>>
    BY <1>1, <1>5, FailsWhenEmpty
  <2>2. out' \in Seq(Sym) /\ Len(out') <= Cap
    BY <1>2, <1>5 DEF OutTypes
  <2> QED BY <1>5, <2>1, <2>2, FaultKeeps
<1>6. CASE trfLen \notin 0..Chunk - 2 /\ pc' = "skip" /\ UNCHANGED <<tcp, data, result>>
  <2>1. LinesEnd' /\ pc' \in Busy \ {"connect", "tls"}
    BY <1>1, <1>6 DEF LinesEnd, data, Busy
  <2> QED BY <1>1, <1>6, <2>1, MoveKeeps
<1> QED BY <1>3, <1>4, <1>5, <1>6 DEF MoreHeaders, Goto

\* Skipping a header that is too long.
LEMMA SkipHeaderKeeps ==
  ASSUME MemoryInv, SkipHeader
  PROVE  MemoryInv'
<1> DEFINE B(o) == Terminate(Stored(buf, 0, o), o.n)
           m(o) == o.n - (CrlfPos(B(o)) + 2)
           D(o) == MoveDown(B(o), CrlfPos(B(o)) + 2, m(o) + 1)
<1>1. /\ pc = "skip" /\ NoCrlf(buf) /\ pc \in Busy \ {"connect"} /\ sock.connected
      /\ UNCHANGED <<readLen, mode, out, result>>
  BY DEF SkipHeader, MemoryInv, LinesEnd, Busy
<1>2. Chunk - 1 \in Nat /\ Chunk - 1 # 0 /\ 1 <= Chunk - 1 /\ Chunk - 1 <= Chunk
  BY HttpAssumption
<1>3. BufTypes /\ OutTypes /\ TcpTypes /\ OutTypes'
  BY <1>1, TypesAre DEF OutTypes
<1>4. ASSUME NEW o \in Receive(1, Chunk - 1), Received(o),
             IF NoCrlf(B(o))
               THEN buf' = B(o) /\ trfLen' = o.n /\ pc' = pc
               ELSE buf' = D(o) /\ trfLen' = m(o) /\ pc' = "headers"
      PROVE  MemoryInv'
  <2>1. Outcome(o, 1, Chunk - 1)
    BY <1>2, ReceiveOutcome DEF MemoryInv
  <2>2. /\ B(o) \in Buffers /\ o.n \in -1..Chunk
        /\ ~NoCrlf(B(o)) => o.n >= 0
        /\ o.n >= 0 => o.n \in Cells /\ B(o)[o.n] = NUL
        /\ o.n >= 0 \/ https
    BY <1>1, <1>2, <2>1, FreshBytes
  <2> HIDE DEF B
  <2>3. ~NoCrlf(B(o)) => m(o) \in 0..Chunk - 2 /\ D(o) \in Buffers /\ D(o)[m(o)] = NUL
    BY <2>2, LineDropped
  <2>4. /\ buf' \in Buffers /\ trfLen' \in -1..Chunk /\ (trfLen' >= 0 \/ https)
        /\ pc' \in Busy \ {"connect", "tls"} /\ LinesEnd'
    <3>1. CASE NoCrlf(B(o))
      BY <1>1, <1>4, <2>2, <3>1 DEF LinesEnd, Busy
    <3>2. CASE ~NoCrlf(B(o))
      <4>1. m(o) \in -1..Chunk /\ m(o) >= 0
        BY <2>3, <3>2, HttpAssumption
      <4> HIDE DEF m, D
      <4> QED BY <1>4, <2>3, <3>2, <4>1 DEF LinesEnd, Busy
    <3> QED BY <3>1, <3>2
  <2>5. pc' \in {"skip", "headers"}
    BY <1>1, <1>4
  <2> QED BY <1>1, <1>2, <1>3, <1>4, <2>1, <2>4, <2>5, ReceiveKeeps
<1>5. CASE ReceiveFails /\ ssl' = "error" /\ UNCHANGED <<pc, retry, sock, peer, buf, trfLen>>
  <2>1. https /\ https'
    BY <1>1, <1>5 DEF ReceiveFails, https
  <2>2. TcpTypes' /\ BufTypes'
    BY <1>3, <1>5, <2>1 DEF TcpTypes, BufTypes
  <2>3. LinesEnd' /\ pc' = "skip" /\ pc' \in Busy \ {"connect", "tls"}
    BY <1>1, <1>5 DEF LinesEnd, Busy
  <2> QED BY <1>1, <1>3, <2>1, <2>2, <2>3, BusyKeeps
<1> QED BY <1>1, <1>4, <1>5 DEF SkipHeader, Goto

\* A line that is found in the headers lies within what has been received.
LEMMA HeaderLine ==
  ASSUME MemoryInv, pc = "headers", ~NoCrlf(buf)
  PROVE  /\ trfLen \in Cells /\ buf[trfLen] = NUL /\ buf \in Buffers
         /\ CrlfPos(buf) \in Nat /\ CrlfPos(buf) + 2 <= trfLen
<1>1. trfLen >= 0 /\ buf[trfLen] = NUL
  BY DEF MemoryInv, LinesEnd
<1>2. trfLen \in Cells /\ buf \in Buffers
  BY <1>1, TypesAre, HttpAssumption DEF BufTypes, Cells
<1> QED BY <1>1, <1>2, LineFits

\* One header.
LEMMA ParseHeaderKeeps ==
  ASSUME MemoryInv, ParseHeader
  PROVE  MemoryInv'
<1>1. pc = "headers" /\ ~NoCrlf(buf)
  BY DEF ParseHeader
<1>2. trfLen \in Cells /\ buf[trfLen] = NUL /\ buf \in Buffers
  BY <1>1, HeaderLine
<1>3. CASE /\ mode' = CASE buf[0].k = "length"  -> [mode EXCEPT !.length = buf[0].n]
                       [] buf[0].k = "chunked" -> [mode EXCEPT !.chunked = TRUE]
                       [] OTHER                -> mode
           /\ buf' = NextLine(buf, trfLen) /\ trfLen' = trfLen - (CrlfPos(buf) + 2)
           /\ UNCHANGED <<pc, tcp, readLen, out, result>>
  <2>1. trfLen' \in 0..Chunk - 2 /\ buf' \in Buffers /\ buf'[trfLen'] = NUL
    BY <1>1, <1>2, <1>3, NextLineFacts
  <2>2. mode' \in [chunked : BOOLEAN, length : Nat]
    <3>1. mode \in [chunked : BOOLEAN, length : Nat] /\ buf[0].n \in Nat
      BY <1>2, TypesAre, HttpAssumption DEF OutTypes, Buffers, Cells, Sym
    <3> QED BY <1>3, <3>1
  <2>3. TcpTypes' /\ OutTypes'
    BY <1>3, <2>2, TypesAre DEF TcpTypes, OutTypes, tcp
  <2>4. BufTypes' /\ trfLen' >= 0
    BY <2>1, HttpAssumption DEF BufTypes
  <2>5. LinesEnd' /\ pc' = "headers" /\ pc' \in Busy \ {"connect", "tls"}
    BY <1>1, <1>3, <2>1 DEF LinesEnd, Busy
  <2>6. ~sock'.connected => https' \/ peer'.wire = <<>>
    BY <1>1, <1>3 DEF MemoryInv, StopIsSeen, https, tcp, Busy
  <2> QED BY <1>3, <2>3, <2>4, <2>5, <2>6, BusyKeeps
<1>4. CASE Finish("HTTP_PRTCL") /\ UNCHANGED <<peer, data>>
  <2>1. "HTTP_PRTCL" \in HTTPResult
    BY DEF HTTPResult
  <2> QED BY <1>4, <2>1, FinishNowKeeps
<1> QED BY <1>3, <1>4 DEF ParseHeader

\* The empty line at the end of the headers.
LEMMA EndOfHeadersKeeps ==
  ASSUME MemoryInv, EndOfHeaders
  PROVE  MemoryInv'
<1>1. /\ pc = "headers" /\ ~NoCrlf(buf) /\ CrlfPos(buf) = 0
      /\ buf' = MoveDown(buf, 2, trfLen - 2 + 1) /\ trfLen' = trfLen - 2
      /\ readLen' = mode.length /\ pc' \in {"chunk", "body"}
      /\ UNCHANGED <<tcp, mode, out, result>>
  BY DEF EndOfHeaders, Goto
<1>2. trfLen \in Cells /\ buf \in Buffers /\ 2 <= trfLen
  BY <1>1, HeaderLine
<1> DEFINE k == trfLen - 2 + 1
<1>3. k \in Int /\ 2 + k <= Chunk + 1 /\ trfLen - 2 \in 0..Chunk - 2
  BY <1>2, HttpAssumption DEF Cells
<1>4. buf' = MoveDown(buf, 2, k)
  BY <1>1
<1> HIDE DEF k
<1>5. buf' \in Buffers
  BY <1>2, <1>3, <1>4, MoveDownType
<1>6. BufTypes' /\ trfLen' >= 0 /\ trfLen' < Chunk
  BY <1>1, <1>3, <1>5, HttpAssumption DEF BufTypes
<1>7. TcpTypes' /\ OutTypes'
  BY <1>1, TypesAre DEF TcpTypes, OutTypes, tcp
<1>8. ~sock'.connected => https' \/ peer'.wire = <<>>
  BY <1>1 DEF MemoryInv, StopIsSeen, https, tcp, Busy
<1>9. LinesEnd' /\ pc' \in Busy \ {"connect", "tls"} /\ pc' \notin {"chunk_end", "chunk_next"}
  BY <1>1 DEF LinesEnd, Busy
<1> QED BY <1>1, <1>6, <1>7, <1>8, <1>9, BusyKeeps

-----------------------------------------------------------------------------
(* The body. *)

\* A size that sscanf finds is a number.
LEMMA SizesType ==
  ASSUME NEW b \in Buffers, NEW p \in 0..Chunk
  PROVE  Sizes(b, p) \subseteq Nat \cup {-1}
<1> DEFINE text == {i \in 0..p - 1 : b[i] \notin {CR, LF}}
           first == CHOOSE i \in text : \A j \in text : i <= j
<1>1. Sizes(b, p) = CASE text # {} /\ b[first].k = "size" -> {b[first].n}
                      [] text # {} /\ b[first].k = "data" -> {-1, 0, 1}
                      [] OTHER -> {-1}
  BY DEF Sizes
<1>2. text \subseteq Nat /\ text \subseteq Cells
  BY HttpAssumption DEF Cells
<1>3. text # {} => first \in text
  <2> HIDE DEF text
  <2> QED BY <1>2, LeastElement
<1> HIDE DEF text, first
<1>4. text # {} => b[first].n \in Nat
  BY <1>2, <1>3 DEF Buffers, Sym
<1> QED BY <1>1, <1>4

\* What write adds fits.
LEMMA WriteFits ==
  ASSUME MemoryInv, Write
  PROVE  out' \in Seq(Sym) /\ Len(out') <= Cap
<1> DEFINE piece == [i \in 1..Taken |-> Byte(i - 1)]
           all == out \o piece
           n == Least(Len(all), Cap)
<1>1. /\ trfLen \in -1..Chunk /\ readLen \in Nat /\ buf \in Buffers /\ out \in Seq(Sym)
      /\ Cap \in Nat /\ Chunk \in Nat
  BY TypesAre, HttpAssumption DEF BufTypes, OutTypes
<1>2. Taken \in Nat
  BY <1>1 DEF Taken, Least
<1>3. ASSUME NEW i \in 1..Taken PROVE Byte(i - 1) \in Sym
  <2>1. S("junk", 0) \in Sym
    BY DEF S, Sym, Kind
  <2> QED BY <1>1, <2>1 DEF Byte, Buffers
<1>4. piece \in Seq(Sym)
  <2> HIDE DEF Taken
  <2> QED BY <1>2, <1>3
<1>5. out' = SubSeq(all, 1, n)
  BY DEF Write
<1> HIDE DEF piece
<1>6. all \in Seq(Sym) /\ Len(all) \in Nat
  BY <1>1, <1>4
<1> HIDE DEF all
<1>7. n \in Nat /\ n <= Len(all) /\ n <= Cap
  BY <1>1, <1>6 DEF Least
<1> HIDE DEF n
<1>8. \A i \in 1..n : all[i] \in Sym
  BY <1>6, <1>7
<1>9. SubSeq(all, 1, n) \in Seq(Sym) /\ Len(SubSeq(all, 1, n)) = (IF 1 <= n THEN n - 1 + 1 ELSE 0)
  BY <1>7, <1>8, SubSeqProperties
<1> QED BY <1>1, <1>5, <1>7, <1>9

\* The line with the size of a chunk is cut off within what has been received.
LEMMA ChunkHeaderKeeps ==
  ASSUME MemoryInv, ChunkHeader
  PROVE  MemoryInv'
<1> DEFINE c == Terminate(buf, trfLen)
           p == CrlfPos(c)
           b == Terminate(c, p)
           m == trfLen - (p + 2)
<1>1. pc = "chunk" /\ trfLen >= 2 /\ ~NoCrlf(c)
  BY DEF ChunkHeader
<1>2. trfLen \in Cells /\ trfLen \in Int /\ trfLen <= Chunk /\ buf \in Buffers
  BY <1>1, TypesAre, HttpAssumption DEF BufTypes, Cells
<1>3. \/ Finish("HTTP_OK") /\ UNCHANGED <<peer, data>>
      \/ Finish("HTTP_PRTCL") /\ UNCHANGED <<peer, data>>
      \/ \E n \in Sizes(b, p) :
           /\ n > 0 /\ readLen' = n
           /\ buf' = MoveDown(b, p + 2, m) /\ trfLen' = m /\ pc' = "body"
           /\ UNCHANGED <<tcp, mode, out, result>>
  BY DEF ChunkHeader, Goto
<1>4. c \in Buffers /\ c[trfLen] = NUL
  BY <1>2, TerminateType
<1> HIDE DEF c
<1>5. p \in 0..Chunk - 1 /\ p + 2 <= trfLen /\ p \in Int /\ p \in 0..Chunk
  BY <1>1, <1>2, <1>4, LineFits, HttpAssumption
<1> HIDE DEF p
<1>6. b \in Buffers
  BY <1>4, <1>5, TerminateType
<1> HIDE DEF b
<1>7. ASSUME NEW n \in Sizes(b, p), n > 0, readLen' = n,
             buf' = MoveDown(b, p + 2, m), trfLen' = m, pc' = "body",
             UNCHANGED <<tcp, mode, out, result>>
      PROVE  MemoryInv'
  <2>1. n \in Nat
    BY <1>5, <1>6, <1>7, SizesType
  <2>2. p + 2 \in Nat /\ m \in 0..Chunk - 1 /\ (p + 2) + m <= Chunk + 1 /\ m \in Int
    BY <1>2, <1>5, HttpAssumption
  <2> HIDE DEF m
  <2>3. buf' \in Buffers
    BY <1>6, <1>7, <2>2, MoveDownType
  <2>4. BufTypes' /\ trfLen' < Chunk
    BY <1>7, <2>2, <2>3, HttpAssumption DEF BufTypes
  <2>5. TcpTypes' /\ OutTypes'
    BY <1>7, <2>1, TypesAre DEF TcpTypes, OutTypes, tcp
  <2>6. ~sock'.connected => https' \/ peer'.wire = <<>>
    BY <1>1, <1>7 DEF MemoryInv, StopIsSeen, https, tcp, Busy
  <2>7. LinesEnd' /\ pc' \in Busy \ {"connect", "tls"}
    BY <1>7 DEF LinesEnd, Busy
  <2> QED BY <1>7, <2>4, <2>5, <2>6, <2>7, BusyKeeps
<1>8. "HTTP_OK" \in HTTPResult /\ "HTTP_PRTCL" \in HTTPResult
  BY DEF HTTPResult
<1> QED BY <1>3, <1>7, <1>8, FinishNowKeeps

\* The line is not complete, or longer than the buffer.
LEMMA MoreChunkHeaderKeeps ==
  ASSUME MemoryInv, MoreChunkHeader
  PROVE  MemoryInv'
<1> DEFINE most == Chunk - trfLen - 1
           max == IF most = 0 THEN 1 ELSE most
           c == Terminate(buf, trfLen)
<1>1. pc = "chunk" /\ BufTypes /\ OutTypes /\ Chunk \in Nat /\ trfLen \in Int
  BY TypesAre, HttpAssumption DEF MoreChunkHeader, BufTypes
<1>2. ASSUME trfLen \in 0..Chunk - 1, NEW o \in Receive(0, most), Received(o),
             buf' = Stored(c, trfLen, o), trfLen' = trfLen + o.n,
             UNCHANGED <<pc, readLen, mode, out, result>>
      PROVE  MemoryInv'
  <2>1. most \in Nat /\ trfLen \in Nat /\ 0 \in Nat
    BY <1>1, <1>2
  <2>2. max \in Nat /\ 0 <= max /\ trfLen + max <= Chunk
    BY <1>1, <1>2
  <2>3. o \in Receive(0, most)
    BY <1>2
  <2> HIDE DEF most
  <2>4. Outcome(o, 0, max)
    BY <2>1, <2>2, <2>3, ReceiveOutcome DEF MemoryInv
  <2> HIDE DEF max
  <2>5. o.n \in -1..max /\ (o.n = -1 => https)
    BY <2>4 DEF Outcome
  <2>6. trfLen' \in -1..Chunk /\ (trfLen' >= 0 \/ https)
    BY <1>1, <1>2, <2>1, <2>2, <2>5
  <2>7. c \in Buffers
    BY <1>1, TerminateType DEF BufTypes
  <2> HIDE DEF c
  <2>8. buf' \in Buffers
    BY <1>2, <2>1, <2>2, <2>4, <2>7, StoredFacts
  <2>9. OutTypes' /\ LinesEnd' /\ pc' = "chunk" /\ pc' \in Busy \ {"connect", "tls"} /\ result' = result
    BY <1>1, <1>2 DEF OutTypes, LinesEnd, Busy
  <2> QED BY <2>1, <2>2, <2>4, <1>2, <2>6, <2>8, <2>9, ReceiveKeeps
<1>3. CASE ClosedByPeer /\ UNCHANGED out
  <2>1. OutTypes'
    BY <1>1, <1>3 DEF OutTypes, ClosedByPeer
  <2> QED BY <1>3, <2>1, ClosedKeeps
<1>4. CASE Finish("HTTP_PRTCL") /\ UNCHANGED <<peer, data>>
  <2>1. "HTTP_PRTCL" \in HTTPResult
    BY DEF HTTPResult
  <2> QED BY <1>4, <2>1, FinishNowKeeps
<1> QED BY <1>2, <1>3, <1>4 DEF MoreChunkHeader

\* The body or the chunk is complete, and what is behind it stays.
LEMMA LastOfBodyKeeps ==
  ASSUME MemoryInv, LastOfBody
  PROVE  MemoryInv'
<1>1. /\ pc = "body" /\ trfLen >= readLen /\ Write /\ readLen' = 0 /\ UNCHANGED <<peer, mode>>
      /\ IF trfLen > readLen
           THEN buf' = MoveDown(buf, readLen, trfLen - readLen) /\ trfLen' = trfLen - readLen
           ELSE UNCHANGED <<buf, trfLen>>
      /\ \/ pc' = "chunk_end" /\ UNCHANGED <<ssl, retry, sock, result>>
         \/ Finish("HTTP_OK")
  BY DEF LastOfBody, Goto
<1>2. BufTypes /\ OutTypes /\ TcpTypes /\ readLen \in Nat /\ trfLen \in Int /\ Chunk \in Nat
  BY TypesAre, HttpAssumption DEF BufTypes, OutTypes
<1>3. trfLen \in 0..Chunk - 1 /\ trfLen \in Nat
  BY <1>1, <1>2 DEF MemoryInv, LengthFits
<1>4. OutTypes'
  BY <1>1, <1>2, <1>3, WriteFits DEF OutTypes
<1>5. buf' \in Buffers /\ trfLen' \in 0..Chunk - 1
  <2>1. CASE trfLen > readLen
    <3> DEFINE m == trfLen - readLen
    <3>1. m \in Int /\ readLen + m <= Chunk + 1 /\ m \in 0..Chunk - 1
      BY <1>2, <1>3, <2>1
    <3>2. buf' = MoveDown(buf, readLen, m) /\ trfLen' = m
      BY <1>1, <2>1
    <3> HIDE DEF m
    <3> QED BY <1>2, <3>1, <3>2, MoveDownType DEF BufTypes
  <2>2. CASE ~(trfLen > readLen)
    BY <1>1, <1>2, <1>3, <2>2 DEF BufTypes
  <2> QED BY <2>1, <2>2
<1>6. trfLen' \in -1..Chunk /\ trfLen' >= 0 /\ BufTypes'
  BY <1>2, <1>5 DEF BufTypes
<1>7. CASE pc' = "chunk_end" /\ UNCHANGED <<ssl, retry, sock, result>>
  <2>1. TcpTypes' /\ LinesEnd' /\ pc' \in Busy \ {"connect", "tls"} /\ pc' # "body"
    BY <1>1, <1>2, <1>7 DEF TcpTypes, LinesEnd, Busy
  <2>2. ~sock'.connected => https' \/ peer'.wire = <<>>
    BY <1>1, <1>7 DEF MemoryInv, StopIsSeen, https, Busy
  <2> QED BY <1>4, <1>5, <1>6, <1>7, <2>1, <2>2, BusyKeeps
<1>8. CASE Finish("HTTP_OK")
  <2>1. "HTTP_OK" \in HTTPResult
    BY DEF HTTPResult
  <2> QED BY <1>1, <1>4, <1>6, <1>8, <2>1, FinishKeeps
<1> QED BY <1>1, <1>7, <1>8

\* What has been received belongs to the body, and more is missing: the buffer is filled anew.
LEMMA MoreBodyKeeps ==
  ASSUME MemoryInv, MoreBody
  PROVE  MemoryInv'
<1> DEFINE most == Chunk - trfLen - 1
           max == IF most = 0 THEN 1 ELSE most
<1>1. /\ pc = "body" /\ trfLen \in 0..readLen - 1 /\ Write
      /\ \/ /\ \E o \in Receive(1, most) :
                 /\ Received(o)
                 /\ buf' = Stored(buf, 0, o) /\ trfLen' = o.n
            /\ readLen' = readLen - trfLen
            /\ UNCHANGED <<pc, mode, result>>
         \/ ClosedByPeer
  BY DEF MoreBody
<1>2. BufTypes /\ OutTypes /\ readLen \in Nat /\ Chunk \in Nat /\ Chunk >= 4 /\ trfLen \in Int
  BY TypesAre, HttpAssumption DEF BufTypes, OutTypes
<1>3. trfLen < Chunk /\ trfLen >= 0
  BY <1>1, <1>2 DEF MemoryInv, LengthFits
<1>4. out' \in Seq(Sym) /\ Len(out') <= Cap
  BY <1>1, <1>3, WriteFits
<1>5. ASSUME NEW o \in Receive(1, most), Received(o), buf' = Stored(buf, 0, o), trfLen' = o.n,
             readLen' = readLen - trfLen, UNCHANGED <<pc, mode, result>>
      PROVE  MemoryInv'
  <2>1. most \in Nat /\ 0 \in Nat /\ 1 \in Nat
    BY <1>2, <1>3
  <2>2. max \in Nat /\ 1 <= max /\ max < Chunk
    BY <1>2, <1>3
  <2>3. o \in Receive(1, most)
    BY <1>5
  <2> HIDE DEF most
  <2>4. Outcome(o, 1, max)
    BY <2>1, <2>2, <2>3, ReceiveOutcome DEF MemoryInv
  <2> HIDE DEF max
  <2>5. o.n \in -1..max /\ (o.n = -1 => https)
    BY <2>4 DEF Outcome
  <2>6. trfLen' \in -1..Chunk /\ trfLen' < Chunk /\ (trfLen' >= 0 \/ https)
    BY <1>2, <1>5, <2>2, <2>5
  <2>7. buf' \in Buffers
    BY <1>2, <1>5, <2>1, <2>2, <2>4, StoredFacts DEF BufTypes
  <2>8. readLen' \in Nat
    BY <1>1, <1>2, <1>5
  <2>9. OutTypes' /\ LinesEnd' /\ pc' = "body" /\ pc' \in Busy \ {"connect", "tls"} /\ result' = result
    BY <1>1, <1>2, <1>4, <1>5, <2>8 DEF OutTypes, LinesEnd, Busy
  <2> QED BY <1>5, <2>1, <2>2, <2>4, <2>6, <2>7, <2>9, ReceiveKeeps
<1>6. CASE ClosedByPeer
  <2>1. OutTypes'
    BY <1>2, <1>4, <1>6 DEF OutTypes, ClosedByPeer
  <2> QED BY <1>6, <2>1, ClosedKeeps
<1> QED BY <1>1, <1>5, <1>6

\* A length of -1 is met with TLS only.
LEMMA BodyFaultKeeps ==
  ASSUME MemoryInv, BodyFault
  PROVE  MemoryInv'
<1>1. https
  BY DEF BodyFault, MemoryInv, LengthFits
<1>2. out' \in Seq(Sym) /\ Len(out') <= Cap
  BY WriteFits DEF BodyFault
<1> QED BY <1>1, <1>2, FaultKeeps DEF BodyFault, Goto

\* The end of a chunk: fewer than two bytes come only when the peer has stopped or paused.
LEMMA ChunkEndKeeps ==
  ASSUME MemoryInv, ChunkEnd
  PROVE  MemoryInv'
<1> DEFINE most == Chunk - trfLen - 1
           min == 2 - trfLen
<1>1. pc = "chunk_end" /\ pc \in Busy \ {"connect"} /\ BufTypes /\ OutTypes /\ Chunk \in Nat /\ Chunk >= 4
  BY TypesAre, HttpAssumption DEF ChunkEnd, Busy
<1>2. trfLen \in 0..Chunk - 1 /\ trfLen \in Nat
  BY <1>1 DEF MemoryInv, LengthFits
<1>3. CASE trfLen >= 2 /\ pc' = "chunk_next" /\ UNCHANGED <<tcp, data, result>>
  <2>1. LinesEnd' /\ pc' \in Busy \ {"connect", "tls"} /\ pc' \notin {"body", "chunk_end"}
    BY <1>3 DEF LinesEnd, Busy
  <2> QED BY <1>1, <1>3, <2>1, MoveKeeps
<1>4. ASSUME trfLen < 2, NEW o \in Receive(min, most), Received(o), pc' = "chunk_next",
             buf' = Stored(buf, trfLen, o), trfLen' = trfLen + o.n,
             UNCHANGED <<readLen, mode, out, result>>
      PROVE  MemoryInv'
  <2>1. /\ most \in Nat /\ most # 0 /\ min \in Nat /\ min <= most /\ trfLen + most < Chunk
        /\ trfLen + min = 2
    BY <1>1, <1>2, <1>4
  <2>2. o \in Receive(min, most)
    BY <1>4
  <2> HIDE DEF most, min
  <2>3. Outcome(o, min, most)
    BY <2>1, <2>2, ReceiveOutcome DEF MemoryInv
  <2>4. o.n \in -1..most /\ (o.n = -1 => https)
    BY <2>3 DEF Outcome
  <2>5. /\ trfLen' \in -1..Chunk /\ (trfLen' >= 0 \/ https)
        /\ trfLen' < 2 => o.n < min
    BY <1>1, <1>2, <1>4, <2>1, <2>4
  <2>6. buf' \in Buffers
    BY <1>1, <1>2, <1>4, <2>1, <2>3, StoredFacts DEF BufTypes
  <2>7. /\ OutTypes' /\ LinesEnd' /\ pc' \notin {"body", "chunk_end"}
        /\ pc' \in Busy \ {"connect", "tls"} /\ result' = result
    BY <1>1, <1>4 DEF OutTypes, LinesEnd, Busy
  <2> QED BY <1>4, <2>1, <2>3, <2>5, <2>6, <2>7, ReceiveKeeps
<1>5. CASE ClosedByPeer /\ UNCHANGED out
  <2>1. OutTypes'
    BY <1>1, <1>5 DEF OutTypes, ClosedByPeer
  <2> QED BY <1>5, <2>1, ClosedKeeps
<1> QED BY <1>3, <1>4, <1>5 DEF ChunkEnd, Goto

\* The two bytes are dropped if they are there.
LEMMA ChunkNextKeeps ==
  ASSUME MemoryInv, ChunkNext
  PROVE  MemoryInv'
<1>1. /\ pc = "chunk_next" /\ BufTypes /\ OutTypes /\ TcpTypes
      /\ Chunk \in Nat /\ Chunk >= 4 /\ trfLen \in -1..Chunk
  BY TypesAre, HttpAssumption DEF ChunkNext, BufTypes
<1>2. \/ Finish("HTTP_OK") /\ UNCHANGED <<peer, data>>
      \/ /\ trfLen >= 2
         /\ buf' = MoveDown(buf, 2, trfLen - 2) /\ trfLen' = trfLen - 2 /\ pc' = "chunk"
         /\ UNCHANGED <<tcp, readLen, mode, out, result>>
      \/ trfLen < 2 /\ pc' = "hardfault" /\ UNCHANGED <<tcp, data, result>>
  <2> DEFINE ends == buf[0] = CR /\ buf[1] = LF /\ buf[2] = NUL
  <2>1. CASE ends
    BY <2>1 DEF ChunkNext
  <2>2. CASE ~ends /\ trfLen >= 2
    BY <2>2 DEF ChunkNext, Goto
  <2>3. CASE ~ends /\ ~(trfLen >= 2)
    BY <1>1, <2>3 DEF ChunkNext, Goto
  <2> QED BY <2>1, <2>2, <2>3
<1>3. CASE Finish("HTTP_OK") /\ UNCHANGED <<peer, data>>
  <2>1. "HTTP_OK" \in HTTPResult
    BY DEF HTTPResult
  <2> QED BY <1>3, <2>1, FinishNowKeeps
<1>4. CASE /\ trfLen >= 2
           /\ buf' = MoveDown(buf, 2, trfLen - 2) /\ trfLen' = trfLen - 2 /\ pc' = "chunk"
           /\ UNCHANGED <<tcp, readLen, mode, out, result>>
  <2> DEFINE m == trfLen - 2
  <2>1. m \in Int /\ 2 + m <= Chunk + 1 /\ m \in -1..Chunk /\ m >= 0
    BY <1>1, <1>4
  <2>2. buf' = MoveDown(buf, 2, m) /\ trfLen' = m
    BY <1>4
  <2> HIDE DEF m
  <2>3. buf' \in Buffers
    BY <1>1, <2>1, <2>2, MoveDownType DEF BufTypes
  <2>4. BufTypes' /\ TcpTypes' /\ OutTypes'
    BY <1>1, <1>4, <2>1, <2>2, <2>3 DEF BufTypes, TcpTypes, OutTypes, tcp
  <2>5. /\ LinesEnd' /\ pc' \in Busy \ {"connect", "tls"} /\ result' = result
        /\ pc' \notin {"body", "chunk_end", "chunk_next"}
    BY <1>4 DEF LinesEnd, Busy
  <2>6. ~sock'.connected => https' \/ peer'.wire = <<>>
    BY <1>1, <1>4 DEF MemoryInv, StopIsSeen, https, tcp, Busy
  <2> QED BY <2>4, <2>5, <2>6, BusyKeeps
<1>5. CASE trfLen < 2 /\ pc' = "hardfault" /\ UNCHANGED <<tcp, data, result>>
  <2>1. https \/ peer.wire = <<>> \/ peer.pauses < MaxPauses
    BY <1>1, <1>5 DEF MemoryInv, StopIsSeen
  <2>2. UNCHANGED <<tcp, buf, trfLen, readLen, mode, result>> /\ out' = out
    BY <1>5 DEF data
  <2>3. out' \in Seq(Sym) /\ Len(out') <= Cap
    BY <2>2, TypesAre DEF OutTypes
  <2> QED BY <1>5, <2>1, <2>2, <2>3, FaultKeeps
<1> QED BY <1>2, <1>3, <1>4, <1>5

-----------------------------------------------------------------------------
(* Connecting, and the invariant. *)

\* The state of a request that has not begun.
LEMMA Fresh ==
  /\ NoPeer \in [resp : Responses, wire : Seq(Sym), pauses : 0..MaxPauses,
                 end : {"closes", "resets", "silent"}]
  /\ Junk \in Buffers /\ NoCrlf(Junk)
  /\ [chunked |-> FALSE, length |-> 0] \in [chunked : BOOLEAN, length : Nat]
  /\ <<>> \in Seq(Sym) /\ Len(<<>>) <= Cap
<1>1. (CHOOSE r \in Responses : TRUE) \in Responses
  BY HttpAssumption
<1>2. <<>> \in Seq(Sym) /\ Len(<<>>) = 0 /\ 0 \in 0..MaxPauses /\ 0 <= Cap /\ Chunk \in Nat
  BY EmptySeq, HttpAssumption
<1>3. S("junk", 0) \in Sym /\ S("junk", 0) # CR
  BY DEF S, Sym, Kind, CR
<1>4. Junk \in Buffers /\ NoCrlf(Junk)
  BY <1>2, <1>3 DEF Junk, Buffers, NoCrlf, Crlfs, Cells
<1> QED BY <1>1, <1>2, <1>4 DEF NoPeer

\* It holds before the first request.
LEMMA InitEstablishes == Init => MemoryInv
<1> SUFFICES ASSUME Init PROVE MemoryInv
  OBVIOUS
<1>1. 0 \in 0..MaxRetry /\ 0 \in -1..Chunk /\ 0 \in Nat /\ 0 >= 0
  BY HttpAssumption
<1>2. TypeOK
  BY <1>1, Fresh DEF Init, TypeOK, Buffers
<1> QED BY <1>1, <1>2 DEF Init, MemoryInv, SocketGivenBack, FaultsForAReason, LinesEnd, LengthFits,
                          StopIsSeen, AttemptLeft, Busy

\* A request begins, or its URL is refused.
LEMMA BeginKeeps ==
  ASSUME MemoryInv, Begin
  PROVE  MemoryInv'
<1>1. /\ pc = "idle" /\ out' = <<>> /\ peer' = NoPeer /\ buf' = Junk
      /\ trfLen' = 0 /\ readLen' = 0 /\ mode' = [chunked |-> FALSE, length |-> 0] /\ sock' = sock
      /\ \/ ssl' \in {"off", "on"} /\ retry' = 0 /\ pc' = "connect" /\ result' = "none"
         \/ result' = "HTTP_PARSE" /\ UNCHANGED <<pc, ssl, retry>>
  BY DEF Begin, Goto
<1>2. 0 \in 0..MaxRetry /\ 0 < MaxRetry /\ 0 \in -1..Chunk /\ 0 \in Nat /\ 0 >= 0
  BY HttpAssumption
<1>3. TcpTypes /\ (pc = "idle" /\ sock.fd => https)
  BY TypesAre DEF MemoryInv, SocketGivenBack
<1>4. TypeOK'
  BY <1>1, <1>2, <1>3, Fresh DEF TypeOK, TcpTypes, Buffers, HTTPResult, Busy
<1>5. SocketGivenBack' /\ FaultsForAReason'
  BY <1>1, <1>3 DEF SocketGivenBack, FaultsForAReason, https
<1>6. LinesEnd' /\ LengthFits' /\ StopIsSeen' /\ AttemptLeft'
  BY <1>1, <1>2, Fresh DEF LinesEnd, LengthFits, StopIsSeen, AttemptLeft, Busy
<1> QED BY <1>4, <1>5, <1>6 DEF MemoryInv

\* An attempt to connect fails; after the last one the request ends.
LEMMA ConnectFailsKeeps ==
  ASSUME MemoryInv, ConnectFails
  PROVE  MemoryInv'
<1>1. /\ pc = "connect" /\ retry' = retry + 1
      /\ UNCHANGED <<ssl, peer, buf, trfLen, readLen, mode, out>>
      /\ \/ /\ retry + 1 = MaxRetry /\ pc' = "idle" /\ result' = "HTTP_CONN"
            /\ sock' = [sock EXCEPT !.fd = FALSE]
         \/ /\ retry + 1 # MaxRetry /\ UNCHANGED <<pc, result>>
            /\ sock' = sock \/ sock' = [sock EXCEPT !.fd = TRUE]
  BY DEF ConnectFails, Goto, Closed, data
<1>2. /\ TcpTypes /\ retry \in 0..MaxRetry /\ MaxRetry \in Nat /\ retry < MaxRetry
      /\ result \in {"none"} \cup HTTPResult
  BY <1>1, TypesAre, HttpAssumption DEF MemoryInv, TypeOK, TcpTypes, AttemptLeft
<1>3. retry' \in 0..MaxRetry /\ (retry + 1 # MaxRetry => retry' < MaxRetry)
  BY <1>1, <1>2
<1>4. sock' \in [fd : BOOLEAN, connected : BOOLEAN] /\ (pc' = "idle" => ~sock'.fd)
  BY <1>1, <1>2 DEF TcpTypes
<1>5. TypeOK'
  BY <1>1, <1>3, <1>4 DEF MemoryInv, TypeOK, HTTPResult
<1>6. SocketGivenBack' /\ FaultsForAReason' /\ AttemptLeft'
  BY <1>1, <1>3, <1>4 DEF SocketGivenBack, FaultsForAReason, AttemptLeft
<1>7. LinesEnd' /\ LengthFits' /\ StopIsSeen'
  BY <1>1 DEF MemoryInv, LinesEnd, LengthFits, StopIsSeen, https, Busy
<1> QED BY <1>5, <1>6, <1>7 DEF MemoryInv

\* The server answers.
LEMMA ConnectSucceedsKeeps ==
  ASSUME MemoryInv, ConnectSucceeds
  PROVE  MemoryInv'
<1>1. /\ pc = "connect" /\ sock' = [fd |-> TRUE, connected |-> TRUE]
      /\ pc' = (IF https THEN "tls" ELSE "send") /\ retry' = 0
      /\ UNCHANGED <<ssl, buf, trfLen, readLen, mode, out, result>>
  BY DEF ConnectSucceeds, Goto, data
<1>2. peer' \in [resp : Responses, wire : Seq(Sym), pauses : 0..MaxPauses,
                 end : {"closes", "resets", "silent"}]
  <2>1. PICK r \in Responses :
          \E e \in {"closes", "resets", "silent"} : \E k \in 0..Len(r.bytes) :
            peer' = [resp |-> r, wire |-> SubSeq(r.bytes, 1, k), pauses |-> MaxPauses, end |-> e]
    BY DEF ConnectSucceeds
  <2>2. PICK e \in {"closes", "resets", "silent"}, k \in 0..Len(r.bytes) :
          peer' = [resp |-> r, wire |-> SubSeq(r.bytes, 1, k), pauses |-> MaxPauses, end |-> e]
    BY <2>1
  <2>3. r.bytes \in Seq(Sym)
    BY HttpAssumption DEF Response
  <2>4. k \in Nat /\ k <= Len(r.bytes) /\ MaxPauses \in 0..MaxPauses
    BY <2>3, HttpAssumption
  <2>5. \A i \in 1..k : r.bytes[i] \in Sym
    BY <2>3, <2>4
  <2>6. SubSeq(r.bytes, 1, k) \in Seq(Sym)
    BY <2>4, <2>5, SubSeqProperties
  <2> QED BY <2>2, <2>4, <2>6
<1>3. 0 \in 0..MaxRetry
  BY HttpAssumption
<1>4. TypeOK'
  BY <1>1, <1>2, <1>3 DEF MemoryInv, TypeOK, Busy
<1>5. SocketGivenBack' /\ FaultsForAReason' /\ AttemptLeft'
  BY <1>1 DEF SocketGivenBack, FaultsForAReason, AttemptLeft
<1>6. LinesEnd' /\ LengthFits' /\ StopIsSeen'
  BY <1>1 DEF MemoryInv, LinesEnd, LengthFits, StopIsSeen, https, Busy
<1> QED BY <1>4, <1>5, <1>6 DEF MemoryInv

\* TLS is set up, or the request ends with the socket open.
LEMMA TlsConnectKeeps ==
  ASSUME MemoryInv, TlsConnect
  PROVE  MemoryInv'
<1>1. /\ pc = "tls" /\ https /\ UNCHANGED <<tcp, data>>
      /\ \/ pc' = "send" /\ result' = result
         \/ pc' = "idle" /\ result' = "HTTP_CONN"
  BY DEF TlsConnect, Goto, MemoryInv, StopIsSeen
<1>2. UNCHANGED <<ssl, retry, sock, peer, buf, trfLen, readLen, mode, out>>
  BY <1>1 DEF tcp, data
<1>3. CASE pc' = "send" /\ result' = result
  <2>1. LinesEnd' /\ pc' \in Busy \ {"connect", "tls"} /\ pc \in Busy \ {"connect"}
    BY <1>1, <1>2, <1>3 DEF MemoryInv, LinesEnd, Busy
  <2> QED BY <1>1, <1>3, <2>1, MoveKeeps
<1>4. CASE pc' = "idle" /\ result' = "HTTP_CONN"
  <2>1. TypeOK'
    BY <1>2, <1>4 DEF MemoryInv, TypeOK, HTTPResult
  <2>2. SocketGivenBack' /\ FaultsForAReason' /\ AttemptLeft'
    BY <1>1, <1>2, <1>4 DEF SocketGivenBack, FaultsForAReason, AttemptLeft, https
  <2>3. LinesEnd' /\ LengthFits' /\ StopIsSeen'
    BY <1>2, <1>4 DEF MemoryInv, LinesEnd, LengthFits, StopIsSeen, https, Busy
  <2> QED BY <2>1, <2>2, <2>3 DEF MemoryInv
<1> QED BY <1>1, <1>3, <1>4

\* The request is sent, or not.
LEMMA SendRequestKeeps ==
  ASSUME MemoryInv, SendRequest
  PROVE  MemoryInv'
<1>1. /\ pc = "send" /\ UNCHANGED data
      /\ \/ pc' = "status" /\ UNCHANGED <<tcp, result>>
         \/ Finish("HTTP_CONN") /\ UNCHANGED peer
  BY DEF SendRequest, Goto
<1>2. CASE pc' = "status" /\ UNCHANGED <<tcp, result>>
  <2>1. LinesEnd' /\ pc' \in Busy \ {"connect", "tls"} /\ pc \in Busy \ {"connect"}
    BY <1>1, <1>2 DEF MemoryInv, LinesEnd, Busy, data
  <2> QED BY <1>1, <1>2, <2>1, MoveKeeps
<1>3. CASE Finish("HTTP_CONN") /\ UNCHANGED peer
  <2>1. "HTTP_CONN" \in HTTPResult
    BY DEF HTTPResult
  <2> QED BY <1>1, <1>3, <2>1, FinishNowKeeps
<1> QED BY <1>1, <1>2, <1>3

\* Every step keeps the invariant.
LEMMA NextKeeps ==
  ASSUME MemoryInv, [Next]_vars
  PROVE  MemoryInv'
<1>1. CASE UNCHANGED vars
  BY <1>1 DEF vars, MemoryInv, TypeOK, SocketGivenBack, FaultsForAReason, LinesEnd, LengthFits,
              StopIsSeen, AttemptLeft, https
<1>2. CASE Begin
  BY <1>2, BeginKeeps
<1>3. CASE ConnectFails \/ ConnectSucceeds \/ TlsConnect \/ SendRequest
  BY <1>3, ConnectFailsKeeps, ConnectSucceedsKeeps, TlsConnectKeeps, SendRequestKeeps
<1>4. CASE ReadStatus \/ MoreHeaders \/ SkipHeader \/ ParseHeader \/ EndOfHeaders
  BY <1>4, ReadStatusKeeps, MoreHeadersKeeps, SkipHeaderKeeps, ParseHeaderKeeps, EndOfHeadersKeeps
<1>5. CASE ChunkHeader \/ MoreChunkHeader \/ ChunkEnd \/ ChunkNext
  BY <1>5, ChunkHeaderKeeps, MoreChunkHeaderKeeps, ChunkEndKeeps, ChunkNextKeeps
<1>6. CASE LastOfBody \/ MoreBody \/ BodyFault
  BY <1>6, LastOfBodyKeeps, MoreBodyKeeps, BodyFaultKeeps
<1> QED BY <1>1, <1>2, <1>3, <1>4, <1>5, <1>6 DEF Next, Request

\* The invariant about memory, for a buffer of any size, any answers, cut into pieces
\* in any way, and a peer that stops or pauses anywhere.
THEOREM MemoryInvariant == Spec => []MemoryInv
<1>1. MemoryInv /\ [Next]_vars => MemoryInv'
  BY NextKeeps
<1> QED BY InitEstablishes, <1>1, PTL DEF Spec

\* Type correctness: among other things connect never counts more bytes than the buffer
\* has, and what is delivered fits into the room that the caller has for it.
THEOREM RequestTypes == Spec => []TypeOK
<1>1. MemoryInv => TypeOK
  BY DEF MemoryInv
<1> QED BY MemoryInvariant, <1>1, PTL

\* The single static socket is given back at every end of a request but a failed TLS set-up.
THEOREM SocketComesBack == Spec => []SocketGivenBack
<1>1. MemoryInv => SocketGivenBack
  BY DEF MemoryInv
<1> QED BY MemoryInvariant, <1>1, PTL

\* Without TLS, memory is accessed with a wrong length only when the peer has stopped or paused.
THEOREM NoFaultWithoutReason == Spec => []FaultsForAReason
<1>1. MemoryInv => FaultsForAReason
  BY DEF MemoryInv
<1> QED BY MemoryInvariant, <1>1, PTL
=============================================================================
