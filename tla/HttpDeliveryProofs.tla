------------------------- MODULE HttpDeliveryProofs -------------------------
(***************************************************************************)
(* Proofs that what HttpClient delivers is the body, for a buffer and a    *)
(* room of any size and any well-formed answers that are not chunked.      *)
(***************************************************************************)
EXTENDS HttpClientProofs

-----------------------------------------------------------------------------
(* Answers and pieces of them. *)

\* The parts of an answer are sequences; one that is not chunked is well formed.
LEMMA AnswerFacts ==
  ASSUME NEW r \in Responses
  PROVE  /\ r.bytes \in Seq(Sym) /\ DOMAIN r.bytes = 1..Len(r.bytes) /\ Len(r.bytes) \in Nat
         /\ r.body \in Seq(Sym) /\ DOMAIN r.body = 1..Len(r.body) /\ Len(r.body) \in Nat
         /\ r.framing # "chunked" => WellFormed(r)
<1>1. r.bytes \in Seq(Sym) /\ r.body \in Seq(Sym)
  BY HttpAssumption DEF Response
<1> QED BY <1>1, AnswerAssumption

\* What has been taken from the wire and what is left are its two parts.
LEMMA MemRest ==
  ASSUME TypeOK, NEW k \in 0..Len(peer.wire)
  PROVE  /\ Len(Mem(k)) = k /\ \A i \in 1..k : Mem(k)[i] = peer.wire[i]
         /\ Len(Rest(k)) = Len(peer.wire) - k
         /\ \A i \in 1..Len(peer.wire) - k : Rest(k)[i] = peer.wire[k + i]
<1> DEFINE w == peer.wire
<1>1. w \in Seq(Sym) /\ Len(w) \in Nat /\ k \in Nat /\ k <= Len(w)
  BY DEF TypeOK
<1>2. Mem(k) = SubSeq(w, 1, k) /\ Rest(k) = SubSeq(w, k + 1, Len(w))
  BY DEF Mem, Rest
<1> HIDE DEF w
<1>3. Len(Mem(k)) = k /\ \A i \in 1..k : Mem(k)[i] = w[i]
  BY <1>1, <1>2
<1>4. Len(Rest(k)) = Len(w) - k /\ \A i \in 1..Len(w) - k : Rest(k)[i] = w[k + i]
  BY <1>1, <1>2
<1> QED BY <1>3, <1>4 DEF w

\* An outcome o of a receive that has taken j symbols.  They are counted, or the connection is
\* in error: then nothing follows.
Piece(o, j) ==
  /\ j \in 0..Len(peer.wire) /\ o.mem = Mem(j) /\ o.wire = Rest(j)
  /\ \/ o.n = j
     \/ o.n = 0 /\ o.wire = <<>>
     \/ o.n = -1 /\ j = 0 /\ https

\* Every outcome is one.
LEMMA ReceivePiece ==
  ASSUME TypeOK, NEW min \in Nat, NEW most \in Nat, NEW o \in Receive(min, most)
  PROVE  /\ \E j : Piece(o, j)
         /\ ssl = "error" => o.n = -1
<1> DEFINE avail == Len(peer.wire)
           max == IF most = 0 THEN 1 ELSE most
           fails == [Take(0) EXCEPT !.n = -1]
           closes == peer.end = "closes"
<1>1. avail \in Nat /\ 0 \in 0..avail /\ avail \in 0..avail /\ max \in Nat
  BY DEF TypeOK
<1>2. Rest(avail) = <<>>
  BY <1>1, TakeTypes
<1>3. CASE ~https
  <2>1. o \in ReceiveTcp(min, max) /\ ssl # "error"
    BY <1>3 DEF Receive, https
  <2>2. \/ \E k \in min..Least(max, avail) : o = Take(k)
        \/ o = [Take(avail) EXCEPT !.fin = TRUE]
        \/ o = Take(avail)
        \/ \E k \in 0..Least(min - 1, avail) : o = [Take(k) EXCEPT !.slow = 1]
        \/ o = [Take(avail) EXCEPT !.n = 0]
    BY <2>1 DEF ReceiveTcp
  <2>3. ASSUME NEW k \in 0..avail, o = Take(k) \/ (\E x : o = [Take(k) EXCEPT !.fin = x])
                                 \/ (\E x : o = [Take(k) EXCEPT !.slow = x])
        PROVE  Piece(o, k)
    <3>1. ASSUME NEW x, NEW y, o = Parts(Mem(k), k, Rest(k), x, y) PROVE Piece(o, k)
      BY <3>1 DEF Piece, Parts
    <3>2. CASE o = Take(k)
      <4>1. o = Parts(Mem(k), k, Rest(k), FALSE, 0)
        BY <3>2, TakeParts
      <4> QED BY <3>1, <4>1
    <3>3. CASE \E x : o = [Take(k) EXCEPT !.fin = x]
      <4>1. PICK x : o = [Take(k) EXCEPT !.fin = x]
        BY <3>3
      <4>2. o = Parts(Mem(k), k, Rest(k), x, 0)
        BY <4>1, TakeParts
      <4> QED BY <3>1, <4>2
    <3>4. CASE \E x : o = [Take(k) EXCEPT !.slow = x]
      <4>1. PICK x : o = [Take(k) EXCEPT !.slow = x]
        BY <3>4
      <4>2. o = Parts(Mem(k), k, Rest(k), FALSE, x)
        BY <4>1, TakeParts
      <4> QED BY <3>1, <4>2
    <3> QED BY <2>3, <3>2, <3>3, <3>4
  <2>4. ASSUME o = [Take(avail) EXCEPT !.n = 0] PROVE Piece(o, avail)
    <3>1. o = Parts(Mem(avail), 0, Rest(avail), FALSE, 0)
      BY <2>4, TakeParts
    <3> QED BY <1>1, <1>2, <3>1 DEF Piece, Parts
  <2>5. /\ \A k \in min..Least(max, avail) : k \in 0..avail
        /\ \A k \in 0..Least(min - 1, avail) : k \in 0..avail
    BY <1>1 DEF Least
  <2> HIDE DEF avail, max
  <2>6. \E j : Piece(o, j)
    BY <1>1, <2>2, <2>3, <2>4, <2>5
  <2> QED BY <2>1, <2>6
<1>4. CASE https
  <2>1. o \in ReceiveTls(max)
    BY <1>4 DEF Receive
  <2>2. /\ \/ \E k \in 1..Least(max, avail) : o = Take(k)
           \/ o = fails
           \/ o = [fails EXCEPT !.fin = closes]
           \/ o = [fails EXCEPT !.slow = 1]
        /\ ssl = "error" => o = fails
    BY <2>1 DEF ReceiveTls
  <2>3. ASSUME NEW k \in 1..Least(max, avail), o = Take(k) PROVE \E j : Piece(o, j)
    <3>1. k \in 0..avail
      BY <1>1 DEF Least
    <3>2. o = Parts(Mem(k), k, Rest(k), FALSE, 0)
      BY <2>3, TakeParts
    <3> QED BY <3>1, <3>2 DEF Piece, Parts
  <2>4. o = fails => o = Parts(Mem(0), -1, Rest(0), FALSE, 0)
    BY TlsFailure
  <2>5. o = [fails EXCEPT !.fin = closes] => o = Parts(Mem(0), -1, Rest(0), closes, 0)
    BY TlsFailure
  <2>6. o = [fails EXCEPT !.slow = 1] => o = Parts(Mem(0), -1, Rest(0), FALSE, 1)
    BY TlsFailure
  <2>7. ASSUME NEW x, NEW y, o = Parts(Mem(0), -1, Rest(0), x, y) PROVE Piece(o, 0) /\ o.n = -1
    BY <1>1, <1>4, <2>7 DEF Piece, Parts
  <2> HIDE DEF fails, closes
  <2>8. o = fails => Piece(o, 0) /\ o.n = -1
    BY <2>4, <2>7
  <2>9. o = [fails EXCEPT !.fin = closes] \/ o = [fails EXCEPT !.slow = 1] => Piece(o, 0)
    BY <2>5, <2>6, <2>7
  <2> QED BY <2>2, <2>3, <2>8, <2>9
<1> QED BY <1>3, <1>4

-----------------------------------------------------------------------------
(* The buffer and the wire continue the answer. *)

\* What has been received is appended to what the buffer holds.
LEMMA Appended ==
  ASSUME TypeOK, NEW r \in Responses, NEW b \in Buffers, NEW n \in Nat, NEW q \in Nat,
         Holds(r, b, n, q), Sent(r, peer.wire, q + n),
         NEW o, NEW j, Piece(o, j), NEW z \in Nat, o.n = z, n + z <= Chunk,
         NEW d \in {Stored(b, n, o), Terminate(Stored(b, n, o), n + z)}
  PROVE  Holds(r, d, n + z, q) /\ Sent(r, o.wire, q + n + z)
<1>1. /\ j \in Nat /\ z \in 0..j /\ (z = j \/ o.wire = <<>>)
      /\ o.mem = Mem(j) /\ o.wire = Rest(j) /\ j \in 0..Len(peer.wire) /\ Len(peer.wire) \in Nat
      /\ Chunk \in Nat
  BY HttpAssumption DEF Piece, TypeOK
<1>2. /\ Len(Mem(j)) = j /\ \A i \in 1..j : Mem(j)[i] = peer.wire[i]
      /\ Len(Rest(j)) = Len(peer.wire) - j
      /\ \A i \in 1..Len(peer.wire) - j : Rest(j)[i] = peer.wire[j + i]
  BY <1>1, MemRest
<1>3. ASSUME NEW i \in 0..n + z - 1
      PROVE  i \in Cells /\ d[i] = IF i < n THEN b[i] ELSE peer.wire[i - n + 1]
  <2>1. i \in Cells /\ i # n + z /\ i \in Nat
    BY <1>1, <1>3 DEF Cells
  <2>2. Put(b, n, o.mem)[i] = IF i < n THEN b[i] ELSE peer.wire[i - n + 1]
    BY <1>1, <1>2, <2>1 DEF Put
  <2>3. Stored(b, n, o)[i] = Put(b, n, o.mem)[i]
    BY <2>1 DEF Stored, Terminate
  <2>4. Terminate(Stored(b, n, o), n + z)[i] = Stored(b, n, o)[i]
    BY <2>1 DEF Terminate
  <2> QED BY <2>1, <2>2, <2>3, <2>4
<1>4. Holds(r, d, n + z, q)
  <2> SUFFICES ASSUME NEW i \in 0..n + z - 1
               PROVE  q + 1 + i \in DOMAIN r.bytes /\ d[i] = r.bytes[q + 1 + i]
    BY DEF Holds
  <2>1. CASE i < n
    <3>1. i \in 0..n - 1
      BY <1>1, <2>1
    <3>2. d[i] = b[i]
      BY <1>3, <2>1
    <3> QED BY <3>1, <3>2 DEF Holds
  <2>2. CASE ~(i < n)
    <3> DEFINE x == i - n + 1
    <3>1. x \in 1..Len(peer.wire) /\ q + n + x = q + 1 + i
      BY <1>1, <2>2
    <3>2. d[i] = peer.wire[x]
      BY <1>3, <2>2
    <3> HIDE DEF x
    <3> QED BY <3>1, <3>2 DEF Sent
  <2> QED BY <2>1, <2>2
<1>5. Sent(r, o.wire, q + n + z)
  <2>1. CASE o.wire = <<>>
    <3>1. Len(o.wire) = 0
      BY <2>1
    <3> QED BY <3>1 DEF Sent
  <2>2. CASE z = j
    <3> SUFFICES ASSUME NEW i \in 1..Len(peer.wire) - j
                 PROVE  /\ q + n + j + i \in DOMAIN r.bytes
                        /\ Rest(j)[i] = r.bytes[q + n + j + i]
      BY <1>1, <1>2, <2>2 DEF Sent
    <3>1. j + i \in 1..Len(peer.wire) /\ (q + n) + (j + i) = q + n + j + i
      BY <1>1
    <3> QED BY <1>2, <3>1 DEF Sent
  <2> QED BY <1>1, <2>1, <2>2
<1> QED BY <1>4, <1>5

\* What is behind the first d symbols, moved to the front, continues the answer d symbols on.
LEMMA Moved ==
  ASSUME NEW r \in Responses, NEW b, NEW n \in Nat, n <= Chunk + 1, NEW q \in Nat,
         Holds(r, b, n, q), NEW d \in 0..n, NEW m \in Int, m >= n - d,
         NEW c, \A i \in d..n - 1 : c[i] = b[i]
  PROVE  Holds(r, MoveDown(c, d, m), n - d, q + d)
<1> SUFFICES ASSUME NEW i \in 0..n - d - 1
             PROVE  /\ q + d + 1 + i \in DOMAIN r.bytes
                    /\ MoveDown(c, d, m)[i] = r.bytes[q + d + 1 + i]
  BY DEF Holds
<1>1. i \in Cells /\ i < m /\ i + d \in d..n - 1 /\ i + d \in 0..n - 1
  BY HttpAssumption DEF Cells
<1>2. q + 1 + (i + d) = q + d + 1 + i
  BY <1>1
<1>3. q + 1 + (i + d) \in DOMAIN r.bytes /\ b[i + d] = r.bytes[q + 1 + (i + d)]
  BY <1>1 DEF Holds
<1>4. MoveDown(c, d, m)[i] = c[i + d]
  BY <1>1 DEF MoveDown
<1> QED BY <1>1, <1>2, <1>3, <1>4

\* A line that has been taken is one of the answer.
LEMMA LineTaken ==
  ASSUME NEW r \in Responses, NEW b \in Buffers, NEW n \in Cells, NEW q \in Nat,
         Holds(r, b, n, q), b[n] = NUL, ~NoCrlf(b)
  PROVE  LET p == CrlfPos(b)
             k == n - (p + 2)
         IN  /\ AfterLine(r, q + (p + 2)) /\ q + (p + 2) \in 0..Len(r.bytes)
             /\ Holds(r, NextLine(b, n), k, q + (p + 2))
             /\ Holds(r, MoveDown(b, p + 2, k + 1), k, q + (p + 2))
             /\ q + (p + 2) + k = q + n
<1> DEFINE p == CrlfPos(b)
           d == p + 2
           m == n - d + 1
<1>1. p \in 0..Chunk - 1 /\ d <= n /\ b[p] = CR /\ b[p + 1] = LF
  BY LineFits
<1>2. n \in Nat /\ n <= Chunk /\ Chunk \in Nat /\ p \in Nat
  BY <1>1, HttpAssumption DEF Cells
<1>3. NextLine(b, n) = MoveDown(Terminate(b, p), d, m)
  BY DEF NextLine
<1> HIDE DEF p
<1>4. d \in 0..n /\ m \in Int /\ m >= n - d /\ d \in Nat /\ d >= 2
  BY <1>1, <1>2
<1>5. \A i \in d..n - 1 : Terminate(b, p)[i] = b[i]
  <2>1. \A i \in d..n - 1 : i \in Cells /\ i # p
    BY <1>2, <1>4 DEF Cells
  <2> QED BY <2>1 DEF Terminate
<1>6. p \in 0..n - 1 /\ p + 1 \in 0..n - 1
  BY <1>1, <1>2
<1>7. /\ q + 1 + p \in DOMAIN r.bytes /\ r.bytes[q + 1 + p] = CR
      /\ q + 1 + (p + 1) \in DOMAIN r.bytes /\ r.bytes[q + 1 + (p + 1)] = LF
  BY <1>1, <1>6 DEF Holds
<1>8. /\ q + d - 1 = q + 1 + p /\ q + 1 + p + 1 = q + 1 + (p + 1) /\ q + d = q + 1 + (p + 1)
      /\ q + d >= 2
  BY <1>2
<1>9. AfterLine(r, q + d) /\ q + d \in 0..Len(r.bytes)
  BY <1>2, <1>7, <1>8, AnswerFacts DEF AfterLine, CRLF
<1> HIDE DEF d, m
<1>10. n <= Chunk + 1
  BY <1>2
<1>11. Holds(r, MoveDown(Terminate(b, p), d, m), n - d, q + d)
  BY <1>2, <1>4, <1>5, <1>10, Moved
<1>12. Holds(r, MoveDown(b, d, m), n - d, q + d)
  BY <1>2, <1>4, <1>10, Moved
<1>13. q + d + (n - d) = q + n
  BY <1>2, <1>4
<1> QED BY <1>3, <1>9, <1>11, <1>12, <1>13 DEF p, d, m

\* No line appears in a buffer because it is cut off.
LEMMA StillNoLine ==
  ASSUME NEW b \in Buffers, NoCrlf(b), NEW n \in Int
  PROVE  NoCrlf(Terminate(b, n))
<1> DEFINE t == Terminate(b, n)
<1>1. \A i \in Cells : t[i] = IF i = n THEN NUL ELSE b[i]
  BY DEF Terminate
<1> HIDE DEF t
<1>2. Chunk \in Nat
  BY HttpAssumption
<1>3. Crlfs(t) \subseteq Crlfs(b)
  <2> SUFFICES ASSUME NEW i \in 0..Chunk - 1, t[i] = CR, t[i + 1] = LF,
                      \A x \in 0..i : t[x] # NUL
               PROVE  b[i] = CR /\ b[i + 1] = LF /\ \A x \in 0..i : b[x] # NUL
    BY DEF Crlfs
  <2>1. i \in Cells /\ i + 1 \in Cells /\ \A x \in 0..i : x \in Cells
    BY <1>2 DEF Cells
  <2> QED BY <1>1, <2>1, EndsDiffer
<1> QED BY <1>3 DEF NoCrlf, t

-----------------------------------------------------------------------------
(* Delivering. *)

\* The beginning of a sequence, symbol by symbol.
LEMMA ClippedFacts ==
  ASSUME NEW s \in Seq(Sym), NEW n \in 0..Len(s)
  PROVE  /\ Clipped(s, n) \in Seq(Sym) /\ Len(Clipped(s, n)) = Least(n, Cap)
         /\ \A i \in 1..Least(n, Cap) : Clipped(s, n)[i] = s[i]
         /\ Clipped(s, 0) = <<>>
<1> DEFINE m == Least(n, Cap)
<1>1. m \in Nat /\ m <= Len(s) /\ Len(s) \in Nat /\ Least(0, Cap) = 0
  BY HttpAssumption DEF Least
<1>2. Clipped(s, n) = SubSeq(s, 1, m) /\ Clipped(s, 0) = SubSeq(s, 1, 0)
  BY <1>1 DEF Clipped
<1> HIDE DEF m
<1>3. \A i \in 1..m : s[i] \in Sym
  BY <1>1
<1>4. SubSeq(s, 1, m) \in Seq(Sym) /\ Len(SubSeq(s, 1, m)) = m
  BY <1>1, <1>3, SubSeqProperties
<1>5. \A i \in 1..m : SubSeq(s, 1, m)[i] = s[i]
  BY <1>1
<1>6. SubSeq(s, 1, 0) = <<>>
  BY SubSeqEmpty
<1> QED BY <1>2, <1>4, <1>5, <1>6 DEF m

\* write appends what continues the body to what has been delivered of it.
LEMMA WriteDelivers ==
  ASSUME NEW s \in Seq(Sym), NEW c \in Nat, NEW t \in Nat, c + t <= Len(s),
         out = Clipped(s, c), t = Taken, Write, \A i \in 0..t - 1 : Byte(i) = s[c + 1 + i]
  PROVE  out' = Clipped(s, c + t)
<1> DEFINE piece == [i \in 1..t |-> Byte(i - 1)]
           all == out \o piece
           n == Least(Len(all), Cap)
           m == Least(c, Cap)
<1>1. Len(s) \in Nat /\ c \in 0..Len(s) /\ c + t \in 0..Len(s) /\ Cap \in Nat
  BY HttpAssumption
<1>2. out \in Seq(Sym) /\ Len(out) = m /\ (\A i \in 1..m : out[i] = s[i])
  BY <1>1, ClippedFacts
<1>3. /\ Clipped(s, c + t) \in Seq(Sym) /\ Len(Clipped(s, c + t)) = Least(c + t, Cap)
      /\ \A i \in 1..Least(c + t, Cap) : Clipped(s, c + t)[i] = s[i]
  BY <1>1, ClippedFacts
<1>4. out' = SubSeq(all, 1, n)
  BY DEF Write
<1>5. ASSUME NEW i \in 1..t PROVE piece[i] = s[c + i] /\ s[c + i] \in Sym
  <2>1. i - 1 \in 0..t - 1 /\ c + 1 + (i - 1) = c + i /\ c + i \in 1..Len(s)
    BY <1>1
  <2>2. piece[i] = Byte(i - 1)
    OBVIOUS
  <2> HIDE DEF piece
  <2> QED BY <2>1, <2>2
<1>6. piece \in Seq(Sym) /\ Len(piece) = t
  <2>1. \A i \in 1..t : Byte(i - 1) \in Sym
    <3> HIDE DEF piece
    <3>1. ASSUME NEW i \in 1..t PROVE Byte(i - 1) \in Sym
      <4>1. piece[i] = Byte(i - 1)
        BY DEF piece
      <4> QED BY <1>5, <4>1
    <3> QED BY <3>1
  <2> QED BY <2>1
<1> HIDE DEF piece
<1>7. all \in Seq(Sym) /\ Len(all) = m + t
  <2> HIDE DEF m
  <2> QED BY <1>2, <1>6, ConcatProperties
<1>8. \A i \in 1..m + t : all[i] = IF i <= m THEN out[i] ELSE piece[i - m]
  BY <1>2, <1>6, ConcatProperties
<1> HIDE DEF all
<1>9. /\ m \in Nat /\ n \in Nat /\ n <= m + t /\ n <= Len(all) /\ n = Least(c + t, Cap)
      /\ m = c \/ n <= m
  BY <1>1, <1>7 DEF Least
<1> HIDE DEF n, m
<1>10. SubSeq(all, 1, n) \in Seq(Sym) /\ Len(SubSeq(all, 1, n)) = n
  <2>1. \A i \in 1..n : all[i] \in Sym
    BY <1>7, <1>9
  <2> QED BY <1>9, <2>1, SubSeqProperties
<1>11. ASSUME NEW i \in 1..n PROVE SubSeq(all, 1, n)[i] = s[i]
  <2>1. SubSeq(all, 1, n)[i] = all[i] /\ i \in 1..m + t
    BY <1>7, <1>9
  <2>2. CASE i <= m
    BY <1>2, <1>8, <1>9, <2>1, <2>2
  <2>3. CASE ~(i <= m)
    <3>1. i - m \in 1..t /\ m = c /\ c + (i - m) = i
      BY <1>9, <2>3
    <3> QED BY <1>5, <1>8, <2>1, <2>3, <3>1
  <2> QED BY <2>2, <2>3
<1> QED BY <1>3, <1>4, <1>9, <1>10, <1>11, SeqEqual

\* The buffer holds the next symbols of the body; what write takes of them is delivered.
LEMMA BodyDelivers ==
  ASSUME MemoryInv, NEW r \in Responses, LengthKnown(r), trfLen >= 0, Write,
         NEW c \in 0..Len(r.body), NEW h \in 0..Len(r.bytes), BodyFrom(r, h),
         out = Clipped(r.body, c), c + readLen = mode.length, Holds(r, buf, trfLen, h + c)
  PROVE  /\ Taken \in Nat /\ Taken <= trfLen /\ Taken <= readLen
         /\ c + Taken \in 0..Len(r.body) /\ out' = Clipped(r.body, c + Taken)
<1>1. /\ trfLen \in Nat /\ readLen \in Nat /\ c \in Nat /\ h \in Nat
      /\ trfLen <= Chunk /\ Chunk \in Nat
      /\ r.body \in Seq(Sym) /\ Len(r.body) \in Nat /\ DOMAIN r.body = 1..Len(r.body)
  BY TypesAre, AnswerFacts, HttpAssumption DEF BufTypes, OutTypes
<1>2. Taken \in Nat /\ Taken <= trfLen /\ Taken <= readLen
  BY <1>1 DEF Taken, Least
<1>3. c + readLen <= Len(r.body)
  BY <1>1 DEF LengthKnown
<1> DEFINE t == Taken
<1> HIDE DEF t
<1>4. t \in Nat /\ t <= trfLen /\ c + t <= Len(r.body) /\ t = Taken
  BY <1>1, <1>2, <1>3 DEF t
<1>5. ASSUME NEW i \in 0..t - 1 PROVE Byte(i) = r.body[c + 1 + i]
  <2>1. i \in Nat /\ i < t
    BY <1>4
  <2>2. i \in 0..trfLen - 1
    BY <1>1, <1>4, <2>1
  <2>3. c + 1 + i \in 1..Len(r.body)
    BY <1>1, <1>4, <2>1
  <2>4. (h + c) + 1 + i = h + (c + 1 + i)
    BY <1>1, <2>1
  <2>5. buf[i] = r.bytes[(h + c) + 1 + i]
    BY <2>2 DEF Holds
  <2>6. r.bytes[h + (c + 1 + i)] = r.body[c + 1 + i]
    BY <1>1, <2>3 DEF BodyFrom
  <2>7. Byte(i) = buf[i]
    <3>1. i \in Cells
      BY <1>1, <2>2 DEF Cells
    <3> QED BY <3>1 DEF Byte
  <2> QED BY <2>4, <2>5, <2>6, <2>7
<1>6. out' = Clipped(r.body, c + t)
  BY <1>1, <1>4, <1>5, WriteDelivers
<1> QED BY <1>1, <1>2, <1>4, <1>6

-----------------------------------------------------------------------------
(* How a step ends. *)

Early  == {"connect", "tls", "send", "status", "headers", "skip"}
Chunks == {"chunk", "chunk_end", "chunk_next"}

\* The invariant says something of the answer only when that is not chunked.
LEMMA StreamOf ==
  ASSUME IInv, NEW r, r = peer.resp
  PROVE  /\ MemoryInv /\ TypeOK /\ r \in Responses
         /\ pc \in Early => out = <<>>
         /\ r.framing # "chunked" => StreamInv(r)
BY DEF IInv, MemoryInv, TypeOK, DeliveryInv, NothingYet, Early

\* So it is kept if it is for that answer.
LEMMA DeliveryFrom ==
  ASSUME NEW r, peer'.resp = r, pc' \in Early => out' = <<>>,
         r.framing # "chunked" => StreamInv(r)'
  PROVE  DeliveryInv'
BY DEF DeliveryInv, NothingYet, Early

\* The end of a request at which c symbols have been delivered.
LEMMA EndDelivers ==
  ASSUME NEW r \in Responses, NEW c \in 0..Len(r.body), pc' \in {"idle", "hardfault"},
         out' = Clipped(r.body, c), pc' = "idle" /\ result' = "HTTP_OK" => c = mode'.length
  PROVE  StreamInv(r)'
<1>1. Delivered(r)'
  BY DEF Delivered
<1> QED BY <1>1 DEF StreamInv

\* A request that fails before its body has delivered nothing.
LEMMA EarlyEnd ==
  ASSUME IInv, pc \in Early, out' = out, peer' = peer, pc' \in {"idle", "hardfault"},
         pc' = "idle" => result' # "HTTP_OK"
  PROVE  DeliveryInv'
<1>1. PICK r : r = peer.resp
  OBVIOUS
<1>2. r \in Responses /\ out' = <<>>
  BY <1>1, StreamOf
<1>3. r.body \in Seq(Sym) /\ 0 \in 0..Len(r.body)
  BY <1>2, AnswerFacts
<1>4. out' = Clipped(r.body, 0)
  BY <1>2, <1>3, ClippedFacts
<1>5. StreamInv(r)'
  BY <1>2, <1>3, <1>4, EndDelivers
<1>6. peer'.resp = r /\ pc' \notin Early
  BY <1>1 DEF Early
<1> QED BY <1>5, <1>6, DeliveryFrom

\* Steps between chunks are taken for a chunked answer only.
LEMMA ChunkedOnly ==
  ASSUME IInv, pc \in Chunks, peer'.resp = peer.resp, pc' \notin Early
  PROVE  DeliveryInv'
<1>1. PICK r : r = peer.resp
  OBVIOUS
<1>2. r.framing = "chunked"
  BY <1>1, StreamOf DEF StreamInv, Chunks
<1> QED BY <1>1, <1>2, DeliveryFrom

\* A receive does not change the answer that is being sent.
LEMMA SameAnswer ==
  ASSUME TypeOK, NEW o, Received(o)
  PROVE  peer'.resp = peer.resp /\ peer'.wire = o.wire /\ (ssl' = IF o.n = -1 THEN "error" ELSE ssl)
<1> DEFINE w == o.wire
           p == peer.pauses - o.slow
<1>1. peer' = [peer EXCEPT !.wire = w, !.pauses = p] /\ (ssl' = IF o.n = -1 THEN "error" ELSE ssl)
  BY DEF Received
<1> HIDE DEF w, p
<1>2. peer'.resp = peer.resp /\ peer'.wire = w
  BY <1>1 DEF TypeOK
<1> QED BY <1>1, <1>2 DEF w

\* The end of what the buffer holds lies in the answer if its beginning does.
LEMMA EndOfHeld ==
  ASSUME NEW r \in Responses, NEW b, NEW n \in Nat, NEW q \in 0..Len(r.bytes), Holds(r, b, n, q)
  PROVE  q + n \in 0..Len(r.bytes)
<1>1. Len(r.bytes) \in Nat /\ DOMAIN r.bytes = 1..Len(r.bytes)
  BY AnswerFacts
<1>2. CASE n = 0
  BY <1>1, <1>2
<1>3. CASE n # 0
  <2>1. n - 1 \in 0..n - 1
    BY <1>3
  <2>2. q + 1 + (n - 1) \in 1..Len(r.bytes)
    BY <1>1, <2>1 DEF Holds
  <2> QED BY <1>1, <2>2
<1> QED BY <1>2, <1>3

-----------------------------------------------------------------------------
(* The steps of a request, up to the body. *)

\* A request begins with nothing delivered.
LEMMA BeginDelivers ==
  ASSUME IInv, Begin
  PROVE  DeliveryInv'
<1>1. PICK r : r = NoPeer.resp
  OBVIOUS
<1>2. /\ pc = "idle" /\ out' = <<>> /\ peer' = NoPeer
      /\ \/ pc' = "connect"
         \/ pc' = pc /\ result' = "HTTP_PARSE"
  BY DEF Begin, Goto
<1>3. r \in Responses
  BY <1>1, Fresh
<1>4. CASE pc' = "connect"
  <2>1. StreamInv(r)'
    BY <1>4 DEF StreamInv
  <2> QED BY <1>1, <1>2, <2>1, DeliveryFrom
<1>5. CASE pc' = pc /\ result' = "HTTP_PARSE"
  <2>1. r.body \in Seq(Sym) /\ 0 \in 0..Len(r.body)
    BY <1>3, AnswerFacts
  <2>2. out' = Clipped(r.body, 0)
    BY <1>2, <2>1, ClippedFacts
  <2>3. StreamInv(r)'
    BY <1>2, <1>3, <1>5, <2>1, <2>2, EndDelivers
  <2> QED BY <1>1, <1>2, <2>3, DeliveryFrom
<1> QED BY <1>2, <1>4, <1>5

\* An attempt to connect delivers nothing.
LEMMA ConnectFailsDelivers ==
  ASSUME IInv, ConnectFails
  PROVE  DeliveryInv'
<1>1. /\ pc = "connect" /\ pc \in Early /\ out' = out /\ peer' = peer
      /\ \/ pc' = "idle" /\ result' = "HTTP_CONN"
         \/ pc' = "connect"
  BY DEF ConnectFails, Goto, data, Early
<1>2. CASE pc' = "idle" /\ result' = "HTTP_CONN"
  BY <1>1, <1>2, EarlyEnd
<1>3. CASE pc' = "connect"
  <2>1. PICK r : r = peer.resp
    OBVIOUS
  <2>2. StreamInv(r)' /\ out' = <<>>
    BY <1>1, <1>3, <2>1, StreamOf DEF StreamInv
  <2> QED BY <1>1, <2>1, <2>2, DeliveryFrom
<1> QED BY <1>1, <1>2, <1>3

\* The server sends its answer from the beginning.
LEMMA ConnectSucceedsDelivers ==
  ASSUME IInv, ConnectSucceeds
  PROVE  DeliveryInv'
<1>1. PICK r \in Responses : \E e \in {"closes", "resets", "silent"} : \E k \in 0..Len(r.bytes) :
        peer' = [resp |-> r, wire |-> SubSeq(r.bytes, 1, k), pauses |-> MaxPauses, end |-> e]
  BY DEF ConnectSucceeds
<1>2. PICK k \in 0..Len(r.bytes) : peer'.resp = r /\ peer'.wire = SubSeq(r.bytes, 1, k)
  BY <1>1
<1>3. pc = "connect" /\ out' = out /\ pc' \in {"tls", "send"}
  BY DEF ConnectSucceeds, Goto, data
<1>4. r.bytes \in Seq(Sym) /\ Len(r.bytes) \in Nat /\ DOMAIN r.bytes = 1..Len(r.bytes)
  BY AnswerFacts
<1> DEFINE B == r.bytes
           w == SubSeq(B, 1, k)
<1>5. Len(w) = k /\ \A i \in 1..k : w[i] = B[i]
  <2> HIDE DEF B
  <2> QED BY <1>4 DEF B
<1> HIDE DEF w
<1>6. Sent(r, w, 0)
  BY <1>4, <1>5 DEF Sent
<1>7. StreamInv(r)'
  BY <1>2, <1>3, <1>6 DEF StreamInv, w
<1>8. out' = <<>>
  <2>1. PICK r0 : r0 = peer.resp
    OBVIOUS
  <2> QED BY <1>3, <2>1, StreamOf DEF Early
<1> QED BY <1>2, <1>7, <1>8, DeliveryFrom

\* Nothing is read before the request has been sent.
LEMMA SetUpDelivers ==
  ASSUME IInv, TlsConnect \/ SendRequest
  PROVE  DeliveryInv'
<1>1. /\ pc \in {"tls", "send"} /\ pc \in Early /\ out' = out /\ peer' = peer
      /\ \/ pc' \in {"send", "status"}
         \/ pc' = "idle" /\ result' = "HTTP_CONN"
  BY DEF TlsConnect, SendRequest, Finish, Goto, tcp, data, Early
<1>2. CASE pc' = "idle" /\ result' = "HTTP_CONN"
  BY <1>1, <1>2, EarlyEnd
<1>3. CASE pc' \in {"send", "status"}
  <2>1. PICK r : r = peer.resp
    OBVIOUS
  <2>2. out' = <<>> /\ (r.framing # "chunked" => Sent(r, peer'.wire, 0))
    BY <1>1, <2>1, StreamOf DEF StreamInv
  <2>3. r.framing # "chunked" => StreamInv(r)'
    BY <1>3, <2>2 DEF StreamInv
  <2> QED BY <1>1, <2>1, <2>2, <2>3, DeliveryFrom
<1> QED BY <1>1, <1>2, <1>3

\* A line that is read into a buffer without one is the next line of the answer.
LEMMA LineRead ==
  ASSUME MemoryInv, NoCrlf(buf), NEW r \in Responses, NEW e \in Nat, Sent(r, peer.wire, e),
         NEW min \in Nat, NEW max \in Nat, max <= Chunk, NEW o, Outcome(o, min, max),
         NEW j, Piece(o, j), NEW b, b = Terminate(Stored(buf, 0, o), o.n)
  PROVE  /\ o.n >= 0 => Holds(r, b, o.n, e) /\ Sent(r, o.wire, e + o.n)
         /\ ~NoCrlf(b) =>
              LET p == CrlfPos(b)
                  k == o.n - (p + 2)
              IN  /\ AfterLine(r, e + (p + 2)) /\ e + (p + 2) \in 0..Len(r.bytes) /\ k >= 0
                  /\ Holds(r, NextLine(b, o.n), k, e + (p + 2))
                  /\ Holds(r, MoveDown(b, p + 2, k + 1), k, e + (p + 2))
                  /\ Sent(r, o.wire, e + (p + 2) + k)
<1>1. /\ b \in Buffers /\ o.n \in -1..Chunk
      /\ ~NoCrlf(b) => o.n >= 0
      /\ o.n >= 0 => o.n \in Cells /\ b[o.n] = NUL
  BY FreshBytes
<1>2. PICK z : z = o.n
  OBVIOUS
<1>3. buf \in Buffers /\ TypeOK /\ 0 \in Nat /\ Chunk \in Nat
  BY TypesAre, HttpAssumption DEF BufTypes, MemoryInv
<1>4. Holds(r, buf, 0, e) /\ Sent(r, peer.wire, e + 0)
  BY DEF Holds
<1>5. ASSUME z >= 0 PROVE Holds(r, b, z, e) /\ Sent(r, o.wire, e + z)
  <2>1. z \in Nat /\ 0 + z <= Chunk /\ 0 + z = z /\ e + 0 + z = e + z
    BY <1>1, <1>2, <1>3, <1>5
  <2>2. b \in {Stored(buf, 0, o), Terminate(Stored(buf, 0, o), 0 + z)}
    BY <1>2, <2>1
  <2>3. Holds(r, b, 0 + z, e) /\ Sent(r, o.wire, e + 0 + z)
    BY <1>2, <1>3, <1>4, <2>1, <2>2, Appended
  <2> QED BY <2>1, <2>3
<1>6. ASSUME ~NoCrlf(b)
      PROVE  LET p == CrlfPos(b)
                 k == z - (p + 2)
             IN  /\ AfterLine(r, e + (p + 2)) /\ e + (p + 2) \in 0..Len(r.bytes) /\ k >= 0
                 /\ Holds(r, NextLine(b, z), k, e + (p + 2))
                 /\ Holds(r, MoveDown(b, p + 2, k + 1), k, e + (p + 2))
                 /\ Sent(r, o.wire, e + (p + 2) + k)
  <2>1. z \in Cells /\ b[z] = NUL /\ z >= 0 /\ z \in Nat
    BY <1>1, <1>2, <1>6, HttpAssumption
  <2>2. CrlfPos(b) \in 0..Chunk - 1 /\ CrlfPos(b) + 2 <= z
    BY <1>1, <1>6, <2>1, LineFits
  <2>3. z - (CrlfPos(b) + 2) >= 0
    BY <1>3, <2>1, <2>2
  <2> QED BY <1>1, <1>5, <1>6, <2>1, <2>3, LineTaken
<1> QED BY <1>2, <1>5, <1>6

\* The headers are read from behind the status line.
LEMMA ReadStatusDelivers ==
  ASSUME IInv, ReadStatus
  PROVE  DeliveryInv'
<1> DEFINE B(o) == Terminate(Stored(buf, 0, o), o.n)
           len == Chunk - 1
<1>1. pc = "status" /\ pc \in Early /\ MemoryInv /\ TypeOK /\ NoCrlf(buf)
  BY DEF ReadStatus, IInv, MemoryInv, LinesEnd, Early
<1>2. len \in Nat /\ len # 0 /\ len <= Chunk /\ len <= len
  BY HttpAssumption
<1>6. CASE ClosedByPeer /\ UNCHANGED out
  <2>1. out' = out /\ peer' = peer /\ pc' = "idle" /\ result' = "HTTP_CONN"
    BY <1>6 DEF ClosedByPeer, Finish, Goto
  <2> QED BY <1>1, <2>1, EarlyEnd
<1>3. SUFFICES ASSUME NEW o \in Receive(len, len),
        \/ Finish("HTTP_PRTCL") /\ UNCHANGED <<peer, data>>
        \/ /\ ~NoCrlf(B(o))
           /\ Received(o)
           /\ buf' = NextLine(B(o), o.n) /\ trfLen' = o.n - (CrlfPos(B(o)) + 2)
           /\ mode' = [chunked |-> FALSE, length |-> 0]
           /\ pc' = "headers" /\ out' = out
      PROVE  DeliveryInv'
  BY <1>6 DEF ReadStatus, Goto
<1> HIDE DEF len
<1>4. CASE Finish("HTTP_PRTCL") /\ UNCHANGED <<peer, data>>
  <2>1. out' = out /\ peer' = peer /\ pc' = "idle" /\ result' = "HTTP_PRTCL"
    BY <1>4 DEF Finish, Goto, data
  <2> QED BY <1>1, <2>1, EarlyEnd
<1>5. CASE /\ ~NoCrlf(B(o))
           /\ Received(o)
           /\ buf' = NextLine(B(o), o.n) /\ trfLen' = o.n - (CrlfPos(B(o)) + 2)
           /\ mode' = [chunked |-> FALSE, length |-> 0]
           /\ pc' = "headers" /\ out' = out
  <2>1. PICK r : r = peer.resp
    OBVIOUS
  <2>2. PICK j : Piece(o, j)
    BY <1>1, <1>2, ReceivePiece
  <2>3. Outcome(o, len, len)
    BY <1>1, <1>2, ReceiveOutcome
  <2>4. peer'.resp = r /\ peer'.wire = o.wire /\ out' = <<>> /\ r \in Responses
    BY <1>1, <1>5, <2>1, SameAnswer, StreamOf
  <2>5. ASSUME r.framing # "chunked" PROVE StreamInv(r)'
    <3>1. Sent(r, peer.wire, 0) /\ 0 \in Nat
      BY <1>1, <2>1, <2>5, StreamOf DEF StreamInv
    <3>2. PICK b : b = B(o)
      OBVIOUS
    <3> HIDE DEF B
    <3> DEFINE q == 0 + (CrlfPos(b) + 2)
    <3>3. /\ AfterLine(r, q) /\ q \in 0..Len(r.bytes) /\ trfLen' >= 0
          /\ Holds(r, buf', trfLen', q) /\ Sent(r, o.wire, q + trfLen')
      BY <1>1, <1>2, <1>5, <2>2, <2>3, <2>4, <3>1, <3>2, LineRead DEF B
    <3> HIDE DEF q
    <3>4. HeadRead(r)'
      BY <2>4, <3>3 DEF HeadRead
    <3>5. LengthKnown(r)'
      BY <1>5 DEF LengthKnown
    <3> QED BY <1>5, <3>4, <3>5 DEF StreamInv
  <2> QED BY <2>4, <2>5, DeliveryFrom
<1> QED BY <1>3, <1>4, <1>5

\* What is received is appended to the headers; a failure of TLS leaves no line.
LEMMA MoreHeadersDelivers ==
  ASSUME IInv, MoreHeaders
  PROVE  DeliveryInv'
<1> DEFINE most == Chunk - trfLen - 1
<1>1. pc = "headers" /\ pc \in Early /\ NoCrlf(buf) /\ MemoryInv /\ TypeOK
  BY DEF MoreHeaders, IInv, MemoryInv, Early
<1>2. PICK r : r = peer.resp
  OBVIOUS
<1>3. /\ r \in Responses /\ out = <<>>
      /\ r.framing # "chunked" => HeadRead(r) /\ LengthKnown(r)
  BY <1>1, <1>2, StreamOf DEF StreamInv
<1>4. buf \in Buffers /\ Chunk \in Nat /\ trfLen \in Int /\ trfLen \in -1..Chunk
  BY <1>1, TypesAre, HttpAssumption DEF BufTypes
<1>5. ASSUME trfLen \in 0..Chunk - 2, NEW o \in Receive(1, most), Received(o),
             buf' = Terminate(Stored(buf, trfLen, o), trfLen + o.n), trfLen' = trfLen + o.n,
             UNCHANGED <<pc, mode, out>>
      PROVE  DeliveryInv'
  <2>1. most \in Nat /\ 1 \in Nat /\ most # 0 /\ 1 <= most /\ trfLen + most <= Chunk /\ trfLen \in Nat
    BY <1>4, <1>5
  <2>2. o \in Receive(1, most)
    BY <1>5
  <2> HIDE DEF most
  <2>3. (\E j : Piece(o, j)) /\ (ssl = "error" => o.n = -1) /\ Outcome(o, 1, most)
    BY <1>1, <2>1, <2>2, ReceivePiece, ReceiveOutcome
  <2>4. PICK j : Piece(o, j)
    BY <2>3
  <2>5. /\ peer'.resp = r /\ peer'.wire = o.wire /\ out' = <<>>
        /\ ssl' = IF o.n = -1 THEN "error" ELSE ssl
    BY <1>1, <1>2, <1>3, <1>5, SameAnswer
  <2>6. PICK z : z = o.n
    OBVIOUS
  <2>7. z \in -1..most
    BY <2>3, <2>6 DEF Outcome
  <2>8. CASE z = -1
    <3>1. o.mem = <<>> /\ https
      BY <2>3, <2>6, <2>8 DEF Outcome
    <3>2. Stored(buf, trfLen, o) = Terminate(buf, trfLen + z)
      BY <1>4, <2>1, <2>6, <3>1, PutNothing DEF Stored
    <3>3. trfLen + z \in Int
      BY <1>4, <2>8
    <3>4. NoCrlf(Terminate(buf, trfLen + z)) /\ Terminate(buf, trfLen + z) \in Buffers
      BY <1>1, <1>4, <3>3, StillNoLine, TerminateType
    <3>5. NoCrlf(buf')
      BY <1>5, <2>6, <3>2, <3>3, <3>4, StillNoLine
    <3>6. HeadRead(r)'
      BY <2>5, <2>6, <2>8, <3>5 DEF HeadRead
    <3>7. r.framing # "chunked" => StreamInv(r)'
      BY <1>1, <1>3, <1>5, <3>6 DEF StreamInv, LengthKnown
    <3> QED BY <2>5, <3>7, DeliveryFrom
  <2>9. CASE z # -1
    <3>1. z \in Nat /\ trfLen + z <= Chunk /\ ssl # "error" /\ trfLen + z \in Nat
      BY <1>4, <2>1, <2>3, <2>6, <2>7, <2>9
    <3>2. ASSUME r.framing # "chunked" PROVE StreamInv(r)'
      <4>1. PICK q \in 0..Len(r.bytes) :
              /\ AfterLine(r, q) /\ Holds(r, buf, trfLen, q) /\ Sent(r, peer.wire, q + trfLen)
        BY <1>3, <3>1, <3>2 DEF HeadRead
      <4>2. q \in Nat /\ q + trfLen + z = q + (trfLen + z)
        BY <2>1, <3>1
      <4>3. buf' \in {Stored(buf, trfLen, o), Terminate(Stored(buf, trfLen, o), trfLen + z)}
        BY <1>5, <2>6
      <4>4. Holds(r, buf', trfLen + z, q) /\ Sent(r, o.wire, q + trfLen + z)
        BY <1>1, <1>3, <1>4, <2>1, <2>4, <2>6, <3>1, <4>1, <4>2, <4>3, Appended
      <4>5. trfLen' = trfLen + z /\ trfLen' >= 0
        BY <1>5, <2>6, <3>1
      <4>6. HeadRead(r)'
        BY <2>5, <4>1, <4>2, <4>4, <4>5 DEF HeadRead
      <4> QED BY <1>1, <1>3, <1>5, <3>2, <4>6 DEF StreamInv, LengthKnown
    <3> QED BY <2>5, <3>2, DeliveryFrom
  <2> QED BY <2>8, <2>9
<1>6. CASE ClosedByPeer /\ UNCHANGED out
  <2>1. peer' = peer /\ pc' = "idle" /\ result' = "HTTP_CONN"
    BY <1>6 DEF ClosedByPeer, Finish, Goto
  <2> QED BY <1>1, <1>6, <2>1, EarlyEnd
<1>7. CASE pc' = "hardfault" /\ UNCHANGED tcp /\ UNCHANGED out
  BY <1>1, <1>7, EarlyEnd DEF tcp
<1>8. CASE trfLen \notin 0..Chunk - 2 /\ pc' = "skip" /\ UNCHANGED <<tcp, data, result>>
  <2>1. peer' = peer /\ out' = <<>> /\ ssl' = ssl /\ mode' = mode
    BY <1>3, <1>8 DEF tcp, data
  <2>2. ASSUME r.framing # "chunked" PROVE StreamInv(r)'
    <3>1. LengthKnown(r)'
      BY <1>3, <2>1, <2>2 DEF LengthKnown
    <3>2. CASE ssl = "error"
      BY <1>8, <2>1, <3>1, <3>2 DEF StreamInv
    <3>3. CASE ssl # "error"
      <4>1. PICK q \in 0..Len(r.bytes) :
              trfLen >= 0 /\ Holds(r, buf, trfLen, q) /\ Sent(r, peer.wire, q + trfLen)
        BY <1>3, <2>2, <3>3 DEF HeadRead
      <4>2. q + trfLen \in 0..Len(r.bytes)
        BY <1>3, <1>4, <4>1, EndOfHeld
      <4> QED BY <1>8, <2>1, <3>1, <4>1, <4>2 DEF StreamInv
    <3> QED BY <3>2, <3>3
  <2> QED BY <1>2, <2>1, <2>2, DeliveryFrom
<1> QED BY <1>5, <1>6, <1>7, <1>8 DEF MoreHeaders, Goto

\* Skipping a header ends behind the end of a line, its own or a later one.
LEMMA SkipHeaderDelivers ==
  ASSUME IInv, SkipHeader
  PROVE  DeliveryInv'
<1> DEFINE B(o) == Terminate(Stored(buf, 0, o), o.n)
           len == Chunk - 1
<1>1. /\ pc = "skip" /\ pc \in Early /\ NoCrlf(buf) /\ MemoryInv /\ TypeOK
      /\ mode' = mode /\ out' = out
  BY DEF SkipHeader, IInv, MemoryInv, LinesEnd, Early
<1>2. len \in Nat /\ len # 0 /\ len <= Chunk /\ 1 <= len /\ 1 \in Nat
  BY HttpAssumption
<1>3. PICK r : r = peer.resp
  OBVIOUS
<1>4. /\ r \in Responses /\ out = <<>>
      /\ r.framing # "chunked" =>
           LengthKnown(r) /\ (ssl = "error" \/ \E e \in 0..Len(r.bytes) : Sent(r, peer.wire, e))
  BY <1>1, <1>3, StreamOf DEF StreamInv
<1>5. ASSUME NEW o \in Receive(1, len), Received(o),
             IF NoCrlf(B(o))
               THEN pc' = pc
               ELSE /\ buf' = MoveDown(B(o), CrlfPos(B(o)) + 2, o.n - (CrlfPos(B(o)) + 2) + 1)
                    /\ trfLen' = o.n - (CrlfPos(B(o)) + 2) /\ pc' = "headers"
      PROVE  DeliveryInv'
  <2> HIDE DEF len
  <2>1. (\E j : Piece(o, j)) /\ (ssl = "error" => o.n = -1) /\ Outcome(o, 1, len)
    BY <1>1, <1>2, ReceivePiece, ReceiveOutcome
  <2>2. PICK j : Piece(o, j)
    BY <2>1
  <2>3. /\ peer'.resp = r /\ peer'.wire = o.wire /\ out' = <<>>
        /\ ssl' = IF o.n = -1 THEN "error" ELSE ssl
    BY <1>1, <1>3, <1>4, <1>5, SameAnswer
  <2>4. PICK b : b = B(o)
    OBVIOUS
  <2>5. /\ ~NoCrlf(b) => o.n >= 0
        /\ o.n >= 0 \/ o.n = -1
    <3>1. o.n \in -1..len
      BY <2>1 DEF Outcome
    <3> QED BY <1>1, <1>2, <2>1, <2>4, <3>1, FreshBytes
  <2>6. IF NoCrlf(b)
          THEN pc' = "skip"
          ELSE /\ buf' = MoveDown(b, CrlfPos(b) + 2, o.n - (CrlfPos(b) + 2) + 1)
               /\ trfLen' = o.n - (CrlfPos(b) + 2) /\ pc' = "headers"
    BY <1>1, <1>5, <2>4
  <2>7. b = Terminate(Stored(buf, 0, o), o.n)
    BY <2>4
  <2> HIDE DEF B
  <2>8. ASSUME r.framing # "chunked" PROVE StreamInv(r)'
    <3>1. LengthKnown(r)'
      BY <1>1, <1>4, <2>8 DEF LengthKnown
    <3>2. CASE o.n = -1
      BY <2>3, <2>5, <2>6, <3>1, <3>2 DEF StreamInv
    <3>3. CASE o.n # -1
      <4>1. PICK e \in 0..Len(r.bytes) : Sent(r, peer.wire, e)
        BY <1>4, <2>1, <2>8, <3>3
      <4>2. /\ o.n >= 0 => Holds(r, b, o.n, e) /\ Sent(r, o.wire, e + o.n)
            /\ ~NoCrlf(b) =>
                 LET p == CrlfPos(b)
                     k == o.n - (p + 2)
                 IN  /\ AfterLine(r, e + (p + 2)) /\ e + (p + 2) \in 0..Len(r.bytes) /\ k >= 0
                     /\ Holds(r, MoveDown(b, p + 2, k + 1), k, e + (p + 2))
                     /\ Sent(r, o.wire, e + (p + 2) + k)
        <5>1. e \in Nat
          OBVIOUS
        <5> QED BY <1>1, <1>2, <1>4, <2>1, <2>2, <2>7, <4>1, <5>1, LineRead
      <4>3. CASE NoCrlf(b)
        <5>1. PICK z : z = o.n
          OBVIOUS
        <5>2. z \in Nat
          BY <2>1, <3>3, <5>1 DEF Outcome
        <5>3. Holds(r, b, z, e) /\ Sent(r, o.wire, e + z)
          BY <4>2, <5>1, <5>2
        <5>4. e + z \in 0..Len(r.bytes)
          BY <1>4, <5>2, <5>3, EndOfHeld
        <5> QED BY <2>3, <2>6, <3>1, <4>3, <5>3, <5>4 DEF StreamInv
      <4>4. CASE ~NoCrlf(b)
        <5> DEFINE q == e + (CrlfPos(b) + 2)
        <5>1. /\ AfterLine(r, q) /\ q \in 0..Len(r.bytes) /\ trfLen' >= 0
              /\ Holds(r, buf', trfLen', q) /\ Sent(r, o.wire, q + trfLen')
          BY <2>6, <4>2, <4>4
        <5> HIDE DEF q
        <5>2. HeadRead(r)'
          BY <2>3, <5>1 DEF HeadRead
        <5> QED BY <2>6, <3>1, <4>4, <5>2 DEF StreamInv
      <4> QED BY <4>3, <4>4
    <3> QED BY <3>2, <3>3
  <2> QED BY <2>3, <2>8, DeliveryFrom
<1>6. CASE ReceiveFails /\ ssl' = "error" /\ UNCHANGED <<pc, retry, sock, peer, buf, trfLen>>
  <2>1. r.framing # "chunked" => StreamInv(r)'
    BY <1>1, <1>4, <1>6 DEF StreamInv, LengthKnown
  <2> QED BY <1>1, <1>3, <1>4, <1>6, <2>1, DeliveryFrom
<1> QED BY <1>5, <1>6 DEF SkipHeader, Goto

\* In the headers, a line that is found is the next one of the answer.
LEMMA NextHeader ==
  ASSUME IInv, pc = "headers", ~NoCrlf(buf), NEW r, r = peer.resp, r.framing # "chunked"
  PROVE  \E q \in 0..Len(r.bytes) :
           LET p == CrlfPos(buf)
               k == trfLen - (p + 2)
           IN  /\ AfterLine(r, q) /\ Holds(r, buf, trfLen, q) /\ k >= 0
               /\ AfterLine(r, q + (p + 2)) /\ q + (p + 2) \in 0..Len(r.bytes)
               /\ Holds(r, NextLine(buf, trfLen), k, q + (p + 2))
               /\ Holds(r, MoveDown(buf, p + 2, k + 1), k, q + (p + 2))
               /\ Sent(r, peer.wire, q + (p + 2) + k)
<1>1. MemoryInv /\ r \in Responses /\ HeadRead(r)
  BY StreamOf DEF StreamInv
<1>2. PICK q \in 0..Len(r.bytes) :
        AfterLine(r, q) /\ Holds(r, buf, trfLen, q) /\ Sent(r, peer.wire, q + trfLen)
  BY <1>1 DEF HeadRead
<1>3. /\ trfLen \in Cells /\ buf[trfLen] = NUL /\ buf \in Buffers
      /\ CrlfPos(buf) \in Nat /\ CrlfPos(buf) + 2 <= trfLen
  BY <1>1, HeaderLine
<1>4. trfLen - (CrlfPos(buf) + 2) >= 0 /\ q \in Nat
  BY <1>3, HttpAssumption DEF Cells
<1>5. /\ AfterLine(r, q + (CrlfPos(buf) + 2)) /\ q + (CrlfPos(buf) + 2) \in 0..Len(r.bytes)
      /\ Holds(r, NextLine(buf, trfLen), trfLen - (CrlfPos(buf) + 2), q + (CrlfPos(buf) + 2))
      /\ Holds(r, MoveDown(buf, CrlfPos(buf) + 2, trfLen - (CrlfPos(buf) + 2) + 1),
               trfLen - (CrlfPos(buf) + 2), q + (CrlfPos(buf) + 2))
      /\ q + (CrlfPos(buf) + 2) + (trfLen - (CrlfPos(buf) + 2)) = q + trfLen
  BY <1>1, <1>2, <1>3, <1>4, LineTaken
<1> QED BY <1>2, <1>4, <1>5

\* A length that is parsed is that of the body.
LEMMA ParseHeaderDelivers ==
  ASSUME IInv, ParseHeader
  PROVE  DeliveryInv'
<1>1. pc = "headers" /\ pc \in Early /\ ~NoCrlf(buf) /\ CrlfPos(buf) > 0 /\ MemoryInv
  BY DEF ParseHeader, IInv, Early
<1>2. CASE Finish("HTTP_PRTCL") /\ UNCHANGED <<peer, data>>
  <2>1. out' = out /\ peer' = peer /\ pc' = "idle" /\ result' = "HTTP_PRTCL"
    BY <1>2 DEF Finish, Goto, data
  <2> QED BY <1>1, <2>1, EarlyEnd
<1>3. CASE /\ mode' = CASE buf[0].k = "length"  -> [mode EXCEPT !.length = buf[0].n]
                       [] buf[0].k = "chunked" -> [mode EXCEPT !.chunked = TRUE]
                       [] OTHER                -> mode
           /\ buf' = NextLine(buf, trfLen) /\ trfLen' = trfLen - (CrlfPos(buf) + 2)
           /\ UNCHANGED <<pc, tcp, readLen, out, result>>
  <2>1. PICK r : r = peer.resp
    OBVIOUS
  <2>2. peer' = peer /\ peer'.resp = r /\ r \in Responses /\ out' = <<>>
    BY <1>1, <1>3, <2>1, StreamOf DEF tcp
  <2>3. ASSUME r.framing # "chunked" PROVE StreamInv(r)'
    <3>1. PICK q \in 0..Len(r.bytes) :
            LET p == CrlfPos(buf)
                k == trfLen - (p + 2)
            IN  /\ Holds(r, buf, trfLen, q) /\ k >= 0
                /\ AfterLine(r, q + (p + 2)) /\ q + (p + 2) \in 0..Len(r.bytes)
                /\ Holds(r, NextLine(buf, trfLen), k, q + (p + 2))
                /\ Sent(r, peer.wire, q + (p + 2) + k)
      BY <1>1, <2>1, <2>3, NextHeader
    <3> DEFINE x == q + (CrlfPos(buf) + 2)
    <3>2. /\ AfterLine(r, x) /\ x \in 0..Len(r.bytes) /\ trfLen' >= 0
          /\ Holds(r, buf', trfLen', x) /\ Sent(r, peer'.wire, x + trfLen')
      BY <1>3, <2>2, <3>1
    <3> HIDE DEF x
    <3>3. HeadRead(r)'
      BY <3>2 DEF HeadRead
    <3>4. LengthKnown(r)'
      <4>1. trfLen \in Cells /\ CrlfPos(buf) \in Nat /\ CrlfPos(buf) + 2 <= trfLen
        BY <1>1, HeaderLine
      <4>2. 0 \in 0..trfLen - 1 /\ q + 1 + 0 = q + 1
        BY <4>1, HttpAssumption DEF Cells
      <4>3. q + 1 \in DOMAIN r.bytes /\ buf[0] = r.bytes[q + 1]
        BY <3>1, <4>2 DEF Holds
      <4>4. /\ buf[0].k # "chunked"
            /\ buf[0].k = "length" => r.framing = "length" /\ buf[0].n = Len(r.body)
        BY <2>2, <2>3, <4>3, AnswerFacts DEF WellFormed
      <4>5. LengthKnown(r) /\ mode \in [chunked : BOOLEAN, length : Nat]
        BY <1>1, <2>1, <2>3, StreamOf, TypesAre DEF StreamInv, OutTypes
      <4>6. CASE buf[0].k = "length"
        BY <1>3, <4>4, <4>5, <4>6 DEF LengthKnown
      <4>7. CASE buf[0].k # "length"
        BY <1>3, <4>4, <4>5, <4>7 DEF LengthKnown
      <4> QED BY <4>6, <4>7
    <3> QED BY <1>1, <1>3, <3>3, <3>4 DEF StreamInv
  <2> QED BY <2>2, <2>3, DeliveryFrom
<1> QED BY <1>2, <1>3 DEF ParseHeader

\* Behind the empty line the body begins.
LEMMA EndOfHeadersDelivers ==
  ASSUME IInv, EndOfHeaders
  PROVE  DeliveryInv'
<1>1. /\ pc = "headers" /\ pc \in Early /\ ~NoCrlf(buf) /\ CrlfPos(buf) = 0 /\ MemoryInv
      /\ buf' = MoveDown(buf, 2, trfLen - 2 + 1) /\ trfLen' = trfLen - 2
      /\ readLen' = mode.length /\ pc' = (IF mode.chunked THEN "chunk" ELSE "body")
      /\ peer' = peer /\ mode' = mode /\ out' = out
  BY DEF EndOfHeaders, IInv, Goto, tcp, Early
<1>2. PICK r : r = peer.resp
  OBVIOUS
<1>3. peer'.resp = r /\ r \in Responses /\ out' = <<>> /\ pc' \notin Early
  BY <1>1, <1>2, StreamOf DEF Early
<1>4. ASSUME r.framing # "chunked" PROVE StreamInv(r)'
  <2>1. PICK q \in 0..Len(r.bytes) :
          LET p == CrlfPos(buf)
              k == trfLen - (p + 2)
          IN  /\ AfterLine(r, q) /\ Holds(r, buf, trfLen, q) /\ q + (p + 2) \in 0..Len(r.bytes)
              /\ Holds(r, MoveDown(buf, p + 2, k + 1), k, q + (p + 2))
              /\ Sent(r, peer.wire, q + (p + 2) + k)
    BY <1>1, <1>2, <1>4, NextHeader
  <2>2. /\ trfLen \in Cells /\ buf[trfLen] = NUL /\ buf \in Buffers /\ 2 <= trfLen
    BY <1>1, HeaderLine
  <2>3. /\ r.bytes \in Seq(Sym) /\ Len(r.bytes) \in Nat /\ DOMAIN r.bytes = 1..Len(r.bytes)
        /\ r.body \in Seq(Sym) /\ Len(r.body) \in Nat /\ WellFormed(r)
    BY <1>3, <1>4, AnswerFacts
  <2>4. /\ AfterLine(r, q) /\ Holds(r, buf, trfLen, q) /\ q + 2 \in 0..Len(r.bytes)
        /\ Holds(r, buf', trfLen', q + 2) /\ Sent(r, peer'.wire, q + 2 + trfLen')
    <3>1. 0 + 2 = 2
      OBVIOUS
    <3> QED BY <1>1, <2>1, <3>1
  <2>5. BodyFrom(r, q + 2)
    <3>1. buf[0] = CR /\ buf[1] = LF
      <4>1. buf[CrlfPos(buf)] = CR /\ buf[CrlfPos(buf) + 1] = LF /\ 0 + 1 = 1
        BY <1>1, <2>2, LineFits
      <4> QED BY <1>1, <4>1
    <3>2. 0 \in 0..trfLen - 1 /\ 1 \in 0..trfLen - 1 /\ q + 1 + 0 = q + 1 /\ q + 1 + 1 = q + 2
      BY <2>2, <2>3, HttpAssumption DEF Cells
    <3>3. r.bytes[q + 1] = CR /\ r.bytes[q + 2] = LF
      BY <2>4, <3>1, <3>2 DEF Holds
    <3>4. q >= 2 /\ CRLF(r.bytes, q - 1)
      BY <2>4 DEF AfterLine
    <3> DEFINE i == q - 1
    <3>5. /\ i \in 1..Len(r.bytes) - 3 /\ i + 2 = q + 1 /\ i + 2 + 1 = q + 2 /\ i + 3 = q + 2
      BY <2>3, <2>4, <3>4
    <3>6. CRLF(r.bytes, i)
      BY <3>4
    <3> HIDE DEF i
    <3>7. CRLF(r.bytes, i + 2)
      BY <3>3, <3>5 DEF CRLF
    <3>8. \A j \in DOMAIN r.body : i + 3 + j \in DOMAIN r.bytes /\ r.bytes[i + 3 + j] = r.body[j]
      BY <2>3, <3>5, <3>6, <3>7 DEF WellFormed
    <3> QED BY <3>5, <3>8 DEF BodyFrom
  <2>6. LengthKnown(r) /\ LengthKnown(r)' /\ mode.length \in Nat
    BY <1>1, <1>2, <1>4, StreamOf, TypesAre DEF StreamInv, LengthKnown, OutTypes
  <2>7. pc' = "body"
    BY <1>1, <2>6 DEF LengthKnown
  <2>8. BodyRead(r)'
    <3> DEFINE h == q + 2
    <3>1. h \in 0..Len(r.bytes) /\ h + 0 = h /\ 0 \in 0..Len(r.body) /\ 0 + mode.length = mode.length
      BY <2>3, <2>4, <2>6
    <3>2. out' = Clipped(r.body, 0)
      BY <1>3, <2>3, <3>1, ClippedFacts
    <3>3. BodyFrom(r, h) /\ Holds(r, buf', trfLen', h) /\ Sent(r, peer'.wire, h + trfLen')
      BY <2>4, <2>5
    <3>5. trfLen' >= 0
      BY <1>1, <2>2, HttpAssumption DEF Cells
    <3> HIDE DEF h
    <3>4. 0 + readLen' = mode'.length
      BY <1>1, <3>1
    <3> QED BY <3>1, <3>2, <3>3, <3>4, <3>5 DEF BodyRead
  <2> QED BY <2>6, <2>7, <2>8 DEF StreamInv
<1> QED BY <1>3, <1>4, DeliveryFrom

-----------------------------------------------------------------------------
(* The body. *)

\* The body is complete as far as the client knows its length.
LEMMA LastOfBodyDelivers ==
  ASSUME IInv, LastOfBody
  PROVE  DeliveryInv'
<1>1. /\ pc = "body" /\ trfLen >= readLen /\ Write /\ UNCHANGED <<peer, mode>>
      /\ \/ mode.chunked /\ pc' = "chunk_end"
         \/ ~mode.chunked /\ pc' = "idle"
  BY DEF LastOfBody, Finish, Goto
<1>2. PICK r : r = peer.resp
  OBVIOUS
<1>3. peer'.resp = r /\ r \in Responses /\ MemoryInv /\ pc' \notin Early
  BY <1>1, <1>2, StreamOf DEF Early
<1>4. readLen \in Nat /\ trfLen \in Int /\ trfLen >= 0
  BY <1>1, <1>3, TypesAre DEF BufTypes, OutTypes
<1>5. ASSUME r.framing # "chunked" PROVE StreamInv(r)'
  <2>1. LengthKnown(r) /\ BodyRead(r)
    BY <1>1, <1>2, <1>5, StreamOf DEF StreamInv
  <2>2. PICK c \in 0..Len(r.body), h \in 0..Len(r.bytes) :
          /\ BodyFrom(r, h) /\ out = Clipped(r.body, c) /\ c + readLen = mode.length
          /\ Holds(r, buf, trfLen, h + c)
    BY <1>4, <2>1 DEF BodyRead
  <2>3. c + Taken \in 0..Len(r.body) /\ out' = Clipped(r.body, c + Taken)
    BY <1>1, <1>3, <1>4, <2>1, <2>2, BodyDelivers
  <2>4. Taken = readLen
    BY <1>1, <1>4 DEF Taken, Least
  <2>5. c + Taken = mode'.length
    BY <1>1, <2>2, <2>4
  <2>6. pc' = "idle"
    BY <1>1, <2>1 DEF LengthKnown
  <2> QED BY <1>3, <2>3, <2>5, <2>6, EndDelivers
<1> QED BY <1>3, <1>5, DeliveryFrom

\* All of the buffer belongs to the body, and it is filled anew with what follows.
LEMMA MoreBodyDelivers ==
  ASSUME IInv, MoreBody
  PROVE  DeliveryInv'
<1> DEFINE most == Chunk - trfLen - 1
           max == IF most = 0 THEN 1 ELSE most
<1>1. /\ pc = "body" /\ trfLen \in 0..readLen - 1 /\ Write
      /\ \/ /\ \E o \in Receive(1, most) :
                 Received(o) /\ buf' = Stored(buf, 0, o) /\ trfLen' = o.n
            /\ readLen' = readLen - trfLen
            /\ UNCHANGED <<pc, mode>>
         \/ ClosedByPeer
  BY DEF MoreBody
<1>2. PICK r : r = peer.resp
  OBVIOUS
<1>3. r \in Responses /\ MemoryInv /\ TypeOK
  BY <1>2, StreamOf
<1>4. /\ readLen \in Nat /\ trfLen \in Nat /\ trfLen < Chunk /\ trfLen >= 0 /\ trfLen < readLen
      /\ buf \in Buffers /\ Chunk \in Nat /\ Chunk >= 4
  <2>1. trfLen < Chunk /\ readLen \in Nat /\ buf \in Buffers /\ Chunk \in Nat /\ Chunk >= 4
    BY <1>1, <1>3, TypesAre, HttpAssumption DEF OutTypes, BufTypes, MemoryInv, LengthFits
  <2> QED BY <1>1, <2>1
<1>5. ASSUME r.framing # "chunked"
      PROVE  /\ LengthKnown(r)
             /\ \E c \in 0..Len(r.body), h \in 0..Len(r.bytes) :
                  /\ BodyFrom(r, h) /\ c + readLen = mode.length
                  /\ Sent(r, peer.wire, h + c + trfLen)
                  /\ c + trfLen \in 0..Len(r.body) /\ out' = Clipped(r.body, c + trfLen)
  <2>1. LengthKnown(r) /\ BodyRead(r)
    BY <1>1, <1>2, <1>5, StreamOf DEF StreamInv
  <2>2. PICK c \in 0..Len(r.body), h \in 0..Len(r.bytes) :
          /\ BodyFrom(r, h) /\ out = Clipped(r.body, c) /\ c + readLen = mode.length
          /\ Holds(r, buf, trfLen, h + c) /\ Sent(r, peer.wire, h + c + trfLen)
    BY <1>4, <2>1 DEF BodyRead
  <2>3. c + Taken \in 0..Len(r.body) /\ out' = Clipped(r.body, c + Taken)
    BY <1>1, <1>3, <1>4, <2>1, <2>2, BodyDelivers
  <2>4. Taken = trfLen
    BY <1>4 DEF Taken, Least
  <2> QED BY <2>1, <2>2, <2>3, <2>4
<1>6. ASSUME NEW o \in Receive(1, most), Received(o), buf' = Stored(buf, 0, o), trfLen' = o.n,
             readLen' = readLen - trfLen, UNCHANGED <<pc, mode>>
      PROVE  DeliveryInv'
  <2>1. most \in Nat /\ 1 \in Nat /\ max \in Nat /\ 1 <= max /\ max < Chunk
    BY <1>4
  <2>2. o \in Receive(1, most)
    BY <1>6
  <2> HIDE DEF most
  <2>3. (\E j : Piece(o, j)) /\ Outcome(o, 1, max)
    BY <1>3, <2>1, <2>2, ReceivePiece, ReceiveOutcome
  <2> HIDE DEF max
  <2>4. PICK j : Piece(o, j)
    BY <2>3
  <2>5. peer'.resp = r /\ peer'.wire = o.wire /\ pc' = "body" /\ pc' \notin Early
    BY <1>1, <1>2, <1>3, <1>6, SameAnswer DEF Early
  <2>6. ASSUME r.framing # "chunked" PROVE StreamInv(r)'
    <3>1. LengthKnown(r)'
      BY <1>5, <1>6, <2>6 DEF LengthKnown
    <3>2. PICK c \in 0..Len(r.body), h \in 0..Len(r.bytes) :
            /\ BodyFrom(r, h) /\ c + readLen = mode.length
            /\ Sent(r, peer.wire, h + c + trfLen)
            /\ c + trfLen \in 0..Len(r.body) /\ out' = Clipped(r.body, c + trfLen)
      BY <1>5, <2>6
    <3> DEFINE c1 == c + trfLen
    <3>3. /\ c \in Nat /\ h \in Nat /\ c1 + (readLen - trfLen) = c + readLen
          /\ h + c + trfLen = h + c1 + 0 /\ h + c1 \in Nat
      BY <1>4
    <3>4. c1 \in 0..Len(r.body) /\ out' = Clipped(r.body, c1) /\ c1 + readLen' = mode'.length
      BY <1>6, <3>2, <3>3
    <3>5. Sent(r, peer.wire, h + c1 + 0)
      BY <3>2, <3>3
    <3> HIDE DEF c1
    <3>6. ASSUME trfLen' >= 0
          PROVE  Holds(r, buf', trfLen', h + c1) /\ Sent(r, peer'.wire, h + c1 + trfLen')
      <4>1. PICK z : z = o.n
        OBVIOUS
      <4>2. z \in Nat /\ 0 + z <= Chunk /\ 0 + z = z /\ 0 \in Nat /\ h + c1 + 0 + z = h + c1 + z
        <5>1. z \in -1..max /\ z >= 0
          BY <1>6, <2>3, <3>6, <4>1 DEF Outcome
        <5> QED BY <1>4, <2>1, <3>3, <5>1
      <4>3. Holds(r, buf, 0, h + c1)
        BY DEF Holds
      <4>4. buf' \in {Stored(buf, 0, o), Terminate(Stored(buf, 0, o), 0 + z)}
        BY <1>6
      <4>5. Holds(r, buf', 0 + z, h + c1) /\ Sent(r, o.wire, h + c1 + 0 + z)
        BY <1>3, <1>4, <2>4, <3>3, <3>5, <4>1, <4>2, <4>3, <4>4, Appended
      <4> QED BY <1>6, <2>5, <4>1, <4>2, <4>5
    <3>8. ASSUME ~(trfLen' >= 0) PROVE ssl' = "error"
      <4>1. o.n \in -1..max
        BY <2>3 DEF Outcome
      <4>2. o.n = -1
        BY <1>6, <2>1, <3>8, <4>1
      <4> QED BY <1>3, <1>6, <4>2, SameAnswer
    <3>7. BodyRead(r)'
      BY <3>2, <3>4, <3>6, <3>8 DEF BodyRead
    <3> QED BY <2>5, <3>1, <3>7 DEF StreamInv
  <2> QED BY <2>5, <2>6, DeliveryFrom
<1>7. CASE ClosedByPeer
  <2>1. pc' = "idle" /\ result' = "HTTP_CONN" /\ peer' = peer /\ mode' = mode
    BY <1>7 DEF ClosedByPeer, Finish, Goto
  <2>2. peer'.resp = r /\ pc' \notin Early
    BY <1>2, <2>1 DEF Early
  <2>3. ASSUME r.framing # "chunked" PROVE StreamInv(r)'
    <3>1. PICK c \in 0..Len(r.body) : c + trfLen \in 0..Len(r.body) /\ out' = Clipped(r.body, c + trfLen)
      BY <1>5, <2>3
    <3> QED BY <1>3, <2>1, <3>1, EndDelivers
  <2> QED BY <2>2, <2>3, DeliveryFrom
<1> QED BY <1>1, <1>6, <1>7

\* A length of -1 in the body comes from a failure of TLS, and is not survived.
LEMMA BodyFaultDelivers ==
  ASSUME IInv, BodyFault
  PROVE  DeliveryInv'
<1>1. pc = "body" /\ trfLen = -1 /\ pc' = "hardfault" /\ UNCHANGED <<peer, ssl>>
  BY DEF BodyFault, Goto, tcp
<1>2. PICK r : r = peer.resp
  OBVIOUS
<1>3. ASSUME r.framing # "chunked" PROVE StreamInv(r)'
  <2>1. BodyRead(r)
    BY <1>1, <1>2, <1>3, StreamOf DEF StreamInv
  <2>2. ssl = "error"
    BY <1>1, <2>1 DEF BodyRead
  <2>3. TlsFault'
    BY <1>1, <2>2 DEF TlsFault
  <2> QED BY <1>1, <2>3 DEF StreamInv
<1>4. peer'.resp = r /\ pc' \notin Early
  BY <1>1, <1>2 DEF Early
<1> QED BY <1>3, <1>4, DeliveryFrom

\* The steps between chunks.
LEMMA ChunksDeliver ==
  ASSUME IInv, ChunkHeader \/ MoreChunkHeader \/ ChunkEnd \/ ChunkNext
  PROVE  DeliveryInv'
<1>1. TypeOK
  BY DEF IInv, MemoryInv
<1>2. CASE ChunkHeader
  <2>1. pc \in Chunks /\ peer' = peer /\ pc' \in {"idle", "body"}
    BY <1>2 DEF ChunkHeader, Finish, Goto, tcp, Chunks
  <2> QED BY <2>1, ChunkedOnly DEF Early
<1>3. CASE MoreChunkHeader
  <2>1. /\ pc \in Chunks
        /\ peer' = peer \/ \E o : Received(o)
        /\ pc' \in {"idle", "chunk"}
    BY <1>3 DEF MoreChunkHeader, ClosedByPeer, Finish, Goto, Chunks
  <2> QED BY <1>1, <2>1, SameAnswer, ChunkedOnly DEF Early
<1>4. CASE ChunkEnd
  <2>1. /\ pc \in Chunks
        /\ peer' = peer \/ \E o : Received(o)
        /\ pc' \in {"idle", "chunk_next"}
    BY <1>4 DEF ChunkEnd, ClosedByPeer, Finish, Goto, Chunks, tcp
  <2> QED BY <1>1, <2>1, SameAnswer, ChunkedOnly DEF Early
<1>5. CASE ChunkNext
  <2>1. pc \in Chunks /\ peer' = peer /\ pc' \in {"idle", "chunk", "hardfault"}
    BY <1>5 DEF ChunkNext, Finish, Goto, tcp, Chunks
  <2> QED BY <2>1, ChunkedOnly DEF Early
<1> QED BY <1>2, <1>3, <1>4, <1>5

-----------------------------------------------------------------------------
(* The invariant. *)

\* It holds before the first request.
LEMMA InitDelivers == Init => DeliveryInv
<1> SUFFICES ASSUME Init PROVE DeliveryInv
  OBVIOUS
<1>1. PICK r : r = peer.resp
  OBVIOUS
<1>2. r \in Responses /\ pc = "idle" /\ out = <<>> /\ result = "none"
  BY <1>1, Fresh DEF Init
<1>3. r.body \in Seq(Sym) /\ 0 \in 0..Len(r.body)
  BY <1>2, AnswerFacts
<1>4. out = Clipped(r.body, 0)
  BY <1>2, <1>3, ClippedFacts
<1>5. Delivered(r)
  BY <1>2, <1>3, <1>4 DEF Delivered
<1> QED BY <1>1, <1>2, <1>5 DEF DeliveryInv, NothingYet, StreamInv

\* Every step keeps it.
LEMMA NextDelivers ==
  ASSUME IInv, [Next]_vars
  PROVE  DeliveryInv'
<1>1. CASE UNCHANGED vars
  BY <1>1 DEF vars, IInv, DeliveryInv, NothingYet, StreamInv, LengthKnown, HeadRead, BodyRead,
              Delivered, TlsFault
<1>2. CASE Begin \/ ConnectFails \/ ConnectSucceeds \/ TlsConnect \/ SendRequest
  BY <1>2, BeginDelivers, ConnectFailsDelivers, ConnectSucceedsDelivers, SetUpDelivers
<1>3. CASE ReadStatus \/ MoreHeaders \/ SkipHeader \/ ParseHeader \/ EndOfHeaders
  BY <1>3, ReadStatusDelivers, MoreHeadersDelivers, SkipHeaderDelivers, ParseHeaderDelivers,
     EndOfHeadersDelivers
<1>4. CASE ChunkHeader \/ MoreChunkHeader \/ ChunkEnd \/ ChunkNext
  BY <1>4, ChunksDeliver
<1>5. CASE LastOfBody \/ MoreBody \/ BodyFault
  BY <1>5, LastOfBodyDelivers, MoreBodyDelivers, BodyFaultDelivers
<1> QED BY <1>1, <1>2, <1>3, <1>4, <1>5 DEF Next, Request

\* The inductive invariant of a request: memory is in order, and the buffer and what is on its
\* way continue the answer where the place in the request says.
THEOREM RequestInvariant == Spec => []IInv
<1>1. Init => IInv
  BY InitEstablishes, InitDelivers DEF IInv
<1>2. IInv /\ [Next]_vars => IInv'
  BY NextKeeps, NextDelivers DEF IInv
<1> QED BY <1>1, <1>2, PTL DEF Spec

\* What the invariant says of the caller's buffer wherever a request is, unless TLS has
\* failed and memory is lost.
LEMMA SomeDelivered ==
  ASSUME IInv, NEW r, r = peer.resp, r.framing # "chunked", ~TlsFault
  PROVE  \E c \in 0..Len(r.body) :
           /\ out = Clipped(r.body, c)
           /\ pc = "idle" /\ result = "HTTP_OK" => c = mode.length
<1>1. /\ r \in Responses /\ StreamInv(r) /\ (pc \in Early => out = <<>>)
      /\ pc \in {"idle", "hardfault"} \cup Busy
  BY StreamOf DEF TypeOK
<1>2. CASE pc \in {"idle", "hardfault"}
  BY <1>1, <1>2 DEF StreamInv, Delivered
<1>3. CASE pc = "body"
  BY <1>1, <1>3 DEF StreamInv, BodyRead
<1>4. CASE pc \in Early
  <2>1. r.body \in Seq(Sym) /\ 0 \in 0..Len(r.body)
    BY <1>1, AnswerFacts
  <2>2. out = Clipped(r.body, 0) /\ pc # "idle"
    BY <1>1, <1>4, <2>1, ClippedFacts DEF Early
  <2> QED BY <2>1, <2>2
<1>5. pc \in {"idle", "hardfault"} \cup Early \cup {"body"}
  BY <1>1 DEF StreamInv, Busy, Early
<1> QED BY <1>2, <1>3, <1>4, <1>5

\* Nothing but the body reaches the caller's buffer, in its order and without gaps, however the
\* answer is cut into pieces, wherever the peer stops, whatever the buffer holds of earlier
\* bytes, and also when headers are skipped.  This is for the answers that AnswerAssumption
\* admits; the exception is a failure of TLS in a body, after which old bytes are delivered
\* and memory is lost.
THEOREM DeliversTheBody == Spec => []BodyIsPrefix
<1>1. IInv => BodyIsPrefix
  <2> SUFFICES ASSUME IInv, peer.resp.framing # "chunked", ~TlsFault
               PROVE  /\ Len(out) <= Len(peer.resp.body)
                      /\ out = SubSeq(peer.resp.body, 1, Len(out))
    BY DEF BodyIsPrefix
  <2>1. PICK r : r = peer.resp
    OBVIOUS
  <2>2. r.body \in Seq(Sym) /\ Len(r.body) \in Nat
    BY <2>1, StreamOf, AnswerFacts
  <2>3. PICK c \in 0..Len(r.body) : out = Clipped(r.body, c)
    BY <2>1, SomeDelivered
  <2>4. Len(out) = Least(c, Cap) /\ Least(c, Cap) <= Len(r.body)
    BY <2>2, <2>3, ClippedFacts, HttpAssumption DEF Least
  <2>5. out = SubSeq(r.body, 1, Len(out))
    BY <2>3, <2>4 DEF Clipped
  <2> QED BY <2>1, <2>4, <2>5
<1> QED BY RequestInvariant, <1>1, PTL

\* Success means that a body whose length the client has read in the headers is complete, as
\* far as there is room for it.
THEOREM SuccessIsComplete == Spec => []OkMeansComplete
<1>1. IInv => OkMeansComplete
  <2> SUFFICES ASSUME IInv, pc = "idle", result = "HTTP_OK", peer.resp.framing = "length",
                      mode.length = Len(peer.resp.body)
               PROVE  out = Clip(peer.resp.body)
    BY DEF OkMeansComplete
  <2>1. PICK r : r = peer.resp
    OBVIOUS
  <2>2. out = Clipped(r.body, Len(r.body))
    BY <2>1, SomeDelivered DEF TlsFault
  <2> QED BY <2>1, <2>2 DEF Clip, Clipped
<1> QED BY RequestInvariant, <1>1, PTL
=============================================================================
