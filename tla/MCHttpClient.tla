---------------------------- MODULE MCHttpClient ----------------------------
(* HttpClient with a buffer of five bytes and one answer for each shape that  *)
(* the code distinguishes.                                                    *)
EXTENDS HttpClient

Line(s) == <<s, CR, LF>>
Ok      == Line(S("status", 200))
Bytes   == <<S("data", 1), S("data", 2), S("data", 3)>>

MCResponses == {
  \* A length that is announced; one byte more than there is room for.
  [bytes |-> Ok \o Line(S("length", 3)) \o <<CR, LF>> \o Bytes, body |-> Bytes, framing |-> "length"],
  \* More than the announced length.
  [bytes |-> Ok \o Line(S("length", 1)) \o <<CR, LF>> \o SubSeq(Bytes, 1, 2),
   body |-> <<S("data", 1)>>, framing |-> "length"],
  \* A header that does not fit into the buffer.
  [bytes |-> Ok \o <<S("other", 0), S("other", 0), S("other", 0)>> \o Line(S("other", 0))
             \o Line(S("length", 1)) \o <<CR, LF, S("data", 1)>>,
   body |-> <<S("data", 1)>>, framing |-> "length"],
  \* Two chunks and the last one.
  [bytes |-> Ok \o Line(S("chunked", 0)) \o <<CR, LF>> \o Line(S("size", 2))
             \o <<S("data", 1), S("data", 2), CR, LF>> \o Line(S("size", 1)) \o <<S("data", 3), CR, LF>>
             \o Line(S("size", 0)) \o <<CR, LF>>,
   body |-> Bytes, framing |-> "chunked"],
  \* A chunk whose size is followed by an extension longer than the buffer.
  [bytes |-> Ok \o Line(S("chunked", 0)) \o <<CR, LF>>
             \o <<S("size", 1), S("other", 0), S("other", 0), S("other", 0), S("other", 0)>>
             \o Line(S("other", 0)) \o <<S("data", 1), CR, LF>>,
   body |-> <<S("data", 1)>>, framing |-> "chunked"],
  \* Neither a length nor chunks.
  [bytes |-> Ok \o <<CR, LF, S("data", 1)>>, body |-> <<S("data", 1)>>, framing |-> "none"],
  \* An error, and a line that is no header.
  [bytes |-> Line(S("status", 404)), body |-> <<>>, framing |-> "none"],
  [bytes |-> Ok \o Line(S("bad", 0)), body |-> <<>>, framing |-> "none"]}
=============================================================================
