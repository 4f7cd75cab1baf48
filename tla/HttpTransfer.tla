---------------------------- MODULE HttpTransfer ----------------------------
(***************************************************************************)
(* How a message is taken off a connection: HttpClient_Execute (the        *)
(* answer) and conn_recv_http_msg of UpnpHttpServer (the request) are the  *)
(* same loop over TcpClient_Recv or TcpConn_Recv, with HttpMessage_Parse   *)
(* for what the first call of Recv gives and HttpMessage_AddContentObject  *)
(* for the rest.  A byte is its position in the stream: HeadLen bytes of   *)
(* head, `length` bytes of content, and a surplus that nobody announced.   *)
(***************************************************************************)
EXTENDS Naturals, Sequences

CONSTANTS
  HeadLen,     \* the first line, the headers and the empty line
  InValue,     \* the cuts of the head that leave a header without its CR
  Lengths,     \* what CONTENT-LENGTH may say
  Surpluses,   \* the bytes a peer may send behind the content
  BufferSize,  \* TCP_CLIENT_BUFFER_SIZE, TCP_CONN_BUFFER_SIZE
  MaxContent   \* HTTP_CONTENT_MAX_SIZE

ASSUME SizesAreNumbers ==
  /\ HeadLen \in Nat \ {0} /\ BufferSize \in Nat /\ MaxContent \in Nat
  /\ Lengths \subseteq Nat /\ Surpluses \subseteq Nat

VARIABLES
  length,      \* the bytes of content, as the head says
  surplus,     \* the bytes behind them
  arrived,     \* the bytes that have reached the socket
  taken,       \* the bytes that Recv has read
  phase,       \* "first", "more" or "done"
  bufSize,     \* the room that HttpContent_SetSize has made
  content,     \* the positions of the bytes in it
  outcome      \* what the exchange returns

transferVars == <<length, surplus, arrived, taken, phase, bufSize, content, outcome>>

TransferInit ==
  /\ length \in Lengths /\ surplus \in Surpluses
  /\ arrived = 0 /\ taken = 0 /\ phase = "first"
  /\ bufSize = 0 /\ content = <<>> /\ outcome = "none"

-----------------------------------------------------------------------------
Min(a, b) == IF a < b THEN a ELSE b

\* The connection may cut the stream anywhere, and it may stop anywhere: the
\* peer's tiny_tcp_write counts a part as sent.
Arrive ==
  /\ phase # "done"
  /\ \E a \in arrived + 1..HeadLen + length + surplus : arrived' = a
  /\ UNCHANGED <<length, surplus, taken, phase, bufSize, content, outcome>>

\* Recv takes what is there, up to its buffer.
Chunk == Min(BufferSize, arrived - taken)

Ends(code) == phase' = "done" /\ outcome' = code

Room == bufSize - Len(content)

\* The bytes at the positions from+1..to.
Bytes(from, to) == [i \in 1..to - from |-> from + i]

\* IsContentFull: after each piece, and before the first wait.
GoOnUnlessFull(size, bytes) ==
  /\ bufSize' = size /\ content' = bytes
  /\ IF Len(bytes) = size THEN Ends("OK") ELSE phase' = "more" /\ outcome' = outcome

\* The head must be there as a whole.  Within a value the parser goes on to
\* the next CR in memory, wherever that is.
HeadCut ==
  /\ Chunk < HeadLen
  /\ IF Chunk \in InValue THEN \E code \in {"E_HTTP_MSG_INVALID", "undefined"} : Ends(code)
                          ELSE Ends("E_HTTP_MSG_INVALID")
  /\ UNCHANGED <<bufSize, content>>

\* Mutant: the line feed that ends the head is taken for content.
HeadRead_KeepsLineFeed ==
  /\ Chunk >= HeadLen
  /\ IF length = 0 THEN Ends("OK") /\ UNCHANGED <<bufSize, content>>
     ELSE IF length > MaxContent THEN Ends("E_OUT_OF_MEMORY") /\ UNCHANGED <<bufSize, content>>
     ELSE GoOnUnlessFull(length, IF Chunk - HeadLen + 1 <= length THEN Bytes(HeadLen - 1, Chunk)
                                                                  ELSE <<>>)

\* A first piece that is longer than the room is refused, and nobody looks:
\* what was in it is lost.
HeadRead ==
  /\ Chunk >= HeadLen
  /\ IF length = 0 THEN Ends("OK") /\ UNCHANGED <<bufSize, content>>
     ELSE IF length > MaxContent THEN Ends("E_OUT_OF_MEMORY") /\ UNCHANGED <<bufSize, content>>
     ELSE GoOnUnlessFull(length, IF Chunk - HeadLen <= length THEN Bytes(HeadLen, Chunk)
                                                              ELSE <<>>)

RecvFirst ==
  /\ phase = "first" /\ arrived > taken
  /\ HeadCut \/ HeadRead
  /\ taken' = taken + Chunk
  /\ UNCHANGED <<length, surplus, arrived>>

\* Mutant: the loop is left one byte early.
AddContent_OffByOne ==
  IF Chunk > Room
  THEN Ends("E_ARG_INVALID") /\ UNCHANGED <<bufSize, content>>
  ELSE GoOnUnlessFull(IF Chunk = Room - 1 THEN bufSize - 1 ELSE bufSize,
                      content \o Bytes(taken, taken + Chunk))

AddContent ==
  IF Chunk > Room
  THEN Ends("E_ARG_INVALID") /\ UNCHANGED <<bufSize, content>>
  ELSE GoOnUnlessFull(bufSize, content \o Bytes(taken, taken + Chunk))

RecvMore ==
  /\ phase = "more" /\ arrived > taken
  /\ AddContent
  /\ taken' = taken + Chunk
  /\ UNCHANGED <<length, surplus, arrived>>

\* The time is over, or the connection: tiny_tcp_read returns 0.
NothingCame ==
  /\ phase # "done" /\ arrived = taken
  /\ \E code \in {"E_TIMEOUT", "E_SOCKET_READ"} : Ends(code)
  /\ UNCHANGED <<length, surplus, arrived, taken, bufSize, content>>

TransferNext == Arrive \/ RecvFirst \/ RecvMore \/ NothingCame

TransferSpec == TransferInit /\ [][TransferNext]_transferVars

-----------------------------------------------------------------------------
TransferTypeOK ==
  /\ length \in Lengths /\ surplus \in Surpluses
  /\ taken \in 0..arrived /\ arrived \in 0..HeadLen + length + surplus
  /\ bufSize \in 0..MaxContent /\ Len(content) <= bufSize

\* However the stream is cut: an exchange that returns OK has the content that
\* was sent, the first byte to the last.  With a surplus it may have other
\* bytes: the refused first piece is lost and the next one takes its place.
WholeWhenOK ==
  outcome = "OK" /\ surplus = 0 => content = Bytes(HeadLen, HeadLen + length)

\* The loop never waits for a byte that was not announced; with a surplus in
\* the first piece it does, until the time is over.
WaitsForNoMore ==
  phase = "more" /\ surplus = 0 => taken < HeadLen + length
=============================================================================
