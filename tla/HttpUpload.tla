------------------------------ MODULE HttpUpload -------------------------------
(***************************************************************************)
(* HTTPClient::sendRequest(type, stream, size)                             *)
(* (libraries/ESP31BhttpClient/src/ESP31BHTTPClient.cpp): the request body *)
(* is read from a Stream block by block into one buffer and each block is  *)
(* written with ClientContext::write, with one retry of what the first     *)
(* write did not report.  The connection, the header and malloc(buff_size) *)
(* are behind us.  A turn of the loop that finds nothing available only    *)
(* delays: it is a stuttering step.  getWriteError() is always 0:          *)
(* WiFiClient never sets it.                                               *)
(*                                                                         *)
(* Bytes are numbered by their place in the source stream; 0 stands for    *)
(* memory that no byte was read into.                                      *)
(***************************************************************************)
EXTENDS ClientContextTx, Sequences

CONSTANTS
  BodySizes,  \* the size arguments; 0 when the size is not known
  BuffSize    \* HTTP_TCP_BUFFER_SIZE

ASSUME UploadAssumption == BodySizes \subseteq Nat /\ BuffSize \in Nat \ {0}

VARIABLES
  size,          \* the size argument
  hpc,           \* where sendRequest is
  buff,          \* the memory at buff; <<>> after free(buff)
  len,           \* bytes still to read, or -1
  readBytes,     \* what this turn of the loop wanted to read
  bytesRead,     \* and what it did read
  bytesWritten,
  next,          \* place of the next byte of the source stream
  supplied,      \* bytes the source stream has come to hold so far
  ended,         \* its available() is below zero
  unread,        \* received bytes wait in the context, so that available() > 0
  handed,        \* the bytes copied into lwIP's send queue
  short          \* a write() did not report exactly what it was asked

upvars == <<size, hpc, buff, len, readBytes, bytesRead, bytesWritten, next, supplied, ended,
            unread, handed, short>>
allvars == <<txvars, upvars>>

Ends == {"success", "failed"}

buff_size == IF size # 0 /\ size < BuffSize THEN size ELSE BuffSize

UploadInit ==
  /\ TxInit
  /\ hpc = "loop"
  /\ size \in BodySizes
  /\ buff = [i \in 1..buff_size |-> 0]
  /\ len = IF size = 0 THEN -1 ELSE size
  /\ readBytes = 0
  /\ bytesRead = 0
  /\ bytesWritten = 0
  /\ next = 1
  /\ supplied = 0
  /\ ended = FALSE
  /\ unread = FALSE
  /\ handed = <<>>
  /\ short = FALSE

\* HTTPClient::connected(): also while received bytes are unread.
Connected == pcb = "open" \/ unread

\* stream->available(), while it is not below zero.
sizeAvailable == supplied - (next - 1)

\* What a turn of the loop wants to read.
Wanted ==
  LET due == IF len > 0 /\ sizeAvailable > len THEN len ELSE sizeAvailable
  IN  IF due > buff_size THEN buff_size ELSE due

\* The byte at place i of the buffer.
At(i) == IF i \in 1..Len(buff) THEN buff[i] ELSE 0

\* The buffer after r bytes were read into it.
Filled(r) == [i \in 1..buff_size |-> IF i <= r THEN next + i - 1 ELSE At(i)]

\* One turn of the loop: read a block, which may come short, and hand it to
\* write().  The two calls of available() in a turn see the same.
ReadBlock(r) ==
  /\ hpc = "loop"
  /\ Connected
  /\ ~ended
  /\ len > 0 \/ len = -1
  /\ sizeAvailable > 0
  /\ r <= Wanted
  /\ readBytes' = Wanted
  /\ bytesRead' = r
  /\ buff' = Filled(r)
  /\ next' = next + r
  /\ hpc' = "first"
  /\ Call(r)
  /\ UNCHANGED <<size, len, bytesWritten, supplied, ended, unread, handed, short>>

\* The loop ends, and the count is compared with the size.
\* (Mistake: the count is not compared.)
LoopEndsUnchecked ==
  /\ hpc = "loop"
  /\ ~Connected \/ ended \/ len = 0
  /\ buff' = <<>>
  /\ hpc' = "success"
  /\ UNCHANGED <<txvars, size, len, readBytes, bytesRead, bytesWritten, next, supplied, ended,
                 unread, handed, short>>

LoopEnds ==
  /\ hpc = "loop"
  /\ ~Connected \/ ended \/ len = 0
  /\ buff' = <<>>
  /\ hpc' = IF size # 0 /\ size # bytesWritten THEN "failed" ELSE "success"
  /\ UNCHANGED <<txvars, size, len, readBytes, bytesRead, bytesWritten, next, supplied, ended,
                 unread, handed, short>>

\* The block counts as read, however few bytes came.
lenAfter == IF len > 0 THEN len - readBytes ELSE len

\* The first write() has returned.  If it did not report what was read, what it
\* did not report of what was wanted is written again, from place ret + 1 of the
\* buffer; a negative rest is a huge size_t.
FirstReturned ==
  /\ hpc = "first"
  /\ tx = "idle"
  /\ bytesWritten' = bytesWritten + ret
  /\ IF ret = bytesRead
       THEN /\ hpc' = "loop"
            /\ len' = lenAfter
            /\ UNCHANGED <<txvars, short>>
       ELSE /\ hpc' = "retry"
            /\ short' = TRUE
            /\ Call((readBytes - ret) % SizeT)
            /\ UNCHANGED len
  /\ UNCHANGED <<size, buff, readBytes, bytesRead, next, supplied, ended, unread, handed>>

\* The second write() has returned.
RetryReturned ==
  /\ hpc = "retry"
  /\ tx = "idle"
  /\ bytesWritten' = bytesWritten + ret
  /\ IF ret = asked
       THEN /\ hpc' = "loop"
            /\ len' = lenAfter
            /\ UNCHANGED buff
       ELSE /\ hpc' = "failed"
            /\ buff' = <<>>
            /\ UNCHANGED len
  /\ UNCHANGED <<txvars, size, readBytes, bytesRead, next, supplied, ended, unread, handed, short>>

\* Where in the buffer the write() in progress begins.
start == IF hpc = "first" THEN 1 ELSE ((readBytes - asked) % SizeT) + 1

\* The n bytes from there, as tcp_write copies them.
Copied(n) == [i \in 1..n |-> At(start + i - 1)]

\* A step of the write() in progress.
UploadWrite ==
  /\ WriteStep
  /\ handed' = handed \o Copied(queued' - queued)
  /\ UNCHANGED <<size, hpc, buff, len, readBytes, bytesRead, bytesWritten, next, supplied, ended,
                 unread, short>>

UploadSent(n) == Sent(n) /\ UNCHANGED upvars

UploadDisconnected == Disconnected /\ UNCHANGED upvars

\* The server answers before it has the whole request.
EarlyAnswer ==
  /\ pcb = "open"
  /\ ~unread
  /\ unread' = TRUE
  /\ UNCHANGED <<txvars, size, hpc, buff, len, readBytes, bytesRead, bytesWritten, next, supplied,
                 ended, handed, short>>

\* The source stream comes to hold another byte, up to MaxQueued of them.
Supply ==
  /\ ~ended
  /\ supplied < MaxQueued
  /\ supplied' = supplied + 1
  /\ UNCHANGED <<txvars, size, hpc, buff, len, readBytes, bytesRead, bytesWritten, next, ended,
                 unread, handed, short>>

\* The source stream reports its end, which a Stream need not do.
StreamEnds ==
  /\ ~ended
  /\ ended' = TRUE
  /\ UNCHANGED <<txvars, size, hpc, buff, len, readBytes, bytesRead, bytesWritten, next, supplied,
                 unread, handed, short>>

UploadStep ==
  \/ \E r \in 0..BuffSize : ReadBlock(r)
  \/ LoopEnds
  \/ FirstReturned
  \/ RetryReturned

UploadNext ==
  \/ UploadStep
  \/ UploadWrite
  \/ \E n \in 1..SndBuf : UploadSent(n)
  \/ UploadDisconnected
  \/ EarlyAnswer
  \/ Supply
  \/ StreamEnds

UploadSpec == UploadInit /\ [][UploadNext]_allvars

\* The loop task is scheduled.  Nothing is assumed of the source or of the peer.
UploadFairSpec ==
  /\ UploadSpec
  /\ WF_allvars(UploadStep)
  /\ WF_allvars(UploadWrite)

-------------------------------------------------------------------------------
(* Correctness. *)

UploadTypeOK ==
  /\ TxTypeOK
  /\ size \in BodySizes
  /\ hpc \in {"loop", "first", "retry"} \cup Ends
  /\ buff \in Seq(Nat)
  /\ len \in IF size = 0 THEN {-1} ELSE 0..size
  /\ readBytes \in Nat
  /\ bytesRead \in Nat
  /\ bytesWritten \in Nat
  /\ next \in Nat
  /\ supplied \in Nat
  /\ ended \in BOOLEAN
  /\ unread \in BOOLEAN
  /\ handed \in Seq(Nat)
  /\ short \in BOOLEAN

\* As long as every write() has reported exactly what it was asked, the peer is
\* sent a prefix of the source, although lwIP may take less than a block.
ExactUntilShort == ~short => \A i \in 1..Len(handed) : handed[i] = i

\* A request that goes on to read the response has had size bytes acknowledged,
\* and without a short write they are the size bytes of the source.
SuccessIsDelivered ==
  hpc = "success" /\ size # 0 =>
    /\ acked >= size
    /\ ~short => Len(handed) = size

\* All of these: what the peer is sent, and what success means.
UploadSound == UploadTypeOK /\ ExactUntilShort /\ SuccessIsDelivered

\* The connection is gone, and nothing received is left to read.
Gone == ~Connected

\* The upload of a body of known size comes to an end, although the peer may
\* stop acknowledging and reads may come short, once the source has come to hold
\* that many bytes or reports its end, or the connection is gone; unless _pcb
\* went away under a write().  A source that stays empty on a live connection
\* keeps sendRequest in its loop for ever.
UploadEnds ==
  size # 0 /\ <>(supplied >= size \/ ended \/ Gone)
    => <>(hpc \in Ends \/ tx = "fault")
===============================================================================
