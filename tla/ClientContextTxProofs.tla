------------------------ MODULE ClientContextTxProofs -------------------------
(***************************************************************************)
(* Proofs, for every send buffer, width of size_t and size of the writes,  *)
(* that ClientContext::write claims only acknowledged bytes, and that an   *)
(* upload sends the bytes of its source until a write() comes short.       *)
(***************************************************************************)
EXTENDS HttpUpload, SequenceTheorems, TLAPS

\* What has been acknowledged since the wait began.
got == acked - armed

\* will_send - got, as a size_t.
Left == IF got <= will_send THEN will_send - got ELSE will_send - got + SizeT

InQueued == tx \in {"queued", "wait"} => will_send <= asked

Waiting ==
  tx = "wait" => /\ reported <= armed
                 /\ armed <= acked
                 /\ queued - armed <= SndBuf
                 /\ size_sent = Left

TxInv ==
  /\ TxTypeOK
  /\ InFlightBounded
  /\ ReportsAcknowledged
  /\ InQueued
  /\ Waiting

\* A number at most one turn below zero.
LEMMA ModOnce ==
  ASSUME NEW s \in Nat, s > 0, NEW a \in Int, -s <= a, a < s
  PROVE  a % s = (IF a < 0 THEN a + s ELSE a)
<1>1. CASE a >= 0
  BY <1>1
<1>2. CASE a < 0
  <2>1. (a + s) % s = a + s
    BY <1>2
  <2>2. a % s = (a + s) % s
    BY <1>2
  <2> QED
    BY <1>2, <2>1, <2>2
<1> QED
  BY <1>1, <1>2

\* The numbers of a state.
LEMMA Numbers ==
  ASSUME TxTypeOK
  PROVE  /\ SndBuf \in Nat /\ SizeT \in Nat /\ SndBuf < SizeT /\ SizeT > 0
         /\ asked \in Nat /\ will_send \in Nat /\ will_send <= SndBuf
         /\ size_sent \in Nat /\ size_sent < SizeT
         /\ ret \in Nat /\ queued \in Nat /\ acked \in Nat /\ armed \in Nat /\ reported \in Nat
         /\ tx \in TxPlaces /\ pcb \in {"open", "none"}
BY TxAssumption DEF TxTypeOK

\* tcp_write takes the smaller of the room and the request.
LEMMA QueueStep ==
  ASSUME TxInv, Queue
  PROVE  TxInv'
<1> DEFINE w == WillSend
<1> USE DEF TxInv
<1>1. /\ tx' = "queued" /\ will_send' = w /\ queued' = queued + w
      /\ UNCHANGED <<pcb, asked, size_sent, ret, acked, armed, reported>>
  BY DEF Queue
<1>2. w \in Nat /\ w <= asked /\ w <= SndBuf - (queued - acked) /\ w <= SndBuf
  BY Numbers DEF WillSend, tcp_sndbuf, unacked, InFlightBounded
<1> HIDE DEF w
<1>3. TxTypeOK'
  BY <1>1, <1>2, Numbers DEF TxTypeOK, TxPlaces
<1>4. InFlightBounded'
  BY <1>1, <1>2, Numbers DEF InFlightBounded, unacked
<1>5. ReportsAcknowledged' /\ InQueued' /\ Waiting'
  BY <1>1, <1>2 DEF ReportsAcknowledged, InQueued, Waiting
<1> QED
  BY <1>3, <1>4, <1>5

\* The wait begins.
LEMMA ArmStep ==
  ASSUME TxInv, Arm
  PROVE  TxInv'
<1> USE DEF TxInv
<1>1. /\ tx = "queued" /\ tx' = "wait" /\ size_sent' = will_send /\ armed' = acked
      /\ UNCHANGED <<pcb, asked, will_send, ret, queued, acked, reported>>
  BY DEF Arm
<1>2. TxTypeOK'
  BY <1>1, Numbers DEF TxTypeOK, TxPlaces
<1>3. InFlightBounded' /\ ReportsAcknowledged' /\ InQueued'
  BY <1>1 DEF InFlightBounded, unacked, ReportsAcknowledged, InQueued
<1>4. Waiting'
  <2>1. got' = acked - acked
    BY <1>1 DEF got
  <2>2. got' = 0
    BY <2>1, Numbers
  <2>3. Left' = will_send
    BY <1>1, <2>2, Numbers DEF Left
  <2> QED
    BY <1>1, <2>3, Numbers DEF Waiting, InFlightBounded, unacked, ReportsAcknowledged
<1> QED
  BY <1>2, <1>3, <1>4

\* In a wait, what write() would return is what was acknowledged during it.
LEMMA ClaimIsGot ==
  ASSUME TxInv, tx = "wait"
  PROVE  /\ (will_send - size_sent) % SizeT = got
         /\ got \in Nat /\ got <= SndBuf
<1> USE DEF TxInv
<1> DEFINE x == will_send - size_sent
<1>1. got \in Nat /\ got <= SndBuf
  BY Numbers DEF Waiting, got, InFlightBounded
<1>2. size_sent = IF got <= will_send THEN will_send - got ELSE will_send - got + SizeT
  BY DEF Waiting, Left
<1>3. CASE got <= will_send
  <2>1. x = got
    BY <1>1, <1>2, <1>3, Numbers
  <2>2. x % SizeT = x
    BY <1>1, <2>1, Numbers, ModOnce
  <2> QED
    BY <1>1, <2>1, <2>2
<1>4. CASE got > will_send
  <2>1. x = got - SizeT
    BY <1>1, <1>2, <1>4, Numbers
  <2>2. x \in Int /\ -SizeT <= x /\ x < 0 /\ x + SizeT = got
    BY <1>1, <2>1, Numbers
  <2> HIDE DEF x
  <2>3. x % SizeT = x + SizeT
    BY <2>2, Numbers, ModOnce
  <2> QED
    BY <1>1, <2>2, <2>3 DEF x
<1> QED
  BY <1>1, <1>3, <1>4, Numbers

\* write() returns.
LEMMA ClaimStep ==
  ASSUME TxInv, tx = "wait", Claim
  PROVE  TxInv' /\ ret' = got
<1> USE DEF TxInv
<1>1. /\ ret' = got /\ reported' = reported + got /\ tx' = "idle"
      /\ UNCHANGED <<pcb, asked, will_send, size_sent, queued, acked, armed>>
  BY ClaimIsGot DEF Claim
<1>2. got \in Nat /\ reported + got <= acked
  BY ClaimIsGot, Numbers DEF Waiting, got
<1>3. TxTypeOK'
  BY <1>1, <1>2, Numbers DEF TxTypeOK, TxPlaces
<1>4. InFlightBounded' /\ ReportsAcknowledged' /\ InQueued' /\ Waiting'
  BY <1>1, <1>2 DEF InFlightBounded, unacked, ReportsAcknowledged, InQueued, Waiting
<1> QED
  BY <1>1, <1>3, <1>4

\* An acknowledgement, whoever's bytes it covers.
LEMMA SentStep ==
  ASSUME TxInv, NEW n \in Nat, Sent(n)
  PROVE  TxInv'
<1> USE DEF TxInv
<1> DEFINE x == size_sent - n
           s == IF x < 0 THEN x + SizeT ELSE x
<1>1. /\ acked' = acked + n /\ size_sent' = x % SizeT
      /\ n > 0 /\ n <= queued - acked
      /\ UNCHANGED <<pcb, tx, asked, will_send, ret, queued, armed, reported>>
  BY Numbers DEF Sent, unacked
<1>2. n <= SndBuf
  BY <1>1, Numbers DEF InFlightBounded, unacked
<1>3. x \in Int /\ -SizeT <= x /\ x < SizeT
  BY <1>2, Numbers
<1>4. size_sent' = s
  <2> HIDE DEF x
  <2> QED
    BY <1>1, <1>3, Numbers, ModOnce
<1>5. s \in Nat /\ s < SizeT
  BY <1>2, Numbers
<1>6. TxTypeOK'
  <2> HIDE DEF s
  <2>1. s \in 0..SizeT - 1
    BY <1>5, Numbers
  <2>2. acked + n \in Nat
    BY Numbers
  <2> QED
    BY <1>1, <1>4, <2>1, <2>2 DEF TxTypeOK
<1>7. InFlightBounded'
  <2>1. acked + n <= queued /\ queued - (acked + n) <= SndBuf
    BY <1>1, Numbers DEF InFlightBounded, unacked
  <2> QED
    BY <1>1, <2>1 DEF InFlightBounded, unacked
<1>8. ReportsAcknowledged' /\ InQueued'
  <2>1. reported <= acked + n
    BY Numbers DEF ReportsAcknowledged
  <2> QED
    BY <1>1, <2>1 DEF ReportsAcknowledged, InQueued
<1>9. Waiting'
  <2>1. CASE tx = "wait"
    <3> DEFINE g == acked + n - armed
               l == IF g <= will_send THEN will_send - g ELSE will_send - g + SizeT
    <3>1. /\ reported <= armed /\ armed <= acked /\ queued - armed <= SndBuf /\ size_sent = Left
      BY <2>1 DEF Waiting
    <3>2. got' = g /\ Left' = l
      <4>0. acked' = acked + n /\ armed' = armed /\ will_send' = will_send
        BY <1>1
      <4>1. got' = acked + n - armed
        BY <4>0, Numbers DEF got
      <4>2. got' = g
        BY <4>1
      <4> HIDE DEF g
      <4>3. Left' = l
        BY <4>0, <4>2 DEF Left
      <4> QED
        BY <4>2, <4>3
    <3>3. got \in Nat /\ got = acked - armed /\ g = got + n /\ g <= SndBuf
      BY <1>1, <3>1, Numbers DEF got
    <3>4. size_sent = IF got <= will_send THEN will_send - got ELSE will_send - got + SizeT
      BY <3>1 DEF Left
    <3>5. s = l
      <4>1. CASE got <= will_send
        BY <4>1, <3>3, <3>4, Numbers
      <4>2. CASE got > will_send
        BY <4>2, <3>3, <3>4, Numbers
      <4> QED
        BY <4>1, <4>2, <3>3, Numbers
    <3>6. armed <= acked + n
      BY <3>1, Numbers
    <3> HIDE DEF s, l
    <3> QED
      BY <1>1, <1>4, <3>1, <3>2, <3>5, <3>6 DEF Waiting
  <2>2. CASE tx # "wait"
    BY <2>2, <1>1 DEF Waiting
  <2> QED
    BY <2>1, <2>2
<1> QED
  BY <1>6, <1>7, <1>8, <1>9

\* The inductive invariant is preserved.
LEMMA TxStep ==
  ASSUME TxInv, [TxNext]_txvars
  PROVE  TxInv'
<1> USE DEF TxInv
<1>1. ASSUME NEW n \in Sizes, Call(n) PROVE TxInv'
  <2>1. /\ asked' = n /\ tx' \in {"idle", "entered"} /\ ret' = 0 /\ n \in Nat
        /\ UNCHANGED <<pcb, will_send, size_sent, queued, acked, armed, reported>>
    BY <1>1, TxAssumption DEF Call
  <2> QED
    BY <2>1 DEF TxTypeOK, TxPlaces, InFlightBounded, unacked, ReportsAcknowledged, InQueued, Waiting
<1>2. CASE Queue
  BY <1>2, QueueStep
<1>3. CASE QueueFails
  <2> DEFINE w == WillSend
  <2>1. w \in Nat /\ w <= SndBuf
    BY Numbers DEF WillSend, tcp_sndbuf, unacked, InFlightBounded
  <2>2. /\ tx' = "idle" /\ will_send' = w
        /\ UNCHANGED <<pcb, asked, size_sent, ret, queued, acked, armed, reported>>
    BY <1>3 DEF QueueFails
  <2> HIDE DEF w
  <2>3. TxTypeOK'
    BY <2>1, <2>2, Numbers DEF TxTypeOK, TxPlaces
  <2> QED
    BY <2>2, <2>3 DEF InFlightBounded, unacked, ReportsAcknowledged, InQueued, Waiting
<1>4. CASE Arm
  BY <1>4, ArmStep
<1>5. CASE Fault
  BY <1>5 DEF Fault, TxTypeOK, TxPlaces, InFlightBounded, unacked, ReportsAcknowledged, InQueued,
     Waiting
<1>6. CASE Return \/ Timeout
  BY <1>6, ClaimStep DEF Return, Timeout
<1>7. ASSUME NEW n \in 1..SndBuf, Sent(n) PROVE TxInv'
  BY <1>7, SentStep, TxAssumption
<1>8. CASE Disconnected
  <2>1. /\ pcb' = "none"
        /\ UNCHANGED <<tx, asked, will_send, size_sent, ret, queued, acked, armed, reported>>
    BY <1>8 DEF Disconnected
  <2>2. Left' = Left
    BY <2>1 DEF Left, got
  <2> QED
    BY <2>1, <2>2 DEF TxTypeOK, InFlightBounded, unacked, ReportsAcknowledged, InQueued, Waiting
<1>9. CASE UNCHANGED txvars
  <2>1. UNCHANGED <<pcb, tx, asked, will_send, size_sent, ret, queued, acked, armed, reported>>
    BY <1>9 DEF txvars
  <2>2. Left' = Left
    BY <2>1 DEF Left, got
  <2> QED
    BY <2>1, <2>2 DEF TxTypeOK, InFlightBounded, unacked, ReportsAcknowledged, InQueued, Waiting
<1> QED
  BY <1>1, <1>2, <1>3, <1>4, <1>5, <1>6, <1>7, <1>8, <1>9 DEF TxNext, WriteStep

LEMMA TxInvariance == TxSpec => []TxInv
<1>1. TxInit => TxInv
  BY TxAssumption DEF TxInit, TxInv, TxTypeOK, TxPlaces, InFlightBounded, unacked,
     ReportsAcknowledged, InQueued, Waiting
<1> QED
  BY <1>1, TxStep, PTL DEF TxSpec

\* write() claims no byte that _sent() has not been told of, and lwIP's send
\* buffer is never overrun, for every buffer size and width of size_t.
THEOREM WriteIsHonest == TxSpec => [](TxTypeOK /\ InFlightBounded /\ ReportsAcknowledged)
<1>1. TxInv => TxTypeOK /\ InFlightBounded /\ ReportsAcknowledged
  BY DEF TxInv
<1> QED
  BY <1>1, TxInvariance, PTL

-------------------------------------------------------------------------------
(* The upload of a request body through write(). *)

\* The counts of the bytes on their way, and what is due to the caller.
Counts ==
  /\ Len(handed) = queued
  /\ next > 0
  /\ tx # "idle" => ret = 0
  /\ bytesWritten + (IF hpc \in {"first", "retry"} THEN ret ELSE 0) = reported
  /\ hpc \in {"loop"} \cup Ends => tx = "idle"
  /\ hpc = "success" /\ size # 0 => bytesWritten = size

\* The block wanted belongs to what is still to be read.
BlockFits ==
  hpc \in {"first", "retry"} =>
    /\ readBytes > 0 /\ bytesRead <= readBytes
    /\ size # 0 => readBytes <= len

\* The bytes of the source before the block in the buffer.
before == next - 1 - bytesRead

\* Between two blocks nothing is on its way.
Settled ==
  /\ hpc # "retry"
  /\ queued = next - 1 /\ acked = queued
  /\ size # 0 => queued <= size - len

\* The first bytes of the buffer are the block.
HasBlock == \A j \in 1..bytesRead : At(j) = before + j

\* While the block is written everything before it is settled.
InBlock ==
  /\ before \in Nat /\ before <= acked /\ queued <= next - 1
  /\ HasBlock
  /\ asked = bytesRead
  /\ size # 0 => before <= size - len
  /\ tx # "idle" => bytesRead > 0
  /\ tx = "entered" => queued = before
  /\ tx \in {"queued", "wait"} => queued = before + will_send
  /\ tx = "wait" => before <= armed
  /\ tx = "idle" /\ ret = bytesRead => acked = queued /\ queued = next - 1

UpInv ==
  /\ UploadTypeOK
  /\ TxInv
  /\ Counts
  /\ BlockFits
  /\ ~short => IF hpc = "first" THEN InBlock ELSE Settled
  /\ ExactUntilShort

\* The numbers of the upload.
LEMMA UpNumbers ==
  ASSUME UpInv
  PROVE  /\ size \in Nat /\ len \in Int /\ next \in Nat /\ bytesWritten \in Nat
         /\ readBytes \in Nat /\ bytesRead \in Nat /\ supplied \in Nat
         /\ size = 0 => len = -1
         /\ size # 0 => len >= 0 /\ len <= size
         /\ buff \in Seq(Nat) /\ handed \in Seq(Nat)
         /\ Len(buff) \in Nat /\ Len(handed) \in Nat
         /\ short \in BOOLEAN /\ TxTypeOK
         /\ BuffSize \in Nat /\ BuffSize > 0
<1>1. /\ size \in BodySizes /\ len \in IF size = 0 THEN {-1} ELSE 0..size
      /\ buff \in Seq(Nat) /\ handed \in Seq(Nat)
      /\ readBytes \in Nat /\ bytesRead \in Nat /\ supplied \in Nat
      /\ next \in Nat /\ bytesWritten \in Nat /\ short \in BOOLEAN /\ TxTypeOK
  BY DEF UpInv, UploadTypeOK
<1>2. size \in Nat /\ BuffSize \in Nat /\ BuffSize > 0
  BY <1>1, UploadAssumption
<1>3. Len(buff) \in Nat /\ Len(handed) \in Nat
  BY <1>1, LenProperties
<1>4. CASE size = 0
  BY <1>1, <1>2, <1>3, <1>4
<1>5. CASE size # 0
  BY <1>1, <1>2, <1>3, <1>5
<1> QED
  BY <1>4, <1>5

\* The numbers of write() in an upload.
LEMMA TxNumbers ==
  ASSUME UpInv
  PROVE  /\ queued \in Nat /\ acked \in Nat /\ armed \in Nat /\ reported \in Nat
         /\ asked \in Nat /\ will_send \in Nat /\ ret \in Nat
         /\ SizeT \in Nat /\ SizeT > 0 /\ SndBuf \in Nat
BY UpNumbers, Numbers

\* A byte of the buffer, or of the memory behind it, is a byte.
LEMMA AtIs ==
  ASSUME UpInv, NEW i
  PROVE  At(i) \in Nat
<1>1. \A k \in 1..Len(buff) : buff[k] \in Nat
  BY UpNumbers, ElementOfSeq
<1> QED
  BY <1>1 DEF At

\* A turn of the loop wants at least a byte, and no more than is due or fits.
LEMMA WantedIs ==
  ASSUME UpInv, len > 0 \/ len = -1, sizeAvailable > 0
  PROVE  /\ buff_size \in Nat /\ Wanted \in Nat /\ Wanted > 0 /\ Wanted <= buff_size
         /\ len > 0 => Wanted <= len
<1>1. buff_size \in Nat /\ buff_size > 0
  BY UpNumbers DEF buff_size
<1>2. sizeAvailable \in Int
  BY UpNumbers DEF sizeAvailable
<1>3. len \in Int
  BY UpNumbers
<1> QED
  BY <1>1, <1>2, <1>3 DEF Wanted

\* The buffer after a read: the block, and behind it what was there before.
LEMMA FilledIs ==
  ASSUME UpInv, NEW r \in Nat, buff_size \in Nat, r <= buff_size
  PROVE  /\ Filled(r) \in Seq(Nat) /\ Len(Filled(r)) = buff_size
         /\ \A j \in 1..r : Filled(r)[j] = next + j - 1
<1> DEFINE N == buff_size
<1>1. next \in Nat /\ next > 0
  BY UpNumbers DEF UpInv, Counts
<1>2. ASSUME NEW i \in 1..N
      PROVE  (IF i <= r THEN next + i - 1 ELSE At(i)) \in Nat
  BY <1>1, AtIs
<1>3. Filled(r) = [i \in 1..N |-> IF i <= r THEN next + i - 1 ELSE At(i)]
  BY DEF Filled
<1>4. N \in Nat /\ r <= N
  OBVIOUS
<1> HIDE DEF N
<1>5. Filled(r) \in Seq(Nat) /\ Len(Filled(r)) = N
  BY <1>2, <1>3, <1>4
<1>6. \A j \in 1..r : Filled(r)[j] = next + j - 1
  BY <1>3, <1>4
<1> QED
  BY <1>5, <1>6 DEF N

\* write() is called again, or returns 0 at once.
LEMMA CallStep ==
  ASSUME TxInv, NEW n \in Nat, Call(n)
  PROVE  TxInv'
<1>1. /\ asked' = n /\ tx' \in {"idle", "entered"} /\ ret' = 0
      /\ UNCHANGED <<pcb, will_send, size_sent, queued, acked, armed, reported>>
  BY DEF Call
<1> QED
  BY <1>1 DEF TxInv, TxTypeOK, TxPlaces, InFlightBounded, unacked, ReportsAcknowledged, InQueued,
     Waiting

\* What lwIP is handed when write() takes a step.
LEMMA HandedGrows ==
  ASSUME UpInv, NEW m \in Nat, handed' = handed \o Copied(m)
  PROVE  /\ handed' \in Seq(Nat) /\ Len(handed') = Len(handed) + m
         /\ \A k \in 1..Len(handed) : handed'[k] = handed[k]
         /\ \A k \in 1..Len(handed) + m :
              k > Len(handed) => handed'[k] = At(start + (k - Len(handed)) - 1)
<1> DEFINE t == Copied(m)
<1>1. t \in Seq(Nat) /\ Len(t) = m /\ \A j \in 1..m : t[j] = At(start + j - 1)
  BY AtIs DEF Copied
<1> HIDE DEF t
<1>2. handed' = handed \o t
  BY DEF t
<1>3. /\ handed \o t \in Seq(Nat) /\ Len(handed \o t) = Len(handed) + m
      /\ \A k \in 1..Len(handed) + m :
           (handed \o t)[k] = IF k <= Len(handed) THEN handed[k] ELSE t[k - Len(handed)]
  BY <1>1, UpNumbers, ConcatProperties
<1>4. ASSUME NEW k \in 1..Len(handed) + m, k > Len(handed)
      PROVE  handed'[k] = At(start + (k - Len(handed)) - 1)
  <2>0. Len(handed) \in Nat
    BY UpNumbers
  <2>1. k - Len(handed) \in 1..m /\ ~(k <= Len(handed))
    BY <1>4, <2>0
  <2> QED
    BY <1>1, <1>2, <1>3, <2>1
<1>5. ASSUME NEW k \in 1..Len(handed)
      PROVE  handed'[k] = handed[k]
  <2>1. k \in 1..Len(handed) + m /\ k <= Len(handed)
    BY UpNumbers
  <2> QED
    BY <1>2, <1>3, <2>1
<1> QED
  BY <1>2, <1>3, <1>4, <1>5

\* A block is read and handed to write().
LEMMA ReadBlockStep ==
  ASSUME UpInv, NEW r \in 0..BuffSize, ReadBlock(r)
  PROVE  UpInv'
<1>1. /\ hpc = "loop" /\ hpc' = "first"
      /\ readBytes' = Wanted /\ bytesRead' = r /\ r <= Wanted
      /\ buff' = Filled(r) /\ next' = next + r
      /\ UNCHANGED <<size, len, bytesWritten, supplied, ended, unread, handed, short>>
      /\ len > 0 \/ len = -1
      /\ sizeAvailable > 0
      /\ Call(r)
  BY DEF ReadBlock
<1>2. /\ buff_size \in Nat /\ Wanted \in Nat /\ Wanted > 0 /\ (len > 0 => Wanted <= len)
      /\ Wanted <= buff_size
  BY <1>1, WantedIs
<1>3. /\ asked' = r /\ tx' \in {"idle", "entered"} /\ ret' = 0
      /\ tx' = "entered" => r > 0
      /\ UNCHANGED <<pcb, will_send, size_sent, queued, acked, armed, reported>>
  BY <1>1 DEF Call
<1>4. next > 0 /\ r \in Nat /\ r <= buff_size
  BY <1>1, <1>2, UpNumbers DEF UpInv, Counts
<1>5. /\ buff' \in Seq(Nat) /\ Len(buff') = buff_size
      /\ \A j \in 1..r : buff'[j] = next + j - 1
  BY <1>1, <1>2, <1>4, FilledIs
<1>6. TxInv'
  BY <1>1, <1>4, CallStep DEF UpInv
<1>7. UploadTypeOK'
  <2>1. next + r \in Nat
    BY <1>4, UpNumbers
  <2> QED
    BY <1>1, <1>2, <1>4, <1>5, <1>6, <2>1 DEF UpInv, UploadTypeOK, TxInv
<1>8. Counts'
  <2>1. bytesWritten + 0 = reported
    BY <1>1 DEF UpInv, Counts
  <2>2. next + r > 0
    BY <1>4, UpNumbers
  <2> QED
    BY <1>1, <1>3, <2>1, <2>2 DEF UpInv, Counts, Ends
<1>9. BlockFits'
  BY <1>1, <1>2, UpNumbers DEF BlockFits
<1>10. ASSUME ~short PROVE InBlock'
  <2>1. queued = next - 1 /\ acked = queued /\ (size # 0 => queued <= size - len)
    BY <1>1, <1>10 DEF UpInv, Settled
  <2>2. before' = next - 1
    <3>1. next \in Nat /\ before' = (next + r) - 1 - r
      BY <1>1, UpNumbers DEF before
    <3> QED
      BY <1>4, <3>1
  <2>3. HasBlock'
    <3> SUFFICES ASSUME NEW j \in 1..r PROVE At(j)' = before' + j
      BY <1>1 DEF HasBlock
    <3>1. j \in 1..Len(buff') /\ buff'[j] = next + j - 1
      <4>1. \A i \in 1..r : i \in 1..buff_size
        BY <1>2, <1>4
      <4> QED
        BY <1>5, <4>1
    <3>2. At(j)' = buff'[j]
      BY <3>1 DEF At
    <3>3. next \in Nat /\ j \in Nat
      BY <1>4, UpNumbers
    <3> QED
      BY <2>2, <3>1, <3>2, <3>3
  <2>4. before' \in Nat /\ before' <= acked' /\ queued' <= next' - 1
    <3>1. next \in Nat
      BY UpNumbers
    <3>2. next - 1 \in Nat /\ next - 1 <= next - 1 /\ next - 1 <= (next + r) - 1
      BY <1>4, <3>1
    <3>3. next' = next + r /\ queued' = next - 1 /\ acked' = next - 1
      BY <1>1, <1>3, <2>1
    <3> QED
      BY <2>2, <3>2, <3>3
  <2>5. queued' = before' /\ (size' # 0 => before' <= size' - len')
    BY <1>1, <1>3, <2>1, <2>2
  <2>6. ret' = bytesRead' => queued' = next' - 1
    BY <1>1, <1>3, <2>1, UpNumbers
  <2>7. acked' = queued'
    BY <1>3, <2>1
  <2> QED
    BY <1>1, <1>3, <2>3, <2>4, <2>5, <2>6, <2>7 DEF InBlock
<1>11. ExactUntilShort'
  BY <1>1 DEF UpInv, ExactUntilShort
<1> QED
  BY <1>1, <1>6, <1>7, <1>8, <1>9, <1>10, <1>11 DEF UpInv

\* A step that leaves the numbers of write() alone.
LEMMA TxUnchanged ==
  ASSUME UpInv, pcb' \in {"open", "none"},
         UNCHANGED <<tx, asked, will_send, size_sent, ret, queued, acked, armed, reported>>
  PROVE  TxInv'
<1>1. Left' = Left
  BY DEF Left, got
<1> QED
  BY <1>1 DEF UpInv, TxInv, TxTypeOK, InFlightBounded, unacked, ReportsAcknowledged, InQueued, Waiting

\* The loop is left.
LEMMA LoopEndsStep ==
  ASSUME UpInv, LoopEnds
  PROVE  UpInv'
<1>1. /\ hpc = "loop" /\ buff' = <<>>
      /\ hpc' = IF size # 0 /\ size # bytesWritten THEN "failed" ELSE "success"
      /\ UNCHANGED <<pcb, tx, asked, will_send, size_sent, ret, queued, acked, armed, reported>>
      /\ UNCHANGED <<size, len, readBytes, bytesRead, bytesWritten, next, supplied, ended, unread,
                     handed, short>>
  BY DEF LoopEnds, txvars
<1>2. hpc' \in Ends /\ hpc' # "first" /\ hpc' # "retry" /\ hpc' # "loop"
      /\ (hpc' = "success" /\ size # 0 => bytesWritten = size)
  BY <1>1 DEF Ends
<1>3. TxInv'
  BY <1>1, TxUnchanged, UpNumbers, Numbers
<1>4. UploadTypeOK'
  BY <1>1, <1>2, <1>3 DEF UpInv, UploadTypeOK, TxInv
<1>5. Counts'
  <2>1. /\ Len(handed) = queued /\ next > 0
        /\ bytesWritten + 0 = reported /\ tx = "idle"
    BY <1>1 DEF UpInv, Counts
  <2> QED
    BY <1>1, <1>2, <2>1 DEF Counts
<1>6. BlockFits'
  BY <1>2 DEF BlockFits
<1>7. ~short => Settled'
  BY <1>1, <1>2 DEF UpInv, Settled
<1>8. ExactUntilShort'
  BY <1>1 DEF UpInv, ExactUntilShort
<1> QED
  BY <1>1, <1>2, <1>3, <1>4, <1>5, <1>6, <1>7, <1>8 DEF UpInv

\* What is left to read once a block counts as read.
LEMMA LenAfterIs ==
  ASSUME UpInv, hpc \in {"first", "retry"}
  PROVE  /\ lenAfter \in IF size = 0 THEN {-1} ELSE 0..size
         /\ size # 0 => lenAfter = len - readBytes
<1>1. readBytes > 0 /\ (size # 0 => readBytes <= len)
  BY DEF UpInv, BlockFits
<1> QED
  BY <1>1, UpNumbers DEF lenAfter

\* The first write() of a block has returned, with all of it or with less.
LEMMA FirstReturnedStep ==
  ASSUME UpInv, FirstReturned
  PROVE  UpInv'
<1>1. /\ hpc = "first" /\ tx = "idle" /\ bytesWritten' = bytesWritten + ret
      /\ UNCHANGED <<size, buff, readBytes, bytesRead, next, supplied, ended, unread, handed>>
  BY DEF FirstReturned
<1>2. /\ Len(handed) = queued /\ next > 0
      /\ bytesWritten + ret = reported
      /\ readBytes > 0 /\ bytesRead <= readBytes /\ (size # 0 => readBytes <= len)
  BY <1>1 DEF UpInv, Counts, BlockFits
<1>3. bytesWritten + ret \in Nat
  <2>1. bytesWritten \in Nat /\ ret \in Nat
    BY UpNumbers, TxNumbers
  <2> QED
    BY <2>1
<1>4. ExactUntilShort /\ UploadTypeOK
  BY DEF UpInv
<1>5. CASE ret = bytesRead
  <2>1. /\ hpc' = "loop" /\ len' = lenAfter
        /\ UNCHANGED <<pcb, tx, asked, will_send, size_sent, ret, queued, acked, armed, reported, short>>
    BY <1>5 DEF FirstReturned, txvars
  <2>2. TxInv'
    BY <2>1, TxUnchanged, UpNumbers, Numbers
  <2>3. UploadTypeOK'
    <3>1. len' \in IF size = 0 THEN {-1} ELSE 0..size
      BY <1>1, <2>1, LenAfterIs
    <3> QED
      BY <1>1, <1>3, <1>4, <2>1, <2>2, <3>1 DEF UploadTypeOK, TxInv
  <2>4. Counts'
    <3>1. reported + 0 = reported
      BY TxNumbers
    <3> QED
      BY <1>1, <1>2, <2>1, <3>1 DEF Counts, Ends
  <2>5. BlockFits'
    BY <2>1 DEF BlockFits
  <2>6. ASSUME ~short PROVE Settled'
    <3>1. /\ acked = queued /\ queued = next - 1 /\ (size # 0 => before <= size - len)
      BY <1>1, <1>5, <2>6 DEF UpInv, InBlock
    <3>2. size # 0 => queued <= size - len'
      <4>1. size # 0 => len' = len - readBytes
        BY <1>1, <2>1, LenAfterIs
      <4>2. /\ size \in Nat /\ len \in Int /\ next \in Nat
            /\ readBytes \in Nat /\ bytesRead \in Nat /\ queued \in Nat
        BY UpNumbers, TxNumbers
      <4> QED
        BY <1>2, <3>1, <4>1, <4>2 DEF before
    <3> QED
      BY <1>1, <2>1, <3>1, <3>2 DEF Settled
  <2>7. ExactUntilShort'
    BY <1>1, <1>4, <2>1 DEF ExactUntilShort
  <2> QED
    BY <2>1, <2>2, <2>3, <2>4, <2>5, <2>6, <2>7 DEF UpInv
<1>6. CASE ret # bytesRead
  <2> DEFINE m == (readBytes - ret) % SizeT
  <2>1. /\ hpc' = "retry" /\ short' = TRUE /\ Call(m) /\ UNCHANGED len
    BY <1>6 DEF FirstReturned
  <2>2. m \in Nat
    <3>1. readBytes \in Nat /\ ret \in Nat /\ SizeT \in Nat /\ SizeT > 0
      BY UpNumbers, TxNumbers
    <3>2. readBytes - ret \in Int
      BY <3>1
    <3> QED
      BY <3>1, <3>2
  <2> HIDE DEF m
  <2>3. TxInv'
    BY <2>1, <2>2, CallStep DEF UpInv
  <2>4. ret' = 0 /\ UNCHANGED <<queued, acked, reported>>
    BY <2>1 DEF Call
  <2>5. UploadTypeOK'
    BY <1>1, <1>3, <1>4, <2>1, <2>3 DEF UploadTypeOK, TxInv
  <2>6. Counts'
    <3>1. reported + 0 = reported
      BY TxNumbers
    <3> QED
      BY <1>1, <1>2, <2>1, <2>4, <3>1 DEF Counts, Ends
  <2>7. BlockFits'
    BY <1>1, <1>2, <2>1 DEF BlockFits
  <2>8. ExactUntilShort'
    BY <2>1 DEF ExactUntilShort
  <2> QED
    BY <2>1, <2>3, <2>5, <2>6, <2>7, <2>8 DEF UpInv
<1> QED
  BY <1>5, <1>6

\* The second write() of a block has returned.
LEMMA RetryReturnedStep ==
  ASSUME UpInv, RetryReturned
  PROVE  UpInv'
<1>1. /\ hpc = "retry" /\ tx = "idle" /\ bytesWritten' = bytesWritten + ret
      /\ UNCHANGED <<pcb, tx, asked, will_send, size_sent, ret, queued, acked, armed, reported>>
      /\ UNCHANGED <<size, readBytes, bytesRead, next, supplied, ended, unread, handed, short>>
      /\ hpc' \in {"loop", "failed"}
      /\ buff' \in {buff, <<>>}
      /\ len' \in {len, lenAfter}
  BY DEF RetryReturned, txvars
<1>2. /\ Len(handed) = queued /\ next > 0 /\ bytesWritten + ret = reported
  BY <1>1 DEF UpInv, Counts
<1>3. bytesWritten + ret \in Nat
  <2>1. bytesWritten \in Nat /\ ret \in Nat
    BY UpNumbers, TxNumbers
  <2> QED
    BY <2>1
<1>4. short' /\ short
  BY <1>1 DEF UpInv, Settled
<1>5. TxInv'
  BY <1>1, TxUnchanged, UpNumbers, Numbers
<1>6. UploadTypeOK'
  <2>1. len' \in IF size = 0 THEN {-1} ELSE 0..size
    <3>1. len \in IF size = 0 THEN {-1} ELSE 0..size
      BY DEF UpInv, UploadTypeOK
    <3> QED
      BY <1>1, <3>1, LenAfterIs
  <2>2. buff' \in Seq(Nat)
    <3>1. buff \in Seq(Nat) /\ <<>> \in Seq(Nat)
      BY UpNumbers
    <3> QED
      BY <1>1, <3>1
  <2> QED
    BY <1>1, <1>3, <1>5, <2>1, <2>2 DEF UpInv, UploadTypeOK, TxInv, Ends
<1>7. Counts'
  <2>1. reported + 0 = reported
    BY TxNumbers
  <2> QED
    BY <1>1, <1>2, <2>1 DEF Counts, Ends
<1>8. BlockFits'
  BY <1>1 DEF BlockFits
<1>9. ExactUntilShort'
  BY <1>4 DEF ExactUntilShort
<1> QED
  BY <1>4, <1>5, <1>6, <1>7, <1>8, <1>9 DEF UpInv

\* write() hands the block to lwIP, or as much of it as there is room for.
LEMMA QueueUpload ==
  ASSUME UpInv, UploadWrite, Queue
  PROVE  UpInv'
<1> DEFINE w == WillSend
<1>1. /\ tx = "entered" /\ pcb = "open" /\ will_send' = w /\ queued' = queued + w /\ tx' = "queued"
      /\ UNCHANGED <<pcb, asked, size_sent, ret, acked, armed, reported>>
      /\ UNCHANGED <<size, hpc, buff, len, readBytes, bytesRead, bytesWritten, next, supplied, ended,
                     unread, short>>
      /\ handed' = handed \o Copied(queued' - queued)
  BY DEF UploadWrite, Queue
<1>2. w \in Nat /\ w <= asked /\ queued \in Nat /\ asked \in Nat
  <2>1. /\ SndBuf \in Nat /\ queued \in Nat /\ acked \in Nat /\ asked \in Nat
        /\ queued - acked <= SndBuf
    BY TxNumbers DEF UpInv, TxInv, unacked, InFlightBounded
  <2> QED
    BY <2>1 DEF WillSend, tcp_sndbuf, unacked
<1> HIDE DEF w
<1>3. queued' - queued = w
  BY <1>1, <1>2
<1>4. /\ handed' \in Seq(Nat) /\ Len(handed') = Len(handed) + w
      /\ \A k \in 1..Len(handed) : handed'[k] = handed[k]
      /\ \A k \in 1..Len(handed) + w :
           k > Len(handed) => handed'[k] = At(start + (k - Len(handed)) - 1)
  BY <1>1, <1>2, <1>3, HandedGrows
<1>5. TxInv'
  BY QueueStep DEF UpInv
<1>6. UploadTypeOK'
  BY <1>1, <1>4, <1>5 DEF UpInv, UploadTypeOK, TxInv
<1>7. Counts'
  <2>1. Len(handed) + w = queued + w
    BY DEF UpInv, Counts
  <2> QED
    BY <1>1, <1>4, <2>1 DEF UpInv, Counts
<1>8. BlockFits'
  BY <1>1 DEF UpInv, BlockFits
<1>9. hpc \in {"first", "retry"}
  BY <1>1 DEF UpInv, Counts, UploadTypeOK
<1>10. ASSUME ~short
       PROVE  hpc = "first" /\ InBlock /\ Len(handed) = queued /\ queued = before
              /\ asked = bytesRead /\ start = 1
  BY <1>1, <1>9, <1>10 DEF UpInv, Settled, Counts, InBlock, start
<1>11. ASSUME ~short PROVE InBlock'
  <2>1. before' = before
    BY <1>1 DEF before
  <2>2. HasBlock'
    BY <1>1, <1>10, <1>11, <2>1 DEF InBlock, HasBlock, At
  <2>3. queued + w <= next - 1
    <3>1. next \in Nat /\ bytesRead \in Nat
      BY UpNumbers
    <3> QED
      BY <1>2, <1>10, <1>11, <3>1 DEF before
  <2>4. /\ before' \in Nat /\ before' <= acked' /\ queued' <= next' - 1
        /\ queued' = before' + will_send' /\ asked' = bytesRead' /\ tx' = "queued"
        /\ bytesRead' > 0
        /\ size' # 0 => before' <= size' - len'
    BY <1>1, <1>10, <1>11, <2>1, <2>3 DEF InBlock
  <2> QED
    BY <2>2, <2>4 DEF InBlock
<1>12. ExactUntilShort'
  <2> SUFFICES ASSUME ~short, NEW k \in 1..Len(handed') PROVE handed'[k] = k
    BY <1>1 DEF ExactUntilShort
  <2>1. CASE k \in 1..Len(handed)
    BY <1>4, <2>1 DEF UpInv, ExactUntilShort
  <2>2. CASE k > Len(handed)
    <3>1. k \in 1..Len(handed) + w /\ handed'[k] = At(start + (k - Len(handed)) - 1)
      BY <1>4, <2>2
    <3>2. start + (k - Len(handed)) - 1 = k - before /\ k - before \in 1..bytesRead
          /\ before + (k - before) = k
      <4>1. /\ start = 1 /\ before \in Nat /\ Len(handed) = before /\ w <= bytesRead
            /\ bytesRead \in Nat /\ k \in 1..before + w /\ k > before
        BY <1>2, <1>10, <2>2, <3>1, UpNumbers DEF InBlock
      <4> QED
        BY <1>2, <4>1
    <3> QED
      BY <1>10, <3>1, <3>2 DEF InBlock, HasBlock
  <2> QED
    BY <1>4, <2>1, <2>2, UpNumbers
<1> QED
  BY <1>1, <1>5, <1>6, <1>7, <1>8, <1>10, <1>11, <1>12 DEF UpInv

\* A step of write() that hands over nothing.
LEMMA QuietWrite ==
  ASSUME UpInv, TxInv', UploadWrite, UNCHANGED <<asked, queued, acked>>,
         reported' = reported + ret', tx' # "idle" => ret' = 0, tx # "idle",
         tx' # "entered",
         tx' \in {"queued", "wait"} => tx = "queued" /\ will_send' = will_send,
         tx' = "wait" => armed' = acked,
         hpc = "first" /\ InBlock /\ tx' = "idle" /\ ret' = bytesRead
           => acked = queued /\ queued = next - 1
  PROVE  UpInv'
<1>1. /\ UNCHANGED <<size, hpc, buff, len, readBytes, bytesRead, bytesWritten, next, supplied, ended,
                     unread, short>>
      /\ handed' = handed \o Copied(queued' - queued)
  BY DEF UploadWrite
<1>2. queued' - queued = 0
  <2>1. queued \in Nat
    BY TxNumbers
  <2> QED
    BY <2>1
<1>3. /\ handed' \in Seq(Nat) /\ Len(handed') = Len(handed) + 0
      /\ \A k \in 1..Len(handed) : handed'[k] = handed[k]
  <2>1. handed' = handed \o Copied(0)
    BY <1>1, <1>2
  <2> QED
    BY <2>1, HandedGrows
<1>4. Len(handed') = Len(handed)
  BY <1>3, UpNumbers
<1>5. UploadTypeOK'
  BY <1>1, <1>3 DEF UpInv, UploadTypeOK, TxInv
<1>6. hpc \in {"first", "retry"} /\ ret = 0
  BY DEF UpInv, Counts, UploadTypeOK
<1>7. Counts'
  <2>1. bytesWritten = reported /\ bytesWritten' + ret' = reported'
    <3>1. bytesWritten \in Nat
      BY UpNumbers
    <3>2. bytesWritten + 0 = reported
      BY <1>6 DEF UpInv, Counts
    <3> QED
      BY <1>1, <3>1, <3>2
  <2> QED
    BY <1>1, <1>4, <1>6, <2>1 DEF UpInv, Counts, Ends
<1>8. BlockFits'
  BY <1>1 DEF UpInv, BlockFits
<1>9. ASSUME ~short PROVE hpc = "first" /\ InBlock'
  <2>1. hpc = "first" /\ InBlock
    BY <1>6, <1>9 DEF UpInv, Settled
  <2>2. before' = before
    BY <1>1 DEF before
  <2>3. HasBlock'
    BY <1>1, <2>1, <2>2 DEF InBlock, HasBlock, At
  <2>4. /\ before' \in Nat /\ before' <= acked' /\ queued' <= next' - 1
        /\ asked' = bytesRead'
        /\ size' # 0 => before' <= size' - len'
        /\ bytesRead' > 0
    BY <1>1, <2>1, <2>2 DEF InBlock
  <2>5. /\ tx' \in {"queued", "wait"} => queued' = before' + will_send'
        /\ tx' = "wait" => before' <= armed'
        /\ tx' = "idle" /\ ret' = bytesRead' => acked' = queued' /\ queued' = next' - 1
    BY <1>1, <2>1, <2>2 DEF InBlock
  <2> QED
    BY <2>1, <2>3, <2>4, <2>5 DEF InBlock
<1>10. ExactUntilShort'
  BY <1>1, <1>3, <1>4 DEF UpInv, ExactUntilShort
<1> QED
  BY <1>1, <1>5, <1>7, <1>8, <1>9, <1>10 DEF UpInv

\* write() takes a step.
LEMMA UploadWriteStep ==
  ASSUME UpInv, UploadWrite
  PROVE  UpInv'
<1>1. CASE Queue
  BY <1>1, QueueUpload
<1>2. CASE QueueFails \/ Arm \/ Fault
  <2>1. /\ tx \in {"entered", "queued"} /\ UNCHANGED <<ret, reported, asked, queued, acked>>
        /\ tx' # "entered"
        /\ tx' \in {"queued", "wait"} => tx = "queued" /\ will_send' = will_send
        /\ tx' = "wait" => armed' = acked
    BY <1>2 DEF QueueFails, Arm, Fault
  <2>2. ret = 0 /\ reported' = reported + ret'
    <3>1. ret = 0
      BY <2>1 DEF UpInv, Counts
    <3> QED
      BY <2>1, <3>1, UpNumbers, TxNumbers
  <2>3. TxInv'
    BY <1>2, TxStep DEF UpInv, TxNext, WriteStep
  <2>4. InBlock => bytesRead > 0
    BY <2>1 DEF InBlock
  <2> QED
    BY <2>1, <2>2, <2>3, <2>4, UpNumbers, QuietWrite
<1>3. CASE Return \/ Timeout
  <2>1. tx = "wait" /\ Claim
    BY <1>3 DEF Return, Timeout
  <2>2. TxInv' /\ ret' = got
    BY <2>1, ClaimStep DEF UpInv
  <2>3. /\ tx' = "idle" /\ UNCHANGED <<asked, queued, acked>> /\ reported' = reported + ret'
    BY <2>1 DEF Claim
  <2>4. ASSUME hpc = "first", InBlock, ret' = bytesRead
        PROVE  acked = queued /\ queued = next - 1
    <3>1. /\ queued = before + will_send /\ before <= armed /\ asked = bytesRead
          /\ before = next - 1 - bytesRead
      BY <2>1, <2>4 DEF InBlock, before
    <3>2. will_send <= asked /\ acked <= queued
      BY <2>1 DEF UpInv, TxInv, InQueued, InFlightBounded
    <3>3. acked - armed = asked
      BY <2>2, <2>4, <3>1 DEF got
    <3>4. /\ queued \in Nat /\ acked \in Nat /\ armed \in Nat /\ asked \in Nat /\ will_send \in Nat
          /\ next \in Nat /\ bytesRead \in Nat
      BY UpNumbers, TxNumbers
    <3> QED
      BY <3>1, <3>2, <3>3, <3>4
  <2> QED
    BY <2>1, <2>2, <2>3, <2>4, QuietWrite
<1> QED
  BY <1>1, <1>2, <1>3 DEF UploadWrite, WriteStep

\* The peer acknowledges n bytes.
LEMMA UploadSentStep ==
  ASSUME UpInv, NEW n \in 1..SndBuf, UploadSent(n)
  PROVE  UpInv'
<1>1. /\ Sent(n)
      /\ UNCHANGED <<size, hpc, buff, len, readBytes, bytesRead, bytesWritten, next, supplied, ended,
                     unread, handed, short>>
  BY DEF UploadSent, upvars
<1>2. n \in Nat /\ n > 0
  BY TxAssumption
<1>3. /\ n <= queued - acked /\ acked' = acked + n
      /\ UNCHANGED <<pcb, tx, asked, will_send, ret, queued, armed, reported>>
  BY <1>1, <1>2, TxNumbers DEF Sent, unacked
<1>4. TxInv'
  BY <1>1, <1>2, SentStep DEF UpInv
<1>5. UploadTypeOK'
  BY <1>1, <1>4 DEF UpInv, UploadTypeOK, TxInv
<1>6. Counts'
  BY <1>1, <1>3 DEF UpInv, Counts
<1>7. BlockFits'
  BY <1>1 DEF UpInv, BlockFits
<1>8. before' = before
  BY <1>1 DEF before
<1>9. ASSUME ~short PROVE hpc = "first" /\ InBlock'
  <2>0. acked \in Nat /\ queued \in Nat
    BY TxNumbers
  <2>1. acked # queued
    BY <1>2, <1>3, <2>0
  <2>2. hpc = "first" /\ InBlock
    BY <1>9, <2>1 DEF UpInv, Settled
  <2>3. before \in Nat /\ before <= acked + n
    <3>1. before \in Nat /\ before <= acked
      BY <2>2 DEF InBlock
    <3> QED
      BY <1>2, <2>0, <3>1
  <2>4. ~(tx = "idle" /\ ret = bytesRead)
    BY <2>1, <2>2 DEF InBlock
  <2> QED
    BY <1>1, <1>3, <1>8, <2>2, <2>3, <2>4 DEF InBlock, HasBlock, At
<1>10. ExactUntilShort'
  BY <1>1 DEF UpInv, ExactUntilShort
<1> QED
  BY <1>1, <1>4, <1>5, <1>6, <1>7, <1>9, <1>10 DEF UpInv

\* A step of the peer or of the source that write() and the loop do not see yet.
LEMMA UploadIdleStep ==
  ASSUME UpInv, pcb' \in {"open", "none"}, supplied' \in Nat, ended' \in BOOLEAN, unread' \in BOOLEAN,
         UNCHANGED <<size, hpc, buff, len, readBytes, bytesRead, bytesWritten, next, handed, short>>,
         UNCHANGED <<tx, asked, will_send, size_sent, ret, queued, acked, armed, reported>>
  PROVE  UpInv'
<1>1. TxInv'
  BY TxUnchanged
<1>2. UploadTypeOK'
  BY <1>1 DEF UpInv, UploadTypeOK, TxInv
<1>3. Counts' /\ BlockFits' /\ ExactUntilShort'
  BY DEF UpInv, Counts, BlockFits, ExactUntilShort
<1>4. before' = before
  BY DEF before
<1>5. ~short => IF hpc = "first" THEN InBlock' ELSE Settled'
  BY <1>4 DEF UpInv, InBlock, Settled, HasBlock, At
<1> QED
  BY <1>1, <1>2, <1>3, <1>5 DEF UpInv

\* The inductive invariant of the upload.
LEMMA UploadInvariance == UploadSpec => []UpInv
<1>1. ASSUME UploadInit PROVE UpInv
  <2>1. TxInv
    BY <1>1, TxAssumption DEF UploadInit, TxInit, TxInv, TxTypeOK, TxPlaces, InFlightBounded, unacked,
       ReportsAcknowledged, InQueued, Waiting
  <2>2. <<>> \in Seq(Nat) /\ Len(<<>>) = 0
    OBVIOUS
  <2>3. size \in Nat /\ len = IF size = 0 THEN -1 ELSE size
    BY <1>1, UploadAssumption DEF UploadInit
  <2>4. UploadTypeOK
    <3>1. len \in IF size = 0 THEN {-1} ELSE 0..size
      BY <2>3
    <3>2. buff_size \in Nat
      BY <2>3, UploadAssumption DEF buff_size
    <3>3. buff \in Seq(Nat)
      <4>1. buff = [i \in 1..buff_size |-> 0]
        BY <1>1 DEF UploadInit
      <4> QED
        BY <3>2, <4>1
    <3> QED
      BY <1>1, <2>1, <2>2, <3>1, <3>3 DEF UploadInit, UploadTypeOK, TxInv
  <2>5. Counts /\ BlockFits /\ ExactUntilShort
    BY <1>1, <2>2 DEF UploadInit, TxInit, Counts, BlockFits, ExactUntilShort, Ends
  <2>6. Settled /\ hpc # "first"
    BY <1>1, <2>3 DEF UploadInit, TxInit, Settled
  <2> QED
    BY <2>1, <2>4, <2>5, <2>6 DEF UpInv
<1>2. ASSUME UpInv, [UploadNext]_allvars PROVE UpInv'
  <2>1. CASE UploadDisconnected \/ EarlyAnswer \/ Supply \/ StreamEnds \/ UNCHANGED allvars
    <3>1. /\ pcb \in {"open", "none"} /\ ended \in BOOLEAN /\ unread \in BOOLEAN
          /\ supplied \in Nat /\ supplied + 1 \in Nat
      BY <1>2, UpNumbers, Numbers DEF UpInv, UploadTypeOK
    <3>2. /\ UNCHANGED <<size, hpc, buff, len, readBytes, bytesRead, bytesWritten, next, handed, short>>
          /\ UNCHANGED <<tx, asked, will_send, size_sent, ret, queued, acked, armed, reported>>
          /\ pcb' \in {pcb, "none"} /\ supplied' \in {supplied, supplied + 1}
          /\ ended' \in {ended, TRUE} /\ unread' \in {unread, TRUE}
      BY <2>1 DEF UploadDisconnected, Disconnected, EarlyAnswer, Supply, StreamEnds, allvars, txvars,
         upvars
    <3>3. /\ pcb' \in {"open", "none"} /\ supplied' \in Nat
          /\ ended' \in BOOLEAN /\ unread' \in BOOLEAN
      BY <3>1, <3>2
    <3> QED
      BY <1>2, <3>2, <3>3, UploadIdleStep
  <2> QED
    BY <1>2, <2>1, ReadBlockStep, LoopEndsStep, FirstReturnedStep, RetryReturnedStep,
       UploadWriteStep, UploadSentStep DEF UploadNext, UploadStep
<1> QED
  BY <1>1, <1>2, PTL DEF UploadSpec

\* For every buffer, send buffer and size: until a write() reports less than it
\* was asked, the peer is sent the bytes of the source, however lwIP truncates
\* the writes and the source the reads; and a request reported complete has been
\* delivered.
THEOREM UploadIsSound == UploadSpec => []UploadSound
<1>1. ASSUME UpInv PROVE UploadSound
  <2>1. UploadTypeOK /\ ExactUntilShort
    BY <1>1 DEF UpInv
  <2>2. ASSUME hpc = "success", size # 0
        PROVE  acked >= size /\ (~short => Len(handed) = size)
    <3>1. /\ reported <= acked /\ bytesWritten = size /\ bytesWritten + 0 = reported
          /\ Len(handed) = queued
      BY <1>1, <2>2 DEF UpInv, TxInv, ReportsAcknowledged, Counts
    <3>2. acked >= size
      <4>1. acked \in Nat /\ reported \in Nat /\ bytesWritten \in Nat
        BY <1>1, UpNumbers, TxNumbers
      <4> QED
        BY <3>1, <4>1
    <3>3. ASSUME ~short PROVE Len(handed) = size
      <4>1. acked = queued /\ queued <= size - len
        BY <1>1, <2>2, <3>3 DEF UpInv, Settled
      <4>2. queued \in Nat /\ acked \in Nat /\ size \in Nat /\ len \in Int /\ len >= 0
        BY <1>1, <2>2, UpNumbers, TxNumbers
      <4> QED
        BY <3>1, <3>2, <4>1, <4>2
    <3> QED
      BY <3>2, <3>3
  <2> QED
    BY <2>1, <2>2 DEF UploadSound, SuccessIsDelivered
<1> QED
  BY <1>1, UploadInvariance, PTL

\* Under the upload, too, write() claims only what _sent() was told of.
THEOREM UploadIsHonest == UploadSpec => []ReportsAcknowledged
<1>1. UpInv => ReportsAcknowledged
  BY DEF UpInv, TxInv
<1> QED
  BY <1>1, UploadInvariance, PTL
===============================================================================
