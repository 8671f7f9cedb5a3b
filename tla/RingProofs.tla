------------------------------ MODULE RingProofs ------------------------------
(***************************************************************************)
(* Proofs about the two rings of the core: the ring of bytes cbuf, for     *)
(* every ring size, every source and every count, as long as nobody        *)
(* shrinks it to exactly the number of stored bytes; and the ring of I2S   *)
(* buffers, for every number and size of buffers and every interleaving of *)
(* the DMA engine, its interrupt handler and the writer.                   *)
(***************************************************************************)
EXTENDS Cbuf, I2sDma, SequenceTheorems, TLAPS

\* The inductive invariant: indices inside the ring, no memory, and only
\* written bytes between them.
IInv == TypeOK /\ InBounds /\ OnlyWrittenBytes

\* A difference that is below 2^w is not changed by size_t arithmetic.
LEMMA ModSmall ==
  ASSUME NEW m \in Nat, NEW x \in Nat, x < m
  PROVE  x % m = x
OBVIOUS

\* available() and room() of a ring with indices inside it.
LEMMA Measures ==
  ASSUME TypeOK
  PROVE  /\ available \in 0..size - 1
         /\ room = size - 1 - available
         /\ size \in Nat \ {0} /\ size < SizeT
<1>1. size \in Nat \ {0} /\ size < SizeT /\ SizeT \in Nat
  BY CbufAssumption DEF TypeOK
<1>2. available \in 0..size - 1
  BY <1>1 DEF TypeOK, available
<1>3. CASE end >= begin
  <2>1. size - (end - begin) - 1 \in Nat /\ size - (end - begin) - 1 < SizeT
    BY <1>1, <1>3 DEF TypeOK
  <2>2. (size - (end - begin) - 1) % SizeT = size - (end - begin) - 1
    BY <1>1, <2>1, ModSmall
  <2>3. room = size - (end - begin) - 1 /\ available = end - begin
    BY <1>3, <2>2 DEF available, room
  <2> QED BY <1>1, <1>2, <2>3 DEF TypeOK
<1>4. CASE ~(end >= begin)
  <2>1. begin - end - 1 \in Nat /\ begin - end - 1 < SizeT
    BY <1>1, <1>4 DEF TypeOK
  <2>2. (begin - end - 1) % SizeT = begin - end - 1
    BY <1>1, <2>1, ModSmall
  <2>3. room = begin - end - 1 /\ available = size - (begin - end)
    BY <1>4, <2>2 DEF available, room
  <2> QED BY <1>1, <1>2, <2>3 DEF TypeOK
<1> QED BY <1>1, <1>2, <1>3, <1>4

\* A concatenation, element by element.
LEMMA Joined ==
  ASSUME NEW S, NEW s \in Seq(S), NEW t \in Seq(S)
  PROVE  s \o t = [i \in 1..Len(s) + Len(t) |-> IF i <= Len(s) THEN s[i] ELSE t[i - Len(s)]]
<1> DEFINE u == s \o t
<1>1. u \in Seq(S) /\ Len(u) = Len(s) + Len(t)
  BY ConcatProperties
<1>2. \A i \in 1..Len(s) + Len(t) : u[i] = IF i <= Len(s) THEN s[i] ELSE t[i - Len(s)]
  BY ConcatProperties
<1> HIDE DEF u
<1>3. u = [i \in 1..Len(s) + Len(t) |-> u[i]]
  BY <1>1, LenProperties
<1>4. u = [i \in 1..Len(s) + Len(t) |-> IF i <= Len(s) THEN s[i] ELSE t[i - Len(s)]]
  BY <1>2, <1>3
<1> QED BY <1>4 DEF u

\* Copying out in one or two pieces yields the first n bytes around the ring.
LEMMA FrontIsPrefix ==
  ASSUME TypeOK, NEW n \in 0..available
  PROVE  /\ Front(n) = [i \in 1..n |-> buf[RingAt(i)]]
         /\ \A i \in 1..n : RingAt(i) \in 0..size - 1
<1>1. size \in Nat \ {0} /\ begin \in 0..size - 1 /\ end \in 0..size - 1 /\ available \in 0..size - 1
  BY Measures DEF TypeOK
<1>2. \A i \in 1..n : RingAt(i) \in 0..size - 1
  BY <1>1 DEF RingAt
<1>3. CASE end < begin /\ n > size - begin
  <2> DEFINE S == Byte \cup {Junk, 0}
             m == size - begin
             a == Slice(begin, m)
             b == Slice(0, n - m)
  <2>1. m \in 1..n /\ n - m \in 0..begin /\ n \in Nat
    BY <1>1, <1>3 DEF available
  <2>2. a \in Seq(S) /\ Len(a) = m
    BY <1>1, <2>1 DEF Slice, TypeOK
  <2>3. b \in Seq(S) /\ Len(b) = n - m
    BY <1>1, <2>1 DEF Slice, TypeOK
  <2>4. \A i \in 1..m : a[i] = buf[begin + i - 1]
    BY DEF Slice
  <2>5. \A i \in 1..n - m : b[i] = buf[i - 1]
    BY DEF Slice
  <2>6. Front(n) = a \o b
    BY <1>3 DEF Front
  <2>7. \A i \in 1..n : RingAt(i) = IF i <= m THEN begin + i - 1 ELSE i - m - 1
    BY <1>1 DEF RingAt
  <2> HIDE DEF S, m, a, b
  <2>8. a \o b = [i \in 1..n |-> IF i <= m THEN a[i] ELSE b[i - m]]
    <3>1. m + (n - m) = n
      BY <2>1
    <3>2. a \o b = [i \in 1..Len(a) + Len(b) |-> IF i <= Len(a) THEN a[i] ELSE b[i - Len(a)]]
      BY <2>2, <2>3, Joined
    <3> QED BY <2>2, <2>3, <3>1, <3>2
  <2>9. ASSUME NEW i \in 1..n PROVE (IF i <= m THEN a[i] ELSE b[i - m]) = buf[RingAt(i)]
    <3>1. CASE i <= m
      BY <2>1, <2>4, <2>7, <3>1
    <3>2. CASE ~(i <= m)
      <4>1. i - m \in 1..n - m
        BY <2>1, <3>2
      <4>2. b[i - m] = buf[(i - m) - 1]
        BY <2>5, <4>1
      <4> QED BY <2>7, <3>2, <4>2
    <3> QED BY <3>1, <3>2
  <2> QED BY <1>2, <2>6, <2>8, <2>9
<1>4. CASE ~(end < begin /\ n > size - begin)
  <2>1. Front(n) = [i \in 1..n |-> buf[begin + i - 1]]
    BY <1>4 DEF Front, Slice
  <2>2. \A i \in 1..n : RingAt(i) = begin + i - 1
    BY <1>1, <1>4 DEF RingAt, available
  <2> QED BY <1>2, <2>1, <2>2
<1> QED BY <1>3, <1>4

\* Taking n bytes leaves the rest where they are, n places further on.
LEMMA AdvanceIsShift ==
  ASSUME TypeOK, NEW n \in 0..available
  PROVE  /\ Advance(n) \in 0..size - 1
         /\ (IF end >= Advance(n) THEN end - Advance(n) ELSE size - (Advance(n) - end))
              = available - n
         /\ \A i \in 1..available - n :
               (IF Advance(n) + i - 1 < size THEN Advance(n) + i - 1
                                             ELSE Advance(n) + i - 1 - size) = RingAt(n + i)
<1>1. size \in Nat \ {0} /\ begin \in 0..size - 1 /\ end \in 0..size - 1 /\ available \in 0..size - 1
  BY Measures DEF TypeOK
<1>2. n \in Nat /\ n <= available
  BY <1>1
<1>3. Advance(n) = IF begin + n < size THEN begin + n ELSE begin + n - size
  BY <1>1, <1>2 DEF Advance, wrap_if_bufend, available
<1>4. Advance(n) \in 0..size - 1
  BY <1>1, <1>2, <1>3
<1>5. (IF end >= Advance(n) THEN end - Advance(n) ELSE size - (Advance(n) - end)) = available - n
  BY <1>1, <1>2, <1>3 DEF available
<1>6. ASSUME NEW i \in 1..available - n
      PROVE  (IF Advance(n) + i - 1 < size THEN Advance(n) + i - 1
                                           ELSE Advance(n) + i - 1 - size) = RingAt(n + i)
  BY <1>1, <1>2, <1>3 DEF RingAt
<1> QED BY <1>4, <1>5, <1>6

\* A write of at most room() bytes touches no stored byte and stays inside
\* the allocation, and what it stores comes right after the stored bytes.
LEMMA WriteEffect ==
  ASSUME TypeOK, NEW src \in Seq(Byte), Write(src)
  PROVE  /\ memory' = "intact"
         /\ end' \in 0..size - 1
         /\ buf' \in [0..size - 1 -> Byte \cup {Junk, 0}]
         /\ ret' = Smaller(Len(src), size - 1 - available)
         /\ available' = available + ret'
         /\ \A i \in 1..available : buf'[RingAt(i)] = buf[RingAt(i)]
         /\ \A k \in 1..ret' : buf'[RingAt(available + k)] = src[k]
<1> DEFINE n == Smaller(Len(src), size - 1 - available)
           top == size - end
<1>1. size \in Nat \ {0} /\ begin \in 0..size - 1 /\ end \in 0..size - 1
  BY Measures DEF TypeOK
<1>2. available \in 0..size - 1
  BY Measures
<1>3. ret' = n
  BY Measures DEF Write
<1>4. Len(src) \in Nat /\ \A i \in 1..Len(src) : src[i] \in Byte
  OBVIOUS
<1>5. n \in Nat /\ n <= size - 1 - available /\ n <= Len(src)
  BY <1>1, <1>2, <1>4 DEF Smaller
<1>6. size' = size /\ begin' = begin
  BY DEF Write
<1>7. \A i \in 1..available : RingAt(i) \in 0..size - 1
  BY <1>1, <1>2 DEF RingAt
<1> HIDE DEF n
<1>8. CASE end >= begin /\ n > top
  <2> DEFINE x == SubSeq(src, 1, top)
             y == SubSeq(src, top + 1, n)
  <2>0. available = end - begin
    BY <1>8 DEF available
  <2>1. top \in 1..size /\ top \in Int /\ n - top \in 1..begin - 1
    BY <1>1, <1>5, <1>8, <2>0
  <2>2. Len(x) = top /\ \A i \in 1..top : x[i] = src[i]
    BY <1>1, <1>4, <1>5, <1>8, <2>1, SubSeqProperties
  <2>3. Len(y) = n - top /\ \A i \in 1..n - top : y[i] = src[top + i]
    <3>1. \A i \in top + 1..n : src[i] \in Byte
      BY <1>4, <1>5, <2>1
    <3>2. top + 1 \in Int /\ n \in Int /\ top + 1 <= n /\ n - (top + 1) + 1 = n - top
      BY <1>5, <2>1
    <3>3. Len(y) = n - (top + 1) + 1 /\ \A i \in 1..n - (top + 1) + 1 : y[i] = src[(top + 1) + i - 1]
      BY <3>1, <3>2, SubSeqProperties
    <3>4. \A i \in 1..n - top : (top + 1) + i - 1 = top + i
      BY <2>1
    <3> QED BY <3>2, <3>3, <3>4
  <2>4. /\ buf' = MemCpy(MemCpy(buf, end, x), 0, y)
        /\ end' = wrap_if_bufend(n - top)
        /\ memory' = After(n - top > size)
    BY <1>8, Measures DEF Write, n
  <2> HIDE DEF x, y
  <2>5. buf' = [j \in 0..size - 1 |->
                  IF j < n - top THEN y[j + 1] ELSE IF end <= j THEN x[j - end + 1] ELSE buf[j]]
    <3>1. MemCpy(buf, end, x) = [j \in 0..size - 1 |-> IF end <= j THEN x[j - end + 1] ELSE buf[j]]
      BY <1>1, <2>1, <2>2 DEF MemCpy, TypeOK
    <3> DEFINE w == MemCpy(buf, end, x)
    <3>2. DOMAIN w = 0..size - 1 /\ \A j \in 0..size - 1 : w[j] = IF end <= j THEN x[j - end + 1] ELSE buf[j]
      BY <3>1
    <3> HIDE DEF w
    <3>3. MemCpy(w, 0, y) = [j \in 0..size - 1 |-> IF j < n - top THEN y[j + 1] ELSE w[j]]
      BY <1>1, <2>1, <2>3, <3>2 DEF MemCpy
    <3> QED BY <2>4, <3>2, <3>3 DEF w
  <2>6. end' = n - top /\ memory' = "intact"
    <3>1. wrap_if_bufend(n - top) = n - top /\ ~(n - top > size)
      BY <1>1, <2>1 DEF wrap_if_bufend
    <3> QED BY <2>4, <3>1 DEF After
  <2>7. available' = available + n
    BY <1>1, <1>6, <1>5, <2>0, <2>1, <2>6 DEF available
  <2>8. buf' \in [0..size - 1 -> Byte \cup {Junk, 0}]
    <3>1. ASSUME NEW j \in 0..size - 1
          PROVE (IF j < n - top THEN y[j + 1] ELSE IF end <= j THEN x[j - end + 1] ELSE buf[j]) \in Byte \cup {Junk, 0}
      <4>1. CASE j < n - top
        BY <1>4, <1>5, <2>1, <2>3, <4>1
      <4>2. CASE ~(j < n - top) /\ end <= j
        BY <1>1, <1>4, <1>5, <1>8, <2>1, <2>2, <4>2
      <4>3. CASE ~(j < n - top) /\ ~(end <= j)
        BY <4>3 DEF TypeOK
      <4> QED BY <4>1, <4>2, <4>3
    <3> QED BY <2>5, <3>1
  <2>9. ASSUME NEW i \in 1..available PROVE buf'[RingAt(i)] = buf[RingAt(i)]
    <3>1. RingAt(i) \in 0..size - 1 /\ ~(RingAt(i) < n - top) /\ ~(end <= RingAt(i))
      BY <1>1, <1>8, <2>0, <2>1 DEF RingAt
    <3> QED BY <2>5, <3>1
  <2>10. ASSUME NEW k \in 1..n PROVE buf'[RingAt(available + k)] = src[k]
    <3>1. CASE k <= top
      <4>1. RingAt(available + k) = end + k - 1 /\ end + k - 1 \in 0..size - 1 /\ ~(end + k - 1 < n - top)
        BY <1>1, <1>5, <1>8, <2>0, <2>1, <3>1 DEF RingAt
      <4>2. buf'[end + k - 1] = x[k]
        BY <1>1, <2>1, <2>5, <4>1
      <4> QED BY <2>1, <2>2, <3>1, <4>1, <4>2
    <3>2. CASE ~(k <= top)
      <4>1. RingAt(available + k) = k - top - 1 /\ k - top - 1 \in 0..size - 1 /\ k - top - 1 < n - top
        BY <1>1, <1>5, <1>8, <2>0, <2>1, <3>2 DEF RingAt
      <4>2. buf'[k - top - 1] = y[k - top] /\ k - top \in 1..n - top
        BY <1>1, <1>5, <2>1, <2>5, <3>2, <4>1
      <4>3. y[k - top] = src[top + (k - top)] /\ top + (k - top) = k
        BY <2>1, <2>3, <4>2
      <4> QED BY <4>1, <4>2, <4>3
    <3> QED BY <3>1, <3>2
  <2> QED BY <1>1, <1>3, <2>1, <2>6, <2>7, <2>8, <2>9, <2>10 DEF n
<1>9. CASE ~(end >= begin /\ n > top)
  <2> DEFINE x == SubSeq(src, 1, n)
  <2>0. available = IF end >= begin THEN end - begin ELSE size - (begin - end)
    BY DEF available
  <2>1. end + n <= size /\ (end < begin => end + n < begin)
    BY <1>1, <1>5, <1>9, <2>0
  <2>2. Len(x) = n /\ \A i \in 1..n : x[i] = src[i]
    BY <1>4, <1>5, <1>2, <1>1, SubSeqProperties
  <2>3. /\ buf' = MemCpy(buf, end, x)
        /\ end' = wrap_if_bufend(end + n)
        /\ memory' = After(end + n > size)
    BY <1>9, Measures DEF Write, n
  <2> HIDE DEF x
  <2>4. buf' = [j \in 0..size - 1 |-> IF end <= j /\ j < end + n THEN x[j - end + 1] ELSE buf[j]]
    BY <2>2, <2>3 DEF MemCpy, TypeOK
  <2>5. memory' = "intact" /\ end' \in 0..size - 1 /\ end' = IF end + n = size THEN 0 ELSE end + n
    <3>1. ~(end + n > size) /\ wrap_if_bufend(end + n) \in 0..size - 1
      BY <1>1, <1>5, <2>1 DEF wrap_if_bufend
    <3> QED BY <2>3, <3>1 DEF wrap_if_bufend, After
  <2>6. available' = available + n
    BY <1>1, <1>5, <1>6, <2>1, <2>5 DEF available
  <2>7. buf' \in [0..size - 1 -> Byte \cup {Junk, 0}]
    <3>1. ASSUME NEW j \in 0..size - 1
          PROVE (IF end <= j /\ j < end + n THEN x[j - end + 1] ELSE buf[j]) \in Byte \cup {Junk, 0}
      <4>1. CASE end <= j /\ j < end + n
        BY <1>1, <1>2, <1>4, <1>5, <2>2, <4>1
      <4>2. CASE ~(end <= j /\ j < end + n)
        BY <4>2 DEF TypeOK
      <4> QED BY <4>1, <4>2
    <3> QED BY <2>4, <3>1
  <2>8. ASSUME NEW i \in 1..available PROVE buf'[RingAt(i)] = buf[RingAt(i)]
    <3>1. RingAt(i) \in 0..size - 1 /\ ~(end <= RingAt(i) /\ RingAt(i) < end + n)
      BY <1>1, <1>5, <2>0, <2>1 DEF RingAt
    <3> QED BY <2>4, <3>1
  <2>9. ASSUME NEW k \in 1..n PROVE buf'[RingAt(available + k)] = src[k]
    <3>1. RingAt(available + k) = end + k - 1 /\ end + k - 1 \in 0..size - 1
      BY <1>1, <1>5, <2>0, <2>1 DEF RingAt
    <3>2. buf'[end + k - 1] = x[k]
      BY <1>1, <1>2, <1>5, <2>4, <3>1
    <3> QED BY <2>2, <3>1, <3>2
  <2> QED BY <1>3, <2>5, <2>6, <2>7, <2>8, <2>9 DEF n
<1> QED BY <1>8, <1>9

\* Reading, peeking and writing one byte are the counted operations with 1.
LEMMA CharOps ==
  ASSUME TypeOK
  PROVE  /\ ReadChar => Read(1)
         /\ PeekChar => Peek(1)
         /\ \A c \in Byte : WriteChar(c) => Write(<<c>>)
<1>1. size \in Nat \ {0} /\ begin \in 0..size - 1 /\ end \in 0..size - 1 /\ available \in 0..size - 1
  BY Measures DEF TypeOK
<1>2. empty <=> available = 0
  BY <1>1 DEF empty, available
<1>3. full <=> size - 1 - available = 0
  BY <1>1 DEF full, wrap_if_bufend, available
<1>4. Smaller(1, available) = IF empty THEN 0 ELSE 1
  BY <1>1, <1>2 DEF Smaller
<1>5. Front(IF empty THEN 0 ELSE 1) = IF empty THEN <<>> ELSE <<buf[begin]>>
  <2>1. CASE empty
    <3>1. Front(0) = [i \in 1..0 |-> buf[RingAt(i)]]
      BY <1>1, FrontIsPrefix
    <3> QED BY <2>1, <3>1
  <2>2. CASE ~empty
    <3>1. Front(1) = [i \in 1..1 |-> buf[RingAt(i)]]
      <4>1. 1 \in 0..available
        BY <1>1, <1>2, <2>2
      <4> QED BY <4>1, FrontIsPrefix
    <3>2. RingAt(1) = begin
      BY <1>1 DEF RingAt
    <3> QED BY <2>2, <3>1, <3>2
  <2> QED BY <2>1, <2>2
<1>6. Advance(IF empty THEN 0 ELSE 1) = IF empty THEN begin ELSE wrap_if_bufend(begin + 1)
  BY <1>1 DEF Advance, wrap_if_bufend, empty
<1>7. ReadChar => Read(1)
  BY <1>4, <1>5, <1>6 DEF ReadChar, Read
<1>8. PeekChar => Peek(1)
  BY <1>4, <1>5 DEF PeekChar, Peek
<1>9. ASSUME NEW c \in Byte, WriteChar(c) PROVE Write(<<c>>)
  <2>1. room = size - 1 - available /\ Len(<<c>>) = 1
    BY Measures
  <2>2. CASE full
    <3>1. Smaller(Len(<<c>>), room) = 0
      BY <1>1, <1>3, <2>1, <2>2 DEF Smaller
    <3>2. SubSeq(<<c>>, 1, 0) = <<>>
      BY SubSeqEmpty
    <3>3. MemCpy(buf, end, <<>>) = buf
      BY <1>1 DEF MemCpy, TypeOK
    <3>4. wrap_if_bufend(end + 0) = end /\ ~(0 > size - end) /\ ~(end + 0 > size)
      BY <1>1 DEF wrap_if_bufend
    <3>5. /\ ret' = 0 /\ out' = <<>> /\ memory = "intact"
          /\ UNCHANGED <<buf, end, memory, size, begin>>
      BY <1>9, <2>2 DEF WriteChar
    <3>6. /\ memory' = After(end + 0 > size)
          /\ buf' = MemCpy(buf, end, SubSeq(<<c>>, 1, 0))
          /\ end' = wrap_if_bufend(end + 0)
      BY <3>2, <3>3, <3>4, <3>5 DEF After
    <3> QED BY <3>1, <3>4, <3>5, <3>6 DEF Write
  <2>3. CASE ~full
    <3>1. Smaller(Len(<<c>>), room) = 1
      BY <1>1, <1>3, <2>1, <2>3 DEF Smaller
    <3>2. SubSeq(<<c>>, 1, 1) = <<c>>
      <4>1. <<c>> \in Seq(Byte)
        OBVIOUS
      <4> QED BY <2>1, <4>1, SubSeqFull
    <3>3. ~(1 > size - end) /\ ~(end >= size) /\ ~(end + 1 > size)
      BY <1>1
    <3>4. /\ ret' = 1 /\ out' = <<>> /\ memory = "intact" /\ UNCHANGED <<size, begin>>
          /\ buf' = MemCpy(buf, end, <<c>>) /\ memory' = After(end >= size)
          /\ end' = wrap_if_bufend(end + 1)
      BY <1>9, <2>3 DEF WriteChar
    <3>5. memory' = After(end + 1 > size)
      BY <3>3, <3>4 DEF After
    <3> QED BY <3>1, <3>2, <3>3, <3>4, <3>5 DEF Write
  <2> QED BY <2>2, <2>3
<1> QED BY <1>7, <1>8, <1>9

-------------------------------------------------------------------------------
(* What each operation does to the stored bytes. *)

\* Taking n bytes off the front, in terms of Contents.
LEMMA TakeEffect ==
  ASSUME IInv, NEW n \in 0..available,
         begin' = Advance(n), UNCHANGED <<size, buf, end>>
  PROVE  /\ begin' \in 0..size - 1
         /\ available' = available - n
         /\ \A i \in 1..available - n : buf'[RingAt(i)'] = buf[RingAt(n + i)]
         /\ \A i \in 1..available' : buf'[RingAt(i)'] \in Byte
<1>1. available \in Nat /\ n \in Nat
  BY Measures DEF IInv
<1>2. begin' \in 0..size - 1 /\ available' = available - n
  BY AdvanceIsShift DEF available, IInv
<1>3. \A i \in 1..available - n : RingAt(i)' = RingAt(n + i)
  BY AdvanceIsShift DEF RingAt, IInv
<1>4. \A i \in 1..available - n : buf'[RingAt(i)'] = buf[RingAt(n + i)]
  BY <1>3
<1>5. \A i \in 1..available - n : n + i \in 1..available
  BY <1>1
<1>6. \A i \in 1..available' : buf'[RingAt(i)'] \in Byte
  BY <1>2, <1>4, <1>5 DEF IInv, OnlyWrittenBytes
<1> QED BY <1>2, <1>4, <1>6

\* A resize that takes place moves the stored bytes to the start.
LEMMA ResizeEffect ==
  ASSUME IInv, NEW newSize \in Sizes, newSize # available, DoResize(newSize)
  PROVE  /\ TypeOK'
         /\ available' = available
         /\ \A i \in 1..available : buf'[RingAt(i)'] = buf[RingAt(i)]
         /\ size' = size \/ (size' = newSize /\ available < newSize)
         /\ ret' = size' /\ out' = <<>> /\ memory' = memory
<1>1. size \in Nat \ {0} /\ newSize \in Nat \ {0} /\ available \in 0..size - 1 /\ available \in Nat
  BY Measures, CbufAssumption DEF IInv
<1>2. CASE newSize < available \/ newSize = size
  <2>1. UNCHANGED <<size, buf, begin, end, memory>> /\ ret' = size /\ out' = <<>>
    BY <1>2 DEF DoResize
  <2>2. TypeOK'
    BY <1>1, <2>1 DEF TypeOK, IInv
  <2>3. available' = available /\ \A i \in 1..available : RingAt(i)' = RingAt(i)
    BY <2>1 DEF available, RingAt
  <2> QED BY <2>1, <2>2, <2>3
<1>3. CASE ~(newSize < available \/ newSize = size)
  <2> DEFINE F == Front(available)
  <2>1. /\ buf' = [j \in 0..newSize - 1 |-> IF j < available THEN F[j + 1] ELSE 0]
        /\ begin' = 0 /\ end' = available /\ size' = newSize /\ ret' = newSize
        /\ out' = <<>> /\ memory' = memory
    BY <1>3 DEF DoResize
  <2>2. \A i \in 1..available : F[i] = buf[RingAt(i)]
    <3>1. available \in 0..available
      BY <1>1
    <3>2. F = [i \in 1..available |-> buf[RingAt(i)]]
      BY <3>1, FrontIsPrefix DEF IInv
    <3> QED BY <3>2
  <2> HIDE DEF F
  <2>3. available < newSize
    BY <1>1, <1>3
  <2>4. available' = available
    BY <1>1, <2>1 DEF available
  <2>5. ASSUME NEW i \in 1..available PROVE buf'[RingAt(i)'] = buf[RingAt(i)]
    <3>1. RingAt(i)' = i - 1 /\ i - 1 \in 0..newSize - 1 /\ i - 1 < available /\ (i - 1) + 1 = i
      BY <1>1, <2>1, <2>3 DEF RingAt
    <3>2. buf'[i - 1] = F[i]
      BY <2>1, <3>1
    <3> QED BY <2>2, <3>1, <3>2
  <2>6. buf' \in [0..newSize - 1 -> Byte \cup {Junk, 0}]
    <3>1. ASSUME NEW j \in 0..newSize - 1
          PROVE  (IF j < available THEN F[j + 1] ELSE 0) \in Byte \cup {Junk, 0}
      <4>1. CASE j < available
        <5>1. j + 1 \in 1..available
          BY <1>1, <4>1
        <5> QED BY <2>2, <4>1, <5>1 DEF IInv, OnlyWrittenBytes
      <4>2. CASE ~(j < available)
        BY <4>2
      <4> QED BY <4>1, <4>2
    <3> QED BY <2>1, <3>1
  <2>7. TypeOK'
    BY <1>1, <2>1, <2>3, <2>6 DEF TypeOK, IInv
  <2> QED BY <2>1, <2>3, <2>4, <2>5, <2>7
<1> QED BY <1>2, <1>3

\* What is copied out are stored bytes.
LEMMA FrontBytes ==
  ASSUME IInv, NEW n \in 0..available
  PROVE  Front(n) \in Seq(Byte)
<1>1. n \in Nat /\ \A i \in 1..n : i \in 1..available
  BY Measures DEF IInv
<1>2. \A i \in 1..n : buf[RingAt(i)] \in Byte
  BY <1>1 DEF IInv, OnlyWrittenBytes
<1>3. Front(n) = [i \in 1..n |-> buf[RingAt(i)]]
  BY FrontIsPrefix DEF IInv
<1> QED BY <1>1, <1>2, <1>3, IsASeq

LEMMA SmallerCount ==
  ASSUME IInv, NEW n \in Nat
  PROVE  Smaller(n, available) \in 0..available /\ Smaller(n, available) \in Nat
BY Measures DEF IInv, Smaller

-------------------------------------------------------------------------------
(* The invariant. *)

LEMMA InitIInv == Init => IInv
<1> SUFFICES ASSUME Init PROVE IInv
  OBVIOUS
<1>1. size \in Nat \ {0} /\ size \in Sizes
  BY CbufAssumption DEF Init
<1>2. TypeOK
  BY <1>1 DEF Init, TypeOK
<1>3. available = 0
  BY DEF Init, available
<1> QED BY <1>2, <1>3 DEF IInv, InBounds, OnlyWrittenBytes, Init

LEMMA StepIInv ==
  ASSUME ShrinkToFit = FALSE, IInv, [Next]_vars
  PROVE  IInv'
<1>1. size \in Nat \ {0} /\ begin \in 0..size - 1 /\ end \in 0..size - 1 /\ available \in Nat
  BY Measures DEF IInv, TypeOK
<1>2. ASSUME NEW newSize \in Sizes, newSize # available, DoResize(newSize)
      PROVE  IInv'
  <2>1. OnlyWrittenBytes'
    BY <1>2, ResizeEffect DEF OnlyWrittenBytes, IInv
  <2> QED BY <1>2, <2>1, ResizeEffect DEF IInv, InBounds
<1>3. ASSUME NEW n \in Nat, Peek(n) PROVE IInv'
  <2>1. Smaller(n, available) \in Nat /\ Front(Smaller(n, available)) \in Seq(Byte)
    BY SmallerCount, FrontBytes
  <2>2. UNCHANGED <<size, buf, begin, end, memory>> /\ ret' \in Nat /\ out' \in Seq(Byte)
    BY <1>3, <2>1 DEF Peek
  <2>3. available' = available /\ \A i \in 1..available : RingAt(i)' = RingAt(i)
    BY <2>2 DEF available, RingAt
  <2> QED BY <2>2, <2>3 DEF IInv, TypeOK, InBounds, OnlyWrittenBytes
<1>4. ASSUME NEW n \in Nat, Read(n) PROVE IInv'
  <2> DEFINE m == Smaller(n, available)
  <2>1. m \in 0..available /\ m \in Nat /\ Front(m) \in Seq(Byte)
    BY SmallerCount, FrontBytes
  <2>2. begin' = Advance(m) /\ UNCHANGED <<size, buf, end, memory>> /\ ret' = m /\ out' = Front(m)
    BY <1>4 DEF Read
  <2> HIDE DEF m
  <2>3. begin' \in 0..size - 1 /\ OnlyWrittenBytes'
    BY <2>1, <2>2, TakeEffect DEF OnlyWrittenBytes
  <2> QED BY <2>1, <2>2, <2>3 DEF IInv, TypeOK, InBounds
<1>5. ASSUME NEW src \in Seq(Byte), Write(src) PROVE IInv'
  <2> DEFINE n == Smaller(Len(src), size - 1 - available)
  <2>1. n \in Nat
    BY Measures DEF Smaller, IInv
  <2>2. /\ memory' = "intact" /\ end' \in 0..size - 1 /\ buf' \in [0..size - 1 -> Byte \cup {Junk, 0}]
        /\ ret' = n /\ available' = available + n
        /\ \A i \in 1..available : buf'[RingAt(i)] = buf[RingAt(i)]
        /\ \A k \in 1..n : buf'[RingAt(available + k)] = src[k]
    BY <1>5, WriteEffect DEF IInv
  <2>3. size' = size /\ begin' = begin /\ out' = <<>>
    BY <1>5 DEF Write
  <2>4. n <= Len(src) /\ Len(src) \in Nat
    BY Measures DEF Smaller, IInv
  <2> HIDE DEF n
  <2>5. \A i \in 1..available + n : RingAt(i)' = RingAt(i)
    BY <2>3 DEF RingAt
  <2>6. ASSUME NEW i \in 1..available + n PROVE buf'[RingAt(i)] \in Byte
    <3>1. CASE i <= available
      BY <1>1, <2>1, <2>2, <3>1 DEF IInv, OnlyWrittenBytes
    <3>2. CASE ~(i <= available)
      <4>1. i - available \in 1..n /\ available + (i - available) = i /\ i - available \in 1..Len(src)
        BY <1>1, <2>1, <2>4, <3>2
      <4>2. src[i - available] \in Byte
        BY <4>1
      <4> QED BY <2>2, <4>1, <4>2
    <3> QED BY <3>1, <3>2
  <2>7. OnlyWrittenBytes'
    BY <2>2, <2>5, <2>6 DEF OnlyWrittenBytes
  <2>8. TypeOK'
    BY <2>1, <2>2, <2>3 DEF TypeOK, IInv
  <2> QED BY <2>2, <2>7, <2>8 DEF IInv, InBounds
<1>6. ASSUME Flush PROVE IInv'
  <2>1. UNCHANGED <<size, buf, memory>> /\ begin' = 0 /\ end' = 0 /\ ret' = 0 /\ out' = <<>>
    BY <1>6 DEF Flush
  <2>2. available' = 0
    BY <2>1 DEF available
  <2>3. TypeOK'
    BY <1>1, <2>1 DEF TypeOK, IInv
  <2> QED BY <2>1, <2>2, <2>3 DEF IInv, InBounds, OnlyWrittenBytes
<1>7. ASSUME NEW n \in Nat, Remove(n) PROVE IInv'
  <2>1. CASE n >= available
    <3>1. UNCHANGED <<size, buf, memory>> /\ begin' = 0 /\ end' = 0 /\ ret' = available' /\ out' = <<>>
      BY <1>7, <2>1 DEF Remove
    <3>2. available' = 0
      BY <3>1 DEF available
    <3>3. TypeOK'
      BY <1>1, <3>1, <3>2 DEF TypeOK, IInv
    <3> QED BY <3>1, <3>2, <3>3 DEF IInv, InBounds, OnlyWrittenBytes
  <2>2. CASE ~(n >= available)
    <3>1. /\ UNCHANGED <<size, buf, memory, end>> /\ begin' = Advance(n)
          /\ ret' = available' /\ out' = <<>>
      BY <1>7, <2>2 DEF Remove
    <3>2. n \in 0..available /\ available - n \in Nat
      BY <1>1, <2>2
    <3>3. begin' \in 0..size - 1 /\ available' = available - n /\ OnlyWrittenBytes'
      BY <3>1, <3>2, TakeEffect DEF OnlyWrittenBytes
    <3> QED BY <3>1, <3>2, <3>3 DEF IInv, TypeOK, InBounds
  <2> QED BY <2>1, <2>2
<1>8. CASE UNCHANGED vars
  <2>1. available' = available /\ \A i \in 1..available : RingAt(i)' = RingAt(i)
    BY <1>8 DEF vars, available, RingAt
  <2> QED BY <1>8, <2>1 DEF vars, IInv, TypeOK, InBounds, OnlyWrittenBytes
<1>9. CASE Next
  <2>1. ASSUME NEW newSize \in Sizes, Resize(newSize) PROVE IInv'
    BY <1>2, <2>1 DEF Resize
  <2>2. ASSUME NEW addSize \in Sizes, ResizeAdd(addSize) PROVE IInv'
    <3>1. size + addSize # available
      BY Measures, CbufAssumption DEF IInv
    <3> QED BY <1>2, <2>2, <3>1 DEF ResizeAdd
  <2>3. ASSUME NEW n \in Counts, Peek(n) \/ Read(n) \/ Remove(n) PROVE IInv'
    BY <1>3, <1>4, <1>7, <2>3, CbufAssumption
  <2>4. CASE PeekChar \/ ReadChar
    BY <1>3, <1>4, <2>4, CharOps DEF IInv
  <2>5. ASSUME NEW c \in Byte, WriteChar(c) PROVE IInv'
    <3>1. <<c>> \in Seq(Byte)
      OBVIOUS
    <3> QED BY <1>5, <2>5, <3>1, CharOps DEF IInv
  <2>6. ASSUME NEW src \in Chunks, Write(src) PROVE IInv'
    BY <1>5, <2>6, CbufAssumption
  <2> QED BY <1>6, <1>9, <2>1, <2>2, <2>3, <2>4, <2>5, <2>6 DEF Next
<1> QED BY <1>8, <1>9

\* Whatever sequence of operations callers issue, short of shrinking the ring
\* to exactly its content, the indices stay inside the allocation, no copy
\* runs past it and only written bytes are readable.
THEOREM RingSafe ==
  ASSUME ShrinkToFit = FALSE
  PROVE  Spec => [](TypeOK /\ InBounds /\ OnlyWrittenBytes)
<1>1. Init => IInv
  BY InitIInv
<1>2. IInv /\ [Next]_vars => IInv'
  BY StepIInv
<1> QED BY <1>1, <1>2, PTL DEF Spec, IInv

\* room() is exact in every reachable state, although it is computed modulo
\* 2^w, so full(), empty() and the two observers always agree.
THEOREM RoomIsExact ==
  ASSUME ShrinkToFit = FALSE
  PROVE  Spec => []RoomExact
<1>1. IInv => RoomExact
  <2> SUFFICES ASSUME IInv PROVE RoomExact
    OBVIOUS
  <2>1. size \in Nat \ {0} /\ begin \in 0..size - 1 /\ end \in 0..size - 1
    BY Measures DEF IInv, TypeOK
  <2>2. room = size - 1 - available /\ available \in 0..size - 1
    BY Measures DEF IInv
  <2>3. available + room = size - 1
    BY <2>1, <2>2
  <2>4. empty <=> available = 0
    BY <2>1 DEF empty, available
  <2>5. full <=> room = 0
    BY <2>1, <2>2 DEF full, wrap_if_bufend, available
  <2> QED BY <2>3, <2>4, <2>5 DEF RoomExact
<1>2. Spec => []IInv
  BY RingSafe, PTL DEF IInv
<1> QED BY <1>1, <1>2, PTL

-------------------------------------------------------------------------------
(* The ring implements a bounded FIFO. *)

\* A subsequence, element by element.
LEMMA SubSeqAt ==
  ASSUME NEW S, NEW s \in Seq(S), NEW m \in Nat \ {0}, NEW n \in Nat,
         m <= n + 1, n <= Len(s)
  PROVE  SubSeq(s, m, n) = [i \in 1..n - m + 1 |-> s[m + i - 1]]
<1> DEFINE u == SubSeq(s, m, n)
<1>1. \A i \in m..n : s[i] \in S
  OBVIOUS
<1>2. /\ u \in Seq(S)
      /\ Len(u) = n - m + 1
      /\ \A i \in 1..n - m + 1 : u[i] = s[m + i - 1]
  BY <1>1, SubSeqProperties
<1> HIDE DEF u
<1>3. u = [i \in 1..n - m + 1 |-> u[i]]
  BY <1>2, LenProperties
<1>4. u = [i \in 1..n - m + 1 |-> s[m + i - 1]]
  BY <1>2, <1>3
<1> QED BY <1>4 DEF u

\* The abstract queue is a sequence of available() bytes.
LEMMA ContentsSeq ==
  ASSUME IInv
  PROVE  Contents \in Seq(Byte) /\ Len(Contents) = available /\ available \in Nat
<1>1. available \in Nat
  BY Measures DEF IInv
<1>2. Contents \in [1..available -> Byte]
  BY DEF Contents, IInv, OnlyWrittenBytes
<1> QED BY <1>1, <1>2 DEF Contents

\* The first n stored bytes are the first n bytes of the queue.
LEMMA FrontIsSubSeq ==
  ASSUME IInv, NEW n \in 0..available
  PROVE  Front(n) = SubSeq(Contents, 1, n)
<1>1. Contents \in Seq(Byte) /\ Len(Contents) = available /\ available \in Nat /\ n \in Nat /\ n <= available
  BY ContentsSeq
<1>2. SubSeq(Contents, 1, n) = [i \in 1..n - 1 + 1 |-> Contents[1 + i - 1]]
  BY <1>1, SubSeqAt
<1>3. n - 1 + 1 = n /\ \A i \in 1..n : 1 + i - 1 = i /\ i \in 1..available
  BY <1>1
<1>4. \A i \in 1..n : Contents[i] = buf[RingAt(i)]
  BY <1>3 DEF Contents
<1>5. Front(n) = [i \in 1..n |-> buf[RingAt(i)]]
  BY FrontIsPrefix DEF IInv
<1> QED BY <1>2, <1>3, <1>4, <1>5

\* Taking n bytes drops the first n bytes of the queue.
LEMMA TakeIsSubSeq ==
  ASSUME IInv, NEW n \in 0..available,
         begin' = Advance(n), UNCHANGED <<size, buf, end>>
  PROVE  Contents' = SubSeq(Contents, n + 1, Len(Contents))
<1>1. Contents \in Seq(Byte) /\ Len(Contents) = available /\ available \in Nat /\ n \in Nat /\ n <= available
  BY ContentsSeq
<1>2. SubSeq(Contents, n + 1, available) = [i \in 1..available - (n + 1) + 1 |-> Contents[(n + 1) + i - 1]]
  BY <1>1, SubSeqAt
<1>3. available - (n + 1) + 1 = available - n
  BY <1>1
<1>4. \A i \in 1..available - n : (n + 1) + i - 1 = n + i /\ n + i \in 1..available
  BY <1>1
<1>5. \A i \in 1..available - n : Contents[n + i] = buf[RingAt(n + i)]
  BY <1>4 DEF Contents
<1>6. Contents' = [i \in 1..available - n |-> buf'[RingAt(i)']]
  BY TakeEffect DEF Contents
<1>7. \A i \in 1..available - n : buf'[RingAt(i)'] = buf[RingAt(n + i)]
  BY TakeEffect
<1>8. SubSeq(Contents, n + 1, available) = [i \in 1..available - n |-> Contents[n + i]]
  BY <1>2, <1>3, <1>4
<1>9. Contents' = [i \in 1..available - n |-> Contents[n + i]]
  BY <1>5, <1>6, <1>7
<1> QED BY <1>1, <1>8, <1>9

LEMMA InitFifo == Init => Fifo!Init
<1> SUFFICES ASSUME Init PROVE Fifo!Init
  OBVIOUS
<1>1. IInv
  BY InitIInv
<1>2. available = 0
  BY DEF Init, available
<1>3. Contents = <<>>
  BY <1>2 DEF Contents
<1>4. size - 1 \in {n - 1 : n \in Sizes}
  BY DEF Init
<1> QED BY <1>3, <1>4 DEF Init, Fifo!Init

LEMMA StepFifo ==
  ASSUME ShrinkToFit = FALSE, IInv, [Next]_vars
  PROVE  [Fifo!Next]_(Fifo!vars)
<1> DEFINE q == Contents
<1>1. q \in Seq(Byte) /\ Len(q) = available /\ available \in Nat
  BY ContentsSeq
<1>2. size \in Nat \ {0} /\ available \in 0..size - 1
  BY Measures DEF IInv
<1>3. ASSUME NEW newSize \in Sizes, newSize # available, DoResize(newSize)
      PROVE  Fifo!Resize
  <2>1. q' = q
    <3>1. available' = available /\ \A i \in 1..available : buf'[RingAt(i)'] = buf[RingAt(i)]
      BY <1>3, ResizeEffect
    <3> QED BY <3>1 DEF Contents
  <2>2. size' = size \/ (size' = newSize /\ available < newSize)
    BY <1>3, ResizeEffect
  <2>3. ret' = size' /\ out' = <<>>
    BY <1>3, ResizeEffect
  <2>4. newSize \in Nat \ {0}
    BY CbufAssumption
  <2>5. (size' - 1) \in {size - 1} \cup {c \in {n - 1 : n \in Sizes} : c >= Len(q)} /\ ret' = (size' - 1) + 1
    <3>1. CASE size' = size
      BY <1>2, <2>3, <3>1
    <3>2. CASE size' = newSize /\ available < newSize
      BY <1>1, <2>3, <2>4, <3>2
    <3> QED BY <2>2, <3>1, <3>2
  <2> QED BY <2>1, <2>3, <2>5 DEF Fifo!Resize
<1>4. ASSUME NEW n \in Nat, Peek(n) PROVE Fifo!Look(n)
  <2> DEFINE m == Smaller(n, available)
  <2>1. m \in 0..available
    BY SmallerCount
  <2>2. Front(m) = SubSeq(q, 1, m)
    BY <2>1, FrontIsSubSeq
  <2>3. UNCHANGED <<size, buf, begin, end>> /\ ret' = m /\ out' = Front(m)
    BY <1>4 DEF Peek
  <2>4. q' = q
    BY <2>3 DEF Contents, available, RingAt
  <2>5. Fifo!Least(n, Len(q)) = m
    BY <1>1 DEF Fifo!Least, Smaller
  <2> QED BY <2>2, <2>3, <2>4, <2>5 DEF Fifo!Look
<1>5. ASSUME NEW n \in Nat, Read(n) PROVE Fifo!Get(n)
  <2> DEFINE m == Smaller(n, available)
  <2>1. m \in 0..available
    BY SmallerCount
  <2>2. Front(m) = SubSeq(q, 1, m)
    BY <2>1, FrontIsSubSeq
  <2>3. UNCHANGED <<size, buf, end>> /\ begin' = Advance(m) /\ ret' = m /\ out' = Front(m)
    BY <1>5 DEF Read
  <2>4. q' = SubSeq(q, m + 1, Len(q))
    BY <2>1, <2>3, TakeIsSubSeq
  <2>5. Fifo!Least(n, Len(q)) = m
    BY <1>1 DEF Fifo!Least, Smaller
  <2> QED BY <2>2, <2>3, <2>4, <2>5 DEF Fifo!Get
<1>6. ASSUME NEW src \in Seq(Byte), Write(src) PROVE Fifo!Put(src)
  <2> DEFINE n == Smaller(Len(src), size - 1 - available)
             x == SubSeq(src, 1, n)
  <2>1. n \in Nat /\ n <= Len(src) /\ Len(src) \in Nat
    BY <1>2 DEF Smaller
  <2>2. /\ ret' = n /\ available' = available + n
        /\ \A i \in 1..available : buf'[RingAt(i)] = buf[RingAt(i)]
        /\ \A k \in 1..n : buf'[RingAt(available + k)] = src[k]
    BY <1>6, WriteEffect DEF IInv
  <2>3. size' = size /\ begin' = begin /\ out' = <<>>
    BY <1>6 DEF Write
  <2>4. Fifo!Least(Len(src), (size - 1) - Len(q)) = n
    BY <1>1 DEF Fifo!Least, Smaller
  <2> HIDE DEF n
  <2>5. x \in Seq(Byte) /\ Len(x) = n /\ \A i \in 1..n : x[i] = src[i]
    <3>1. \A i \in 1..n : src[i] \in Byte
      BY <2>1
    <3> QED BY <2>1, <3>1, SubSeqProperties
  <2> HIDE DEF x
  <2>6. q \o x = [i \in 1..available + n |-> IF i <= available THEN q[i] ELSE x[i - available]]
    <3>1. q \o x = [i \in 1..Len(q) + Len(x) |-> IF i <= Len(q) THEN q[i] ELSE x[i - Len(q)]]
      BY <1>1, <2>5, Joined
    <3> QED BY <1>1, <2>5, <3>1
  <2>7. q' = [i \in 1..available + n |-> buf'[RingAt(i)]]
    <3>1. \A i \in 1..available + n : RingAt(i)' = RingAt(i)
      BY <2>3 DEF RingAt
    <3> QED BY <2>2, <3>1 DEF Contents
  <2>8. ASSUME NEW i \in 1..available + n
        PROVE  buf'[RingAt(i)] = IF i <= available THEN q[i] ELSE x[i - available]
    <3>1. CASE i <= available
      <4>1. i \in 1..available
        BY <1>1, <2>1, <3>1
      <4> QED BY <2>2, <3>1, <4>1 DEF Contents
    <3>2. CASE ~(i <= available)
      <4>1. i - available \in 1..n /\ available + (i - available) = i
        BY <1>1, <2>1, <3>2
      <4> QED BY <2>2, <2>5, <3>2, <4>1
    <3> QED BY <3>1, <3>2
  <2>9. q' = q \o x
    BY <2>6, <2>7, <2>8
  <2> QED BY <2>2, <2>3, <2>4, <2>9 DEF Fifo!Put, x
<1>7. ASSUME Flush PROVE Fifo!Clear
  <2>1. size' = size /\ begin' = 0 /\ end' = 0 /\ ret' = 0 /\ out' = <<>>
    BY <1>7 DEF Flush
  <2>2. available' = 0
    BY <2>1 DEF available
  <2>3. q' = <<>>
    BY <2>2 DEF Contents
  <2> QED BY <2>1, <2>3 DEF Fifo!Clear
<1>8. ASSUME NEW n \in Nat, Remove(n) PROVE Fifo!Drop(n)
  <2>1. CASE n >= available
    <3>1. size' = size /\ begin' = 0 /\ end' = 0 /\ ret' = available' /\ out' = <<>>
      BY <1>8, <2>1 DEF Remove
    <3>2. available' = 0
      BY <3>1 DEF available
    <3>3. q' = <<>>
      BY <3>2 DEF Contents
    <3>4. Fifo!Least(n, Len(q)) = available
      BY <1>1, <2>1 DEF Fifo!Least
    <3>5. SubSeq(q, available + 1, Len(q)) = <<>>
      BY <1>1, SubSeqEmpty
    <3>6. ret' = Len(q) - available
      BY <1>1, <3>1, <3>2
    <3> QED BY <3>1, <3>3, <3>4, <3>5, <3>6 DEF Fifo!Drop
  <2>2. CASE ~(n >= available)
    <3>1. /\ UNCHANGED <<size, buf, end>> /\ begin' = Advance(n)
          /\ ret' = available' /\ out' = <<>>
      BY <1>8, <2>2 DEF Remove
    <3>2. n \in 0..available
      BY <1>1, <2>2
    <3>3. available' = available - n
      BY <3>1, <3>2, TakeEffect
    <3>4. q' = SubSeq(q, n + 1, Len(q))
      BY <3>1, <3>2, TakeIsSubSeq
    <3>5. Fifo!Least(n, Len(q)) = n
      BY <1>1, <2>2 DEF Fifo!Least
    <3>6. ret' = Len(q) - n
      BY <1>1, <3>1, <3>3
    <3> QED BY <3>1, <3>4, <3>5, <3>6 DEF Fifo!Drop
  <2> QED BY <2>1, <2>2
<1>9. CASE UNCHANGED vars
  BY <1>9 DEF vars, Fifo!vars, Contents, available, RingAt
<1>10. CASE Next
  <2>1. ASSUME NEW newSize \in Sizes, Resize(newSize) PROVE Fifo!Next
    BY <1>3, <2>1 DEF Resize, Fifo!Next
  <2>2. ASSUME NEW addSize \in Sizes, ResizeAdd(addSize) PROVE Fifo!Next
    <3>1. size + addSize # available
      BY <1>2, CbufAssumption
    <3> QED BY <1>3, <2>2, <3>1 DEF ResizeAdd, Fifo!Next
  <2>3. ASSUME NEW n \in Counts, Peek(n) \/ Read(n) \/ Remove(n) PROVE Fifo!Next
    BY <1>4, <1>5, <1>8, <2>3, CbufAssumption DEF Fifo!Next
  <2>4. CASE PeekChar \/ ReadChar
    BY <1>4, <1>5, <2>4, CharOps DEF IInv, Fifo!Next
  <2>5. ASSUME NEW c \in Byte, WriteChar(c) PROVE Fifo!Next
    <3>1. <<c>> \in Seq(Byte)
      OBVIOUS
    <3>2. Fifo!Put(<<c>>)
      BY <1>6, <2>5, <3>1, CharOps DEF IInv
    <3> QED BY <3>2 DEF Fifo!Next
  <2>6. ASSUME NEW src \in Chunks, Write(src) PROVE Fifo!Next
    BY <1>6, <2>6, CbufAssumption DEF Fifo!Next
  <2> QED BY <1>7, <1>10, <2>1, <2>2, <2>3, <2>4, <2>5, <2>6 DEF Next, Fifo!Next
<1> QED BY <1>9, <1>10

\* Every behaviour of the ring is a behaviour of the bounded FIFO: bytes come
\* out in order, once each, and none is lost by a resize.
THEOREM RingIsFifo ==
  ASSUME ShrinkToFit = FALSE
  PROVE  Spec => ImplementsFifo
<1>1. Init => Fifo!Init
  BY InitFifo
<1>2. IInv /\ [Next]_vars => [Fifo!Next]_(Fifo!vars)
  BY StepFifo
<1>3. Spec => []IInv
  BY RingSafe, PTL DEF IInv
<1> QED BY <1>1, <1>2, <1>3, PTL DEF Spec, ImplementsFifo, Fifo!Spec

-------------------------------------------------------------------------------
(* The ring of I2S buffers. *)

\* The buffer k places after b in the ring.
Ahead(b, k) == IF b + k < BufCnt THEN b + k ELSE b + k - BufCnt

\* The buffers from the one being played on that are neither queued nor about to be.
window == BufCnt - Len(queue) - (IF intr THEN 1 ELSE 0)

\* The queue is the last part of the ring, but for the buffer still to be queued.
QueueIsRing ==
  /\ intr => eda = Ahead(dma, BufCnt - 1)
  /\ \A i \in 1..Len(queue) : queue[i] = Ahead(dma, window + i - 1)

StoreHasRoom == wpc = "store" => pos < BufLen /\ curr # None /\ wrote < MaxSamples

RingInv ==
  /\ I2sTypeOK
  /\ StoreHasRoom
  /\ playing /\ ~missed => QueueIsRing

\* The numbers of the ring.
LEMMA RingNumbers ==
  ASSUME I2sTypeOK
  PROVE  /\ BufCnt \in Nat /\ BufCnt > 1 /\ BufLen \in Nat /\ BufLen > 0
         /\ dma \in Nat /\ dma < BufCnt /\ eda \in Bufs
         /\ queue \in Seq(Bufs) /\ Len(queue) \in Nat /\ Len(queue) <= BufCnt - 1
         /\ \A i \in 1..Len(queue) : queue[i] \in Bufs
         /\ pos \in Nat /\ pos <= BufLen /\ wrote \in Nat /\ wrote <= MaxSamples
         /\ MaxSamples \in Nat /\ heard \in Nat
<1>1. BufCnt \in Nat /\ BufCnt > 1 /\ BufLen \in Nat /\ BufLen > 0 /\ MaxSamples \in Nat
  BY I2sAssumption
<1>2. queue \in Seq(Bufs) /\ Len(queue) \in Nat /\ Len(queue) <= BufCnt - 1
  BY LenProperties DEF I2sTypeOK
<1>3. \A i \in 1..Len(queue) : queue[i] \in Bufs
  BY <1>2, ElementOfSeq
<1>4. eda \in Bufs /\ dma \in Nat /\ dma < BufCnt
  BY <1>1 DEF I2sTypeOK, Bufs
<1>5. pos \in Nat /\ pos <= BufLen /\ wrote \in Nat /\ wrote <= MaxSamples /\ heard \in Nat
  BY <1>1 DEF I2sTypeOK
<1> QED
  BY <1>1, <1>2, <1>3, <1>4, <1>5

\* Places in the ring.
LEMMA AheadIs ==
  ASSUME BufCnt \in Nat, BufCnt > 1, NEW b \in Bufs
  PROVE  /\ Ahead(b, 0) = b
         /\ \A k \in 0..BufCnt - 1 : Ahead(b, k) \in Bufs
         /\ \A j, k \in 0..BufCnt - 1 : Ahead(b, j) = Ahead(b, k) => j = k
         /\ Succ(b) \in Bufs /\ Succ(b) = Ahead(b, 1)
         /\ \A k \in 0..BufCnt - 2 : Ahead(Succ(b), k) = Ahead(b, k + 1)
         /\ Ahead(Succ(b), BufCnt - 1) = b
<1>1. b \in Nat /\ b < BufCnt
  BY DEF Bufs
<1>2. Succ(b) = IF b + 1 < BufCnt THEN b + 1 ELSE 0
  <2>1. CASE b + 1 < BufCnt
    BY <1>1, <2>1 DEF Succ
  <2>2. CASE b + 1 = BufCnt
    BY <1>1, <2>2 DEF Succ
  <2> QED
    BY <1>1, <2>1, <2>2
<1>3. Ahead(b, 0) = b /\ Succ(b) \in Bufs /\ Succ(b) = Ahead(b, 1)
  BY <1>1, <1>2 DEF Ahead, Bufs
<1>4. \A k \in 0..BufCnt - 1 : Ahead(b, k) \in Bufs
  BY <1>1 DEF Ahead, Bufs
<1>5. \A j, k \in 0..BufCnt - 1 : Ahead(b, j) = Ahead(b, k) => j = k
  BY <1>1 DEF Ahead
<1>6. \A k \in 0..BufCnt - 2 : Ahead(Succ(b), k) = Ahead(b, k + 1)
  BY <1>1, <1>2 DEF Ahead
<1>7. Ahead(Succ(b), BufCnt - 1) = b
  BY <1>1, <1>2 DEF Ahead
<1> QED
  BY <1>3, <1>4, <1>5, <1>6, <1>7

\* The rest of a queue.
LEMMA PoppedIs ==
  ASSUME NEW q \in Seq(Bufs), Len(q) > 0
  PROVE  /\ Head(q) = q[1] /\ Head(q) \in Bufs
         /\ Popped(q) \in Seq(Bufs) /\ Len(Popped(q)) = Len(q) - 1
         /\ \A i \in 1..Len(q) - 1 : Popped(q)[i] = q[i + 1]
<1>1. Len(q) \in Nat
  BY LenProperties
<1>2. q # <<>>
  BY <1>1
<1>3. q[1] \in Bufs
  BY <1>1, ElementOfSeq
<1> QED
  BY <1>1, <1>2, <1>3, HeadTailProperties DEF Popped

\* What the handler does to the queue.
LEMMA IsrQueue ==
  ASSUME I2sTypeOK, Isr
  PROVE  /\ queue' \in Seq(Bufs) /\ queue'[Len(queue')] = eda
         /\ Len(queue') = (IF Len(queue) = BufCnt - 1 THEN Len(queue) ELSE Len(queue) + 1)
         /\ Len(queue) = BufCnt - 1 => \A i \in 1..Len(queue) - 1 : queue'[i] = queue[i + 1]
         /\ Len(queue) # BufCnt - 1 => \A i \in 1..Len(queue) : queue'[i] = queue[i]
<1>1. CASE Len(queue) = BufCnt - 1
  <2>1. /\ Popped(queue) \in Seq(Bufs) /\ Len(Popped(queue)) = Len(queue) - 1
        /\ \A i \in 1..Len(queue) - 1 : Popped(queue)[i] = queue[i + 1]
    BY <1>1, RingNumbers, PoppedIs
  <2>2. queue' = Append(Popped(queue), eda)
    BY <1>1, RingNumbers DEF Isr
  <2> HIDE DEF Popped
  <2>3. /\ queue' \in Seq(Bufs) /\ Len(queue') = (Len(queue) - 1) + 1
        /\ \A i \in 1..Len(queue) - 1 : queue'[i] = Popped(queue)[i]
        /\ queue'[(Len(queue) - 1) + 1] = eda
    BY <2>1, <2>2, RingNumbers, AppendProperties
  <2>4. (Len(queue) - 1) + 1 = Len(queue)
    BY RingNumbers
  <2> QED
    BY <1>1, <2>1, <2>3, <2>4
<1>2. CASE Len(queue) # BufCnt - 1
  <2>1. queue' = Append(queue, eda)
    BY <1>2, RingNumbers DEF Isr
  <2>2. /\ queue' \in Seq(Bufs) /\ Len(queue') = Len(queue) + 1
        /\ \A i \in 1..Len(queue) : queue'[i] = queue[i]
        /\ queue'[Len(queue) + 1] = eda
    BY <2>1, RingNumbers, AppendProperties
  <2> QED
    BY <1>2, <2>2
<1> QED
  BY <1>1, <1>2

\* The engine finishes a buffer.
LEMMA FinishRing ==
  ASSUME RingInv, Finish
  PROVE  RingInv'
<1>1. /\ playing /\ eda' = dma /\ dma' = Succ(dma)
      /\ intr' = (intr \/ ie) /\ missed' = (missed \/ intr \/ ~ie)
      /\ heard' = LastOf(mem[dma], heard)
      /\ UNCHANGED <<run, playing, ie, mem, queue, curr, currRun, pos, wpc, wrote, stale>>
  BY DEF Finish
<1>2. /\ dma \in Bufs /\ intr' \in BOOLEAN
      /\ BufCnt \in Nat /\ BufCnt > 1 /\ Len(queue) \in Nat /\ Len(queue) <= BufCnt - 1
  BY <1>1, RingNumbers DEF RingInv, I2sTypeOK
<1>3. heard' \in 0..MaxSamples
  <2>1. mem[dma] \in [1..BufLen -> 0..MaxSamples] /\ BufLen \in 1..BufLen
    BY <1>2, RingNumbers DEF RingInv, I2sTypeOK
  <2> QED
    BY <1>1, <2>1 DEF RingInv, I2sTypeOK, LastOf
<1>4. I2sTypeOK'
  BY <1>1, <1>2, <1>3, AheadIs DEF RingInv, I2sTypeOK
<1>5. StoreHasRoom'
  BY <1>1 DEF RingInv, StoreHasRoom
<1>6. ASSUME ~missed' PROVE QueueIsRing'
  <2>1. ~intr /\ ~missed /\ ie
    BY <1>1, <1>6
  <2>2. QueueIsRing
    BY <1>1, <2>1 DEF RingInv
  <2>3. intr'
    BY <1>1, <2>1
  <2>4. window = BufCnt - Len(queue) /\ window' = BufCnt - Len(queue) - 1
    BY <1>1, <1>2, <2>1, <2>3 DEF window
  <2>5. ASSUME NEW i \in 1..Len(queue) PROVE queue[i] = Ahead(dma', window' + i - 1)
    <3>1. queue[i] = Ahead(dma, window + i - 1)
      BY <2>2 DEF QueueIsRing
    <3>2. window' + i - 1 \in 0..BufCnt - 2 /\ (window' + i - 1) + 1 = window + i - 1
      BY <1>2, <2>4
    <3> QED
      BY <1>1, <1>2, <3>1, <3>2, AheadIs
  <2> QED
    BY <1>1, <1>2, <2>2, <2>5, AheadIs DEF QueueIsRing
<1> QED
  BY <1>1, <1>4, <1>5, <1>6 DEF RingInv

\* The handler queues the finished buffer.
LEMMA IsrRing ==
  ASSUME RingInv, Isr
  PROVE  RingInv'
<1>1. /\ intr /\ intr' = FALSE /\ mem' = [mem EXCEPT ![eda] = Silence]
      /\ UNCHANGED <<run, playing, dma, eda, ie, curr, currRun, pos, wpc, wrote, heard,
                     missed, lapped, stale>>
  BY DEF Isr
<1>2. /\ BufCnt \in Nat /\ BufCnt > 1 /\ Len(queue) \in Nat /\ Len(queue) <= BufCnt - 1
      /\ BufLen \in Nat /\ MaxSamples \in Nat
  BY RingNumbers DEF RingInv
<1>3. /\ queue' \in Seq(Bufs) /\ queue'[Len(queue')] = eda
      /\ Len(queue') = (IF Len(queue) = BufCnt - 1 THEN Len(queue) ELSE Len(queue) + 1)
      /\ Len(queue) = BufCnt - 1 => \A i \in 1..Len(queue) - 1 : queue'[i] = queue[i + 1]
      /\ Len(queue) # BufCnt - 1 => \A i \in 1..Len(queue) : queue'[i] = queue[i]
  BY IsrQueue DEF RingInv
<1>4. I2sTypeOK'
  <2>1. Silence \in [1..BufLen -> 0..MaxSamples]
    BY <1>2 DEF Silence
  <2>2. mem' \in [Bufs -> [1..BufLen -> 0..MaxSamples]]
    BY <1>1, <2>1 DEF RingInv, I2sTypeOK
  <2>3. Len(queue') <= BufCnt - 1
    BY <1>2, <1>3
  <2> QED
    BY <1>1, <1>3, <2>2, <2>3 DEF RingInv, I2sTypeOK
<1>5. StoreHasRoom'
  BY <1>1 DEF RingInv, StoreHasRoom
<1>6. ASSUME playing, ~missed PROVE QueueIsRing'
  <2>1. QueueIsRing
    BY <1>6 DEF RingInv
  <2>2. eda = Ahead(dma, BufCnt - 1) /\ window = BufCnt - Len(queue) - 1
    BY <1>1, <2>1 DEF QueueIsRing, window
  <2>3. window' = BufCnt - Len(queue')
    BY <1>1, <1>2, <1>3 DEF window
  <2>4. ASSUME NEW i \in 1..Len(queue') PROVE queue'[i] = Ahead(dma, window' + i - 1)
    <3>1. CASE i = Len(queue')
      <4>1. window' + i - 1 = BufCnt - 1
        BY <1>2, <1>3, <2>3, <3>1
      <4> QED
        BY <1>3, <2>2, <3>1, <4>1
    <3>2. CASE i # Len(queue') /\ Len(queue) = BufCnt - 1
      <4>1. i \in 1..Len(queue) - 1 /\ i + 1 \in 1..Len(queue)
        BY <1>2, <1>3, <3>2
      <4>2. queue'[i] = queue[i + 1]
        BY <1>3, <3>2, <4>1
      <4>3. queue[i + 1] = Ahead(dma, window + (i + 1) - 1)
        BY <2>1, <4>1 DEF QueueIsRing
      <4>4. window + (i + 1) - 1 = window' + i - 1
        BY <1>2, <1>3, <2>2, <2>3, <3>2
      <4> QED
        BY <4>2, <4>3, <4>4
    <3>3. CASE i # Len(queue') /\ Len(queue) # BufCnt - 1
      <4>1. i \in 1..Len(queue)
        BY <1>2, <1>3, <3>3
      <4>2. queue'[i] = Ahead(dma, window + i - 1)
        BY <1>3, <2>1, <3>3, <4>1 DEF QueueIsRing
      <4>3. window + i - 1 = window' + i - 1
        BY <1>2, <1>3, <2>2, <2>3, <3>3
      <4> QED
        BY <4>2, <4>3
    <3> QED
      BY <3>1, <3>2, <3>3
  <2>5. ~intr' /\ dma' = dma
    BY <1>1, <2>1 DEF QueueIsRing
  <2> QED
    BY <2>4, <2>5 DEF QueueIsRing
<1> QED
  BY <1>1, <1>4, <1>5, <1>6 DEF RingInv

\* The writer takes the buffer at the front of the queue.
LEMMA TakeRing ==
  ASSUME RingInv, TakeBuffer
  PROVE  /\ RingInv' /\ curr' = queue[1] /\ Len(queue) > 0 /\ Len(queue') = Len(queue) - 1
         /\ \A i \in 1..Len(queue') : queue'[i] = queue[i + 1]
<1>1. /\ wrote < MaxSamples /\ queue # <<>> /\ curr' = Head(queue) /\ currRun' = run
      /\ queue' = Popped(queue) /\ pos' = 0 /\ wpc' = "store"
      /\ UNCHANGED <<run, playing, dma, eda, ie, intr, mem, wrote, heard, missed, stale>>
  BY DEF TakeBuffer
<1>2. /\ BufCnt \in Nat /\ BufCnt > 1 /\ Len(queue) \in Nat /\ Len(queue) <= BufCnt - 1
      /\ BufLen \in Nat /\ BufLen > 0 /\ queue \in Seq(Bufs)
  BY RingNumbers DEF RingInv
<1>3. Len(queue) > 0
  BY <1>1, <1>2
<1>4. /\ curr' = queue[1] /\ curr' \in Bufs
      /\ queue' \in Seq(Bufs) /\ Len(queue') = Len(queue) - 1
      /\ \A i \in 1..Len(queue) - 1 : queue'[i] = queue[i + 1]
  BY <1>1, <1>2, <1>3, PoppedIs
<1>5. I2sTypeOK'
  <2>1. Len(queue') <= BufCnt - 1 /\ 0 \in 0..BufLen
    BY <1>2, <1>4
  <2> QED
    BY <1>1, <1>4, <2>1 DEF RingInv, I2sTypeOK
<1>6. StoreHasRoom'
  <2>1. curr' # None
    BY <1>2, <1>4 DEF Bufs, None
  <2> QED
    BY <1>1, <1>2, <2>1 DEF StoreHasRoom, None
<1>7. ASSUME playing, ~missed PROVE QueueIsRing'
  <2>1. QueueIsRing
    BY <1>7 DEF RingInv
  <2>2. window' = window + 1 /\ window \in Int
    BY <1>1, <1>2, <1>4 DEF window
  <2>3. ASSUME NEW i \in 1..Len(queue') PROVE queue'[i] = Ahead(dma, window' + i - 1)
    <3>1. i \in 1..Len(queue) - 1 /\ i + 1 \in 1..Len(queue)
      BY <1>2, <1>4
    <3>2. queue'[i] = queue[i + 1] /\ queue[i + 1] = Ahead(dma, window + (i + 1) - 1)
      BY <1>4, <2>1, <3>1 DEF QueueIsRing
    <3>3. window + (i + 1) - 1 = window' + i - 1
      BY <2>2
    <3> QED
      BY <3>2, <3>3
  <2> QED
    BY <1>1, <2>1, <2>3 DEF QueueIsRing
<1> QED
  BY <1>1, <1>3, <1>4, <1>5, <1>6, <1>7 DEF RingInv

\* The writer stores a sample.
LEMMA StoreRing ==
  ASSUME RingInv, StoreSample
  PROVE  /\ RingInv' /\ curr \in Bufs /\ pos < BufLen
         /\ mem' = IF currRun = run THEN [mem EXCEPT ![curr] = [mem[curr] EXCEPT ![pos + 1] = wrote + 1]]
                   ELSE mem
<1>1. /\ wpc = "store" /\ wrote' = wrote + 1 /\ pos' = pos + 1 /\ wpc' = "idle"
      /\ UNCHANGED <<run, playing, dma, eda, ie, intr, queue, curr, currRun, heard, missed,
                     lapped, stale>>
      /\ mem' = IF currRun = run THEN [mem EXCEPT ![curr] = [mem[curr] EXCEPT ![pos + 1] = wrote + 1]]
                ELSE mem
  BY DEF StoreSample
<1>2. pos < BufLen /\ curr \in Bufs /\ wrote < MaxSamples
  BY <1>1 DEF RingInv, StoreHasRoom, I2sTypeOK
<1>3. /\ BufLen \in Nat /\ MaxSamples \in Nat /\ pos \in Nat /\ wrote \in Nat
  BY RingNumbers DEF RingInv
<1>4. pos + 1 \in 1..BufLen /\ pos + 1 \in 0..BufLen /\ wrote + 1 \in 0..MaxSamples
  BY <1>2, <1>3
<1>5. I2sTypeOK'
  <2>1. mem' \in [Bufs -> [1..BufLen -> 0..MaxSamples]]
    <3>1. mem \in [Bufs -> [1..BufLen -> 0..MaxSamples]]
      BY DEF RingInv, I2sTypeOK
    <3>2. [mem[curr] EXCEPT ![pos + 1] = wrote + 1] \in [1..BufLen -> 0..MaxSamples]
      BY <1>2, <1>4, <3>1
    <3> QED
      BY <1>1, <1>2, <3>1, <3>2
  <2> QED
    BY <1>1, <1>4, <2>1 DEF RingInv, I2sTypeOK
<1>6. StoreHasRoom'
  BY <1>1 DEF StoreHasRoom
<1>7. window' = window
  BY <1>1 DEF window
<1>8. playing /\ ~missed => QueueIsRing'
  BY <1>1, <1>7 DEF RingInv, QueueIsRing
<1> QED
  BY <1>1, <1>2, <1>5, <1>6, <1>8 DEF RingInv

\* The engine is started on new buffers.
LEMMA BeginRing ==
  ASSUME RingInv, Begin
  PROVE  RingInv'
<1>1. /\ run < MaxRuns /\ wpc = "idle" /\ run' = run + 1 /\ playing' = TRUE /\ dma' = 0 /\ eda' = 0
      /\ ie' = TRUE /\ intr' = FALSE /\ mem' = [b \in Bufs |-> Silence] /\ queue' = <<>>
      /\ heard' = wrote
      /\ UNCHANGED <<curr, currRun, pos, wpc, wrote>>
  BY DEF Begin
<1>2. /\ BufCnt \in Nat /\ BufCnt > 1 /\ MaxRuns \in Nat /\ BufLen \in Nat /\ MaxSamples \in Nat
  BY I2sAssumption
<1>3. I2sTypeOK'
  <2>1. 0 \in Bufs /\ run + 1 \in 0..MaxRuns
    BY <1>1, <1>2 DEF RingInv, I2sTypeOK, Bufs
  <2>2. mem' \in [Bufs -> [1..BufLen -> 0..MaxSamples]]
    <3>1. Silence \in [1..BufLen -> 0..MaxSamples]
      BY <1>2 DEF Silence
    <3> QED
      BY <1>1, <3>1
  <2>3. queue' \in Seq(Bufs) /\ Len(queue') <= BufCnt - 1
    BY <1>1, <1>2
  <2> QED
    BY <1>1, <1>2, <2>1, <2>2, <2>3 DEF RingInv, I2sTypeOK
<1>4. StoreHasRoom'
  BY <1>1 DEF StoreHasRoom
<1>5. QueueIsRing'
  BY <1>1 DEF QueueIsRing
<1> QED
  BY <1>3, <1>4, <1>5 DEF RingInv

\* The ring stays sound in every step.
LEMMA RingStep ==
  ASSUME RingInv, [I2sNext]_i2svars
  PROVE  RingInv'
<1>1. CASE Mask \/ End
  <2>1. /\ ie' = FALSE /\ intr' = FALSE /\ missed' = (missed \/ intr) /\ playing
        /\ UNCHANGED <<run, dma, eda, mem, queue, curr, currRun, pos, wpc, wrote, heard>>
    BY <1>1 DEF Mask, End, MaskInterrupt
  <2>2. playing' \in BOOLEAN
    BY <1>1 DEF Mask, End, RingInv, I2sTypeOK
  <2>3. I2sTypeOK' /\ StoreHasRoom'
    BY <2>1, <2>2 DEF RingInv, I2sTypeOK, StoreHasRoom, None
  <2>4. ASSUME ~missed' PROVE QueueIsRing'
    <3>1. ~intr /\ ~missed
      BY <2>1, <2>4
    <3>2. QueueIsRing /\ window' = window
      BY <2>1, <3>1 DEF RingInv, window
    <3> QED
      BY <2>1, <3>2 DEF QueueIsRing
  <2> QED
    BY <2>3, <2>4 DEF RingInv
<1>2. CASE KeepBuffer
  <2>1. /\ wpc' = "store" /\ wrote < MaxSamples /\ ~NeedsBuffer
        /\ UNCHANGED <<run, playing, dma, eda, ie, intr, mem, queue, curr, currRun, pos, wrote,
                       heard, missed, lapped, stale>>
    BY <1>2 DEF KeepBuffer
  <2>2. pos < BufLen /\ curr # None
    BY <2>1, RingNumbers DEF RingInv, NeedsBuffer
  <2>3. window' = window
    BY <2>1 DEF window
  <2>4. I2sTypeOK' /\ StoreHasRoom'
    BY <2>1, <2>2 DEF RingInv, I2sTypeOK, StoreHasRoom, None
  <2>5. playing' /\ ~missed' => QueueIsRing'
    BY <2>1, <2>3 DEF RingInv, QueueIsRing
  <2> QED
    BY <2>4, <2>5 DEF RingInv
<1>3. CASE UNCHANGED i2svars
  <2>1. UNCHANGED <<run, playing, dma, eda, ie, intr, mem, queue, curr, currRun, pos, wpc, wrote,
                    heard, missed, lapped, stale>>
    BY <1>3 DEF i2svars
  <2>2. window' = window
    BY <2>1 DEF window
  <2>3. I2sTypeOK' /\ StoreHasRoom'
    BY <2>1 DEF RingInv, I2sTypeOK, StoreHasRoom, None
  <2>4. playing' /\ ~missed' => QueueIsRing'
    BY <2>1, <2>2 DEF RingInv, QueueIsRing
  <2> QED
    BY <2>3, <2>4 DEF RingInv
<1> QED
  BY <1>1, <1>2, <1>3, BeginRing, FinishRing, IsrRing, TakeRing, StoreRing DEF I2sNext, Writer

LEMMA RingInvariance == I2sSpec => []RingInv
<1>1. ASSUME I2sInit PROVE RingInv
  <2>1. /\ BufCnt \in Nat /\ BufCnt > 1 /\ MaxRuns \in Nat /\ BufLen \in Nat /\ MaxSamples \in Nat
    BY I2sAssumption
  <2>2. 0 \in Bufs /\ <<>> \in Seq(Bufs) /\ Len(<<>>) = 0
    BY <2>1 DEF Bufs
  <2>3. Silence \in [1..BufLen -> 0..MaxSamples]
    BY <2>1 DEF Silence
  <2>4. I2sTypeOK
    BY <1>1, <2>1, <2>2, <2>3 DEF I2sInit, I2sTypeOK
  <2> QED
    BY <1>1, <2>4 DEF I2sInit, RingInv, StoreHasRoom
<1> QED
  BY <1>1, RingStep, PTL DEF I2sSpec

\* For every number and size of buffers: no buffer is queued twice, and none
\* while it is played, as long as the handler runs once per finished buffer.
THEOREM RingIsSound == I2sSpec => []RingSound
<1>1. ASSUME RingInv PROVE RingSound
  <2>1. I2sTypeOK
    BY <1>1 DEF RingInv
  <2>2. ASSUME playing, ~missed PROVE PlayingNotQueued
    <3>1. QueueIsRing
      BY <1>1, <2>2 DEF RingInv
    <3>2. /\ BufCnt \in Nat /\ BufCnt > 1 /\ Len(queue) \in Nat /\ Len(queue) <= BufCnt - 1
          /\ dma \in Bufs
      BY <2>1, RingNumbers DEF I2sTypeOK
    <3>3. window \in Nat /\ window + Len(queue) <= BufCnt /\ (~intr => window > 0)
      BY <3>2 DEF window
    <3>4. ASSUME NEW i \in 1..Len(queue)
          PROVE  /\ window + i - 1 \in 0..BufCnt - 1
                 /\ queue[i] = Ahead(dma, window + i - 1)
      BY <3>1, <3>2, <3>3 DEF QueueIsRing
    <3>5. ASSUME NEW i \in 1..Len(queue), NEW j \in 1..Len(queue), i # j PROVE queue[i] # queue[j]
      <4>1. window + i - 1 # window + j - 1
        BY <3>3, <3>5
      <4>2. \A k, l \in 0..BufCnt - 1 : Ahead(dma, k) = Ahead(dma, l) => k = l
        BY <3>2, AheadIs
      <4>3. /\ window + i - 1 \in 0..BufCnt - 1 /\ queue[i] = Ahead(dma, window + i - 1)
            /\ window + j - 1 \in 0..BufCnt - 1 /\ queue[j] = Ahead(dma, window + j - 1)
        BY <3>4
      <4> QED
        BY <4>1, <4>2, <4>3
    <3>6. ASSUME ~intr, NEW i \in 1..Len(queue) PROVE queue[i] # dma
      <4>1. window + i - 1 # 0 /\ 0 \in 0..BufCnt - 1
        BY <3>2, <3>3, <3>6
      <4>2. /\ \A k, l \in 0..BufCnt - 1 : Ahead(dma, k) = Ahead(dma, l) => k = l
            /\ Ahead(dma, 0) = dma
        BY <3>2, AheadIs
      <4>3. /\ window + i - 1 \in 0..BufCnt - 1 /\ queue[i] = Ahead(dma, window + i - 1)
        BY <3>4
      <4> QED
        BY <4>1, <4>2, <4>3
    <3> QED
      BY <3>5, <3>6 DEF PlayingNotQueued
  <2> QED
    BY <2>1, <2>2 DEF RingSound, PlayingNotQueued
<1> QED
  BY <1>1, RingInvariance, PTL

\* The writer has a buffer it has not filled.
partial == curr # None /\ pos < BufLen

\* The buffers of the window that are complete, and the last sample in them.
complete == IF partial THEN window - 1 ELSE window
stored == IF partial THEN wrote - pos ELSE wrote

\* The buffer the writer fills is the last of the window, and is not played.
PartialIsLast ==
  partial =>
    /\ currRun = run /\ window > 1 /\ curr = Ahead(dma, window - 1)
    /\ \A i \in 1..BufLen : mem[curr][i] = IF i <= pos THEN wrote - pos + i ELSE 0

QueueIsSilent == \A i \in 1..Len(queue) : mem[queue[i]] = Silence

\* R[k] is the last sample of the first k buffers of the window, or before them.
InOrder(R) ==
  /\ R \in [0..BufCnt -> Nat]
  /\ R[0] = heard /\ R[complete] = stored
  /\ \A k \in 0..complete - 1 :
       \/ mem[Ahead(dma, k)] = Silence /\ R[k + 1] = R[k]
       \/ mem[Ahead(dma, k)] = [i \in 1..BufLen |-> R[k] + i] /\ R[k + 1] = R[k] + BufLen

SamplesInv ==
  /\ RingInv
  /\ playing /\ OnTime => PartialIsLast /\ QueueIsSilent /\ \E R : InOrder(R)

\* The numbers of the window.
LEMMA WindowNumbers ==
  ASSUME RingInv
  PROVE  /\ BufCnt \in Nat /\ BufCnt > 1 /\ BufLen \in Nat /\ BufLen > 0 /\ BufLen \in 1..BufLen
         /\ dma \in Bufs /\ Len(queue) \in Nat /\ Len(queue) <= BufCnt - 1
         /\ window = BufCnt - Len(queue) - (IF intr THEN 1 ELSE 0)
         /\ window \in 0..BufCnt /\ (~intr => window > 0)
         /\ pos \in Nat /\ pos <= BufLen /\ wrote \in Nat /\ heard \in Nat
         /\ mem \in [Bufs -> [1..BufLen -> 0..MaxSamples]]
<1>1. /\ BufCnt \in Nat /\ BufCnt > 1 /\ BufLen \in Nat /\ BufLen > 0
      /\ Len(queue) \in Nat /\ Len(queue) <= BufCnt - 1
      /\ pos \in Nat /\ pos <= BufLen /\ wrote \in Nat /\ heard \in Nat
  BY RingNumbers DEF RingInv
<1>2. dma \in Bufs /\ mem \in [Bufs -> [1..BufLen -> 0..MaxSamples]]
  BY DEF RingInv, I2sTypeOK
<1> QED
  BY <1>1, <1>2 DEF window

LEMMA FinishSamples ==
  ASSUME SamplesInv, Finish, OnTime'
  PROVE  /\ PartialIsLast' /\ QueueIsSilent' /\ \E R : InOrder(R)'
         /\ mem[dma] = Silence \/ mem[dma] = [i \in 1..BufLen |-> heard + i]
<1>1. /\ playing /\ dma' = Succ(dma) /\ heard' = LastOf(mem[dma], heard)
      /\ UNCHANGED <<run, playing, ie, mem, queue, curr, currRun, pos, wpc, wrote, stale>>
  BY DEF Finish
<1>2. ~intr /\ intr' /\ OnTime /\ ~Filling(Succ(dma))
  <2>1. ~missed' /\ ~lapped' /\ ~stale'
    BY DEF OnTime
  <2>2. ~missed /\ ~intr /\ ~lapped /\ ~stale /\ ~Filling(Succ(dma))
    BY <2>1 DEF Finish
  <2>3. ie
    BY <2>1 DEF Finish
  <2> QED
    BY <2>2, <2>3 DEF OnTime, Finish
<1>3. PartialIsLast /\ QueueIsSilent /\ \E R : InOrder(R)
  BY <1>1, <1>2 DEF SamplesInv
<1>4. RingInv
  BY DEF SamplesInv
<1>5. /\ BufCnt \in Nat /\ BufCnt > 1 /\ BufLen \in Nat /\ BufLen > 0 /\ BufLen \in 1..BufLen
      /\ dma \in Bufs /\ window \in 0..BufCnt /\ window > 0 /\ wrote \in Nat /\ pos \in Nat /\ heard \in Nat
      /\ window = BufCnt - Len(queue) /\ Len(queue) \in Nat
  BY <1>2, <1>4, WindowNumbers
<1>6. window' = window - 1
  <2>1. window' = BufCnt - Len(queue) - 1
    BY <1>1, <1>2 DEF window
  <2> QED
    BY <1>5, <2>1
<1>7. partial' = partial /\ stored' = stored
  BY <1>1 DEF partial, stored, None
<1>8. /\ Succ(dma) = Ahead(dma, 1)
      /\ \A k \in 0..BufCnt - 2 : Ahead(dma', k) = Ahead(dma, k + 1)
      /\ Ahead(dma, 0) = dma
  BY <1>1, <1>5, AheadIs
<1>9. partial => window > 2
  <2> SUFFICES ASSUME partial, window = 2 PROVE FALSE
    BY <1>3, <1>5 DEF PartialIsLast
  <2>1. curr = Ahead(dma, window - 1) /\ currRun = run /\ pos < BufLen
    BY <1>3 DEF PartialIsLast, partial
  <2>2. window - 1 = 1
    OBVIOUS
  <2>3. curr = Succ(dma)
    BY <1>8, <2>1, <2>2
  <2> QED
    BY <1>2, <2>1, <2>3 DEF Filling
<1>10. PartialIsLast'
  <2> SUFFICES ASSUME partial PROVE PartialIsLast'
    BY <1>7 DEF PartialIsLast
  <2>1. /\ currRun = run /\ curr = Ahead(dma, window - 1)
        /\ \A i \in 1..BufLen : mem[curr][i] = IF i <= pos THEN wrote - pos + i ELSE 0
    BY <1>3 DEF PartialIsLast
  <2>2. window' - 1 \in 0..BufCnt - 2 /\ (window' - 1) + 1 = window - 1 /\ window' > 1
    BY <1>5, <1>6, <1>9
  <2>3. curr = Ahead(dma', window' - 1)
    BY <1>8, <2>1, <2>2
  <2> QED
    BY <1>1, <2>1, <2>2, <2>3 DEF PartialIsLast
<1>11. QueueIsSilent'
  BY <1>1, <1>3 DEF QueueIsSilent
<1>12. complete \in 1..BufCnt /\ complete' = complete - 1
  <2>1. CASE partial
    BY <1>5, <1>6, <1>7, <1>9, <2>1 DEF complete
  <2>2. CASE ~partial
    BY <1>5, <1>6, <1>7, <2>2 DEF complete
  <2> QED
    BY <2>1, <2>2
<1>13. PICK R : InOrder(R)
  BY <1>3
<1>14. /\ R \in [0..BufCnt -> Nat] /\ R[0] = heard /\ R[complete] = stored
       /\ \A k \in 0..complete - 1 :
            \/ mem[Ahead(dma, k)] = Silence /\ R[k + 1] = R[k]
            \/ mem[Ahead(dma, k)] = [i \in 1..BufLen |-> R[k] + i] /\ R[k + 1] = R[k] + BufLen
  BY <1>13 DEF InOrder
<1>15. \/ mem[dma] = Silence /\ R[1] = heard
       \/ mem[dma] = [i \in 1..BufLen |-> heard + i] /\ R[1] = heard + BufLen
  <2>1. 0 \in 0..complete - 1 /\ 0 + 1 = 1
    BY <1>12
  <2> QED
    BY <1>8, <1>14, <2>1
<1>16. heard' = R[1]
  <2>1. CASE mem[dma] = Silence /\ R[1] = heard
    BY <1>1, <1>5, <2>1 DEF LastOf, Silence
  <2>2. CASE mem[dma] = [i \in 1..BufLen |-> heard + i] /\ R[1] = heard + BufLen
    <3>1. mem[dma][BufLen] = heard + BufLen /\ heard + BufLen # 0
      BY <1>5, <2>2
    <3> QED
      BY <1>1, <2>2, <3>1 DEF LastOf
  <2> QED
    BY <1>15, <2>1, <2>2
<1> DEFINE Q == [k \in 0..BufCnt |-> IF k < BufCnt THEN R[k + 1] ELSE R[k]]
<1>17. Q \in [0..BufCnt -> Nat] /\ \A k \in 0..BufCnt - 1 : Q[k] = R[k + 1]
  BY <1>5, <1>14
<1> HIDE DEF Q
<1>18. InOrder(Q)'
  <2>1. Q[0] = heard'
    <3>1. 0 \in 0..BufCnt - 1 /\ 0 + 1 = 1
      BY <1>5
    <3> QED
      BY <1>16, <1>17, <3>1
  <2>2. Q[complete'] = stored'
    <3>1. complete' \in 0..BufCnt - 1 /\ complete' + 1 = complete
      BY <1>5, <1>12
    <3> QED
      BY <1>7, <1>14, <1>17, <3>1
  <2>3. ASSUME NEW k \in 0..complete' - 1
        PROVE  \/ mem'[Ahead(dma', k)] = Silence /\ Q[k + 1] = Q[k]
               \/ mem'[Ahead(dma', k)] = [i \in 1..BufLen |-> Q[k] + i] /\ Q[k + 1] = Q[k] + BufLen
    <3>1. /\ k + 1 \in 0..complete - 1 /\ k \in 0..BufCnt - 2
          /\ k \in 0..BufCnt - 1 /\ k + 1 \in 0..BufCnt - 1
      BY <1>5, <1>12
    <3>2. Q[k] = R[k + 1] /\ Q[k + 1] = R[k + 1 + 1] /\ Ahead(dma', k) = Ahead(dma, k + 1)
      BY <1>8, <1>17, <3>1
    <3> QED
      BY <1>1, <1>14, <3>1, <3>2
  <2> QED
    BY <1>17, <2>1, <2>2, <2>3 DEF InOrder, Silence
<1> QED
  BY <1>10, <1>11, <1>15, <1>18

LEMMA IsrSamples ==
  ASSUME SamplesInv, Isr, playing, OnTime
  PROVE  PartialIsLast' /\ QueueIsSilent' /\ \E R : InOrder(R)'
<1>1. /\ intr /\ ~intr' /\ mem' = [mem EXCEPT ![eda] = Silence]
      /\ UNCHANGED <<run, playing, dma, eda, ie, curr, currRun, pos, wpc, wrote, heard,
                     missed, lapped, stale>>
  BY DEF Isr
<1>2. /\ PartialIsLast /\ QueueIsSilent /\ (\E R : InOrder(R)) /\ RingInv /\ QueueIsRing
  BY DEF SamplesInv, RingInv, OnTime
<1>3. /\ BufCnt \in Nat /\ BufCnt > 1 /\ BufLen \in Nat /\ BufLen > 0
      /\ dma \in Bufs /\ window \in 0..BufCnt /\ wrote \in Nat /\ pos \in Nat /\ heard \in Nat
      /\ window = BufCnt - Len(queue) - 1 /\ Len(queue) \in Nat /\ Len(queue) <= BufCnt - 1
      /\ mem \in [Bufs -> [1..BufLen -> 0..MaxSamples]]
  BY <1>1, <1>2, WindowNumbers
<1>4. /\ eda = Ahead(dma, BufCnt - 1) /\ Ahead(dma, 0) = dma
      /\ \A k \in 0..BufCnt - 1 : Ahead(dma, k) \in Bufs
      /\ \A j, k \in 0..BufCnt - 1 : Ahead(dma, j) = Ahead(dma, k) => j = k
  BY <1>1, <1>2, <1>3, AheadIs DEF QueueIsRing
<1>5. /\ \A b \in Bufs : mem'[b] = IF b = eda THEN Silence ELSE mem[b]
      /\ eda \in Bufs
  BY <1>1, <1>3, <1>4
<1>6. /\ queue'[Len(queue')] = eda
      /\ Len(queue') = (IF Len(queue) = BufCnt - 1 THEN Len(queue) ELSE Len(queue) + 1)
      /\ Len(queue) = BufCnt - 1 => \A i \in 1..Len(queue) - 1 : queue'[i] = queue[i + 1]
      /\ Len(queue) # BufCnt - 1 => \A i \in 1..Len(queue) : queue'[i] = queue[i]
  BY <1>2, IsrQueue DEF RingInv
<1>7. QueueIsSilent'
  <2> SUFFICES ASSUME NEW i \in 1..Len(queue') PROVE mem'[queue'[i]] = Silence
    BY DEF QueueIsSilent, Silence
  <2>1. \A j \in 1..Len(queue) : queue[j] \in Bufs /\ mem[queue[j]] = Silence
    BY <1>2, RingNumbers DEF RingInv, QueueIsSilent
  <2>2. queue'[i] = eda \/ \E j \in 1..Len(queue) : queue'[i] = queue[j]
    <3>1. CASE i = Len(queue')
      BY <1>6, <3>1
    <3>2. CASE i # Len(queue') /\ Len(queue) = BufCnt - 1
      <4>1. i \in 1..Len(queue) - 1 /\ i + 1 \in 1..Len(queue)
        BY <1>3, <1>6, <3>2
      <4> QED
        BY <1>6, <3>2, <4>1
    <3>3. CASE i # Len(queue') /\ Len(queue) # BufCnt - 1
      <4>1. i \in 1..Len(queue)
        BY <1>3, <1>6, <3>3
      <4> QED
        BY <1>6, <3>3, <4>1
    <3> QED
      BY <3>1, <3>2, <3>3
  <2> QED
    BY <1>5, <2>1, <2>2
<1>8. window' = BufCnt - Len(queue')
  BY <1>1, <1>3, <1>6 DEF window
<1>9. partial' = partial /\ stored' = stored
  BY <1>1 DEF partial, stored, None
<1>10. CASE Len(queue) # BufCnt - 1
  <2>1. window' = window /\ window <= BufCnt - 1
    BY <1>3, <1>6, <1>8, <1>10
  <2>2. \A k \in 0..window - 1 : mem'[Ahead(dma, k)] = mem[Ahead(dma, k)]
    <3> SUFFICES ASSUME NEW k \in 0..window - 1 PROVE mem'[Ahead(dma, k)] = mem[Ahead(dma, k)]
      OBVIOUS
    <3>1. k \in 0..BufCnt - 1 /\ BufCnt - 1 \in 0..BufCnt - 1 /\ k # BufCnt - 1
      BY <1>3, <2>1
    <3> QED
      BY <1>4, <1>5, <3>1
  <2>3. PartialIsLast'
    <3> SUFFICES ASSUME partial PROVE PartialIsLast'
      BY <1>9 DEF PartialIsLast
    <3>1. /\ currRun = run /\ curr = Ahead(dma, window - 1) /\ window > 1
          /\ \A i \in 1..BufLen : mem[curr][i] = IF i <= pos THEN wrote - pos + i ELSE 0
      BY <1>2 DEF PartialIsLast
    <3>2. mem'[curr] = mem[curr]
      <4>1. window - 1 \in 0..window - 1
        BY <1>3, <3>1
      <4> QED
        BY <2>2, <3>1, <4>1
    <3> QED
      BY <1>1, <2>1, <3>1, <3>2 DEF PartialIsLast
  <2>4. complete' = complete /\ (complete = window \/ complete = window - 1)
    BY <1>9, <2>1 DEF complete
  <2>5. PICK R : InOrder(R)
    BY <1>2
  <2>6. ASSUME NEW k \in 0..complete - 1 PROVE mem'[Ahead(dma, k)] = mem[Ahead(dma, k)]
    <3>1. k \in 0..window - 1
      BY <1>3, <2>4
    <3> QED
      BY <2>2, <3>1
  <2>7. InOrder(R)'
    BY <1>1, <1>9, <2>4, <2>5, <2>6 DEF InOrder, Silence
  <2> QED
    BY <1>7, <2>3, <2>7
<1>11. CASE Len(queue) = BufCnt - 1
  <2>1. window = 0 /\ window' = 1
    BY <1>3, <1>6, <1>8, <1>11
  <2>2. ~partial
    BY <1>2, <2>1 DEF PartialIsLast
  <2>3. PartialIsLast'
    BY <1>9, <2>2 DEF PartialIsLast
  <2>4. complete = 0 /\ complete' = 1 /\ stored = wrote /\ stored' = wrote
    BY <1>9, <2>1, <2>2 DEF complete, stored
  <2>5. heard = wrote
    BY <1>2, <2>4 DEF InOrder
  <2>6. mem'[Ahead(dma, 0)] = Silence
    <3>1. 1 \in 1..Len(queue) /\ window + 1 - 1 = 0
      BY <1>3, <1>11, <2>1
    <3>2. queue[1] = Ahead(dma, 0) /\ mem[queue[1]] = Silence
      BY <1>2, <3>1 DEF QueueIsRing, QueueIsSilent
    <3> QED
      BY <1>3, <1>4, <1>5, <3>2
  <2>7. PICK Q : Q \in [0..BufCnt -> Nat] /\ Q[0] = wrote /\ Q[1] = wrote
    <3> DEFINE q == [k \in 0..BufCnt |-> wrote]
    <3>1. q \in [0..BufCnt -> Nat] /\ q[0] = wrote /\ q[1] = wrote
      BY <1>3
    <3> HIDE DEF q
    <3> QED
      BY <3>1
  <2>8. InOrder(Q)'
    <3>1. Q \in [0..BufCnt -> Nat] /\ Q[0] = heard' /\ Q[complete'] = stored'
      BY <1>1, <2>4, <2>5, <2>7
    <3>2. ASSUME NEW k \in 0..complete' - 1
          PROVE  \/ mem'[Ahead(dma', k)] = Silence /\ Q[k + 1] = Q[k]
                 \/ mem'[Ahead(dma', k)] = [i \in 1..BufLen |-> Q[k] + i] /\ Q[k + 1] = Q[k] + BufLen
      <4>1. k = 0 /\ 0 + 1 = 1
        BY <2>4
      <4> QED
        BY <1>1, <2>6, <2>7, <4>1
    <3> QED
      BY <3>1, <3>2 DEF InOrder, Silence
  <2> QED
    BY <1>7, <2>3, <2>8
<1> QED
  BY <1>10, <1>11

LEMMA TakeSamples ==
  ASSUME SamplesInv, TakeBuffer, playing, OnTime'
  PROVE  PartialIsLast' /\ QueueIsSilent' /\ \E R : InOrder(R)'
<1>1. /\ NeedsBuffer /\ curr' = Head(queue) /\ currRun' = run /\ pos' = 0
      /\ UNCHANGED <<run, playing, dma, eda, ie, intr, mem, wrote, heard, missed, stale>>
  BY DEF TakeBuffer
<1>2. OnTime /\ Head(queue) # dma
  <2>1. ~missed' /\ ~lapped' /\ ~stale'
    BY DEF OnTime
  <2>2. ~lapped /\ Head(queue) # dma
    BY <2>1 DEF TakeBuffer
  <2> QED
    BY <1>1, <2>1, <2>2 DEF OnTime
<1>3. /\ PartialIsLast /\ QueueIsSilent /\ (\E R : InOrder(R)) /\ RingInv /\ QueueIsRing
  BY <1>2 DEF SamplesInv, RingInv, OnTime
<1>4. /\ BufCnt \in Nat /\ BufCnt > 1 /\ BufLen \in Nat /\ BufLen > 0
      /\ dma \in Bufs /\ window \in 0..BufCnt /\ wrote \in Nat
  BY <1>3, WindowNumbers
<1>5. /\ curr' = queue[1] /\ Len(queue) > 0 /\ Len(queue') = Len(queue) - 1 /\ Len(queue) \in Nat
      /\ \A i \in 1..Len(queue') : queue'[i] = queue[i + 1]
  BY <1>3, TakeRing, WindowNumbers
<1>6. queue[1] = Ahead(dma, window) /\ mem[queue[1]] = Silence /\ queue[1] \in Bufs
  <2>1. 1 \in 1..Len(queue) /\ window + 1 - 1 = window
    BY <1>4, <1>5
  <2>2. queue[1] = Ahead(dma, window + 1 - 1) /\ mem[queue[1]] = Silence
    BY <1>3, <2>1 DEF QueueIsRing, QueueIsSilent
  <2> QED
    BY <1>3, <2>1, <2>2, RingNumbers DEF RingInv
<1>7. window # 0
  BY <1>1, <1>2, <1>4, <1>5, <1>6, AheadIs
<1>8. window' = window + 1
  BY <1>1, <1>4, <1>5 DEF window
<1>9. ~partial /\ partial'
  <2>1. ~partial
    BY <1>1, <1>4 DEF NeedsBuffer, partial
  <2>2. curr' # None
    BY <1>4, <1>5, <1>6 DEF Bufs, None
  <2> QED
    BY <1>1, <1>4, <2>1, <2>2 DEF partial, None
<1>10. PartialIsLast'
  <2>1. window' > 1 /\ window' - 1 = window
    BY <1>4, <1>7, <1>8
  <2>2. curr' = Ahead(dma', window' - 1) /\ currRun' = run'
    BY <1>1, <1>5, <1>6, <2>1
  <2>3. ASSUME NEW i \in 1..BufLen PROVE mem'[curr'][i] = 0 /\ ~(i <= pos')
    <3>1. mem'[curr'] = Silence
      BY <1>1, <1>5, <1>6
    <3>2. Silence[i] = 0
      BY DEF Silence
    <3> QED
      BY <1>1, <3>1, <3>2
  <2> QED
    BY <2>1, <2>2, <2>3 DEF PartialIsLast
<1>11. QueueIsSilent'
  <2> SUFFICES ASSUME NEW i \in 1..Len(queue') PROVE mem'[queue'[i]] = Silence
    BY DEF QueueIsSilent, Silence
  <2>1. i + 1 \in 1..Len(queue)
    BY <1>5
  <2> QED
    BY <1>1, <1>3, <1>5, <2>1 DEF QueueIsSilent
<1>12. complete' = complete /\ stored' = stored
  <2>1. wrote - 0 = wrote /\ (window + 1) - 1 = window
    BY <1>4
  <2> QED
    BY <1>1, <1>8, <1>9, <2>1 DEF complete, stored
<1>13. PICK R : InOrder(R)
  BY <1>3
<1>14. InOrder(R)'
  BY <1>1, <1>12, <1>13 DEF InOrder, Silence
<1> QED
  BY <1>10, <1>11, <1>14

LEMMA StoreSamples ==
  ASSUME SamplesInv, StoreSample, playing, OnTime
  PROVE  PartialIsLast' /\ QueueIsSilent' /\ \E R : InOrder(R)'
<1>1. /\ wrote' = wrote + 1 /\ pos' = pos + 1
      /\ UNCHANGED <<run, playing, dma, eda, ie, intr, queue, curr, currRun, heard, missed,
                     lapped, stale>>
  BY DEF StoreSample
<1>2. /\ PartialIsLast /\ QueueIsSilent /\ (\E R : InOrder(R)) /\ RingInv /\ QueueIsRing
  BY DEF SamplesInv, RingInv, OnTime
<1>3. /\ BufCnt \in Nat /\ BufCnt > 1 /\ BufLen \in Nat /\ BufLen > 0
      /\ dma \in Bufs /\ window \in 0..BufCnt /\ wrote \in Nat /\ pos \in Nat
      /\ Len(queue) \in Nat /\ Len(queue) <= BufCnt - 1
      /\ mem \in [Bufs -> [1..BufLen -> 0..MaxSamples]]
      /\ window = BufCnt - Len(queue) - (IF intr THEN 1 ELSE 0)
  BY <1>2, WindowNumbers
<1>4. /\ curr \in Bufs /\ pos < BufLen
      /\ mem' = IF currRun = run THEN [mem EXCEPT ![curr] = [mem[curr] EXCEPT ![pos + 1] = wrote + 1]]
                ELSE mem
  BY <1>2, StoreRing
<1>5. partial /\ curr # None
  BY <1>3, <1>4 DEF partial, Bufs, None
<1>6. /\ currRun = run /\ curr = Ahead(dma, window - 1) /\ window > 1
      /\ \A i \in 1..BufLen : mem[curr][i] = IF i <= pos THEN wrote - pos + i ELSE 0
  BY <1>2, <1>5 DEF PartialIsLast
<1>7. /\ \A b \in Bufs : b # curr => mem'[b] = mem[b]
      /\ mem'[curr] = [mem[curr] EXCEPT ![pos + 1] = wrote + 1]
  BY <1>3, <1>4, <1>6
<1>8. \A i \in 1..BufLen : mem'[curr][i] = IF i <= pos + 1 THEN wrote - pos + i ELSE 0
  <2> SUFFICES ASSUME NEW i \in 1..BufLen
               PROVE  mem'[curr][i] = IF i <= pos + 1 THEN wrote - pos + i ELSE 0
    OBVIOUS
  <2>1. mem[curr] \in [1..BufLen -> 0..MaxSamples]
    BY <1>3, <1>4
  <2>2. mem'[curr][i] = IF i = pos + 1 THEN wrote + 1 ELSE mem[curr][i]
    BY <1>7, <2>1
  <2>3. mem[curr][i] = IF i <= pos THEN wrote - pos + i ELSE 0
    BY <1>6
  <2>4. i \in Nat /\ pos \in Nat /\ wrote \in Nat
    BY <1>3
  <2> QED
    BY <2>2, <2>3, <2>4
<1>9. /\ \A k \in 0..BufCnt - 1 : Ahead(dma, k) \in Bufs
      /\ \A j, k \in 0..BufCnt - 1 : Ahead(dma, j) = Ahead(dma, k) => j = k
  BY <1>3, AheadIs
<1>10. ASSUME NEW k \in 0..BufCnt - 1, k # window - 1
       PROVE  mem'[Ahead(dma, k)] = mem[Ahead(dma, k)]
  <2>1. window - 1 \in 0..BufCnt - 1
    BY <1>3, <1>6
  <2>2. Ahead(dma, k) \in Bufs /\ Ahead(dma, k) # curr
    BY <1>6, <1>9, <1>10, <2>1
  <2> QED
    BY <1>7, <2>2
<1>11. window' = window
  BY <1>1 DEF window
<1>12. QueueIsSilent'
  <2> SUFFICES ASSUME NEW i \in 1..Len(queue) PROVE mem'[queue[i]] = Silence
    BY <1>1 DEF QueueIsSilent, Silence
  <2>1. window + i - 1 \in 0..BufCnt - 1 /\ window + i - 1 # window - 1
    BY <1>3
  <2>2. queue[i] = Ahead(dma, window + i - 1) /\ mem[queue[i]] = Silence
    BY <1>2 DEF QueueIsRing, QueueIsSilent
  <2> QED
    BY <1>10, <2>1, <2>2
<1>13. complete = window - 1 /\ stored = wrote - pos
  BY <1>5 DEF complete, stored
<1>14. PICK R : InOrder(R)
  BY <1>2
<1>15. /\ R \in [0..BufCnt -> Nat] /\ R[0] = heard /\ R[window - 1] = wrote - pos
       /\ \A k \in 0..(window - 1) - 1 :
            \/ mem[Ahead(dma, k)] = Silence /\ R[k + 1] = R[k]
            \/ mem[Ahead(dma, k)] = [i \in 1..BufLen |-> R[k] + i] /\ R[k + 1] = R[k] + BufLen
  BY <1>13, <1>14 DEF InOrder
<1>16. CASE pos + 1 < BufLen
  <2>1. partial'
    BY <1>1, <1>5, <1>16 DEF partial, None
  <2>2. complete' = window - 1 /\ stored' = wrote - pos
    BY <1>1, <1>3, <1>11, <2>1 DEF complete, stored
  <2>3. PartialIsLast'
    <3>1. (wrote + 1) - (pos + 1) = wrote - pos
      BY <1>3
    <3> QED
      BY <1>1, <1>6, <1>8, <1>11, <3>1 DEF PartialIsLast
  <2>4. ASSUME NEW k \in 0..(window - 1) - 1
        PROVE  mem'[Ahead(dma, k)] = mem[Ahead(dma, k)]
    <3>1. k \in 0..BufCnt - 1 /\ k # window - 1
      BY <1>3
    <3> QED
      BY <1>10, <3>1
  <2>5. InOrder(R)'
    BY <1>1, <1>15, <2>2, <2>4 DEF InOrder, Silence
  <2> QED
    BY <1>12, <2>3, <2>5
<1>17. CASE pos + 1 = BufLen
  <2>1. ~partial'
    BY <1>1, <1>3, <1>17 DEF partial
  <2>2. complete' = window /\ stored' = wrote + 1
    BY <1>1, <1>11, <2>1 DEF complete, stored
  <2>3. PartialIsLast'
    BY <2>1 DEF PartialIsLast
  <2>4. PICK Q : /\ Q \in [0..BufCnt -> Nat] /\ Q[window] = wrote + 1
                 /\ \A k \in 0..window - 1 : Q[k] = R[k]
    <3> DEFINE q == [R EXCEPT ![window] = wrote + 1]
    <3>1. /\ q \in [0..BufCnt -> Nat] /\ q[window] = wrote + 1
          /\ \A k \in 0..window - 1 : q[k] = R[k]
      <4>1. R \in [0..BufCnt -> Nat] /\ window \in 0..BufCnt /\ wrote + 1 \in Nat /\ BufCnt \in Nat
        <5>1. R \in [0..BufCnt -> Nat]
          BY <1>15
        <5> QED
          BY <1>3, <5>1
      <4>2. \A k \in 0..window - 1 : k \in 0..BufCnt /\ k # window
        BY <4>1
      <4> QED
        BY <4>1, <4>2
    <3> HIDE DEF q
    <3> QED
      BY <3>1
  <2>5. 0 \in 0..window - 1 /\ window - 1 \in 0..window - 1 /\ (window - 1) + 1 = window
    BY <1>3, <1>6
  <2>6. ASSUME NEW k \in 0..window - 1
        PROVE  \/ mem'[Ahead(dma, k)] = Silence /\ Q[k + 1] = Q[k]
               \/ mem'[Ahead(dma, k)] = [i \in 1..BufLen |-> Q[k] + i] /\ Q[k + 1] = Q[k] + BufLen
    <3>1. CASE k = window - 1
      <4>1. Q[k] = wrote - pos /\ Q[k + 1] = wrote + 1
        BY <1>15, <2>4, <2>5, <3>1
      <4>2. wrote + 1 = (wrote - pos) + BufLen
        BY <1>3, <1>17
      <4>3. mem'[curr] = [i \in 1..BufLen |-> (wrote - pos) + i]
        <5>1. mem'[curr] \in [1..BufLen -> 0..MaxSamples]
          <6>1. RingInv'
            BY <1>2, StoreRing
          <6> QED
            BY <1>4, <6>1 DEF RingInv, I2sTypeOK
        <5>2. \A i \in 1..BufLen : mem'[curr][i] = (wrote - pos) + i
          BY <1>3, <1>8, <1>17
        <5> QED
          BY <5>1, <5>2
      <4> QED
        BY <1>6, <3>1, <4>1, <4>2, <4>3
    <3>2. CASE k # window - 1
      <4>1. k \in 0..(window - 1) - 1 /\ k + 1 \in 0..window - 1 /\ k \in 0..BufCnt - 1
        BY <1>3, <3>2
      <4>2. mem'[Ahead(dma, k)] = mem[Ahead(dma, k)]
        BY <1>10, <3>2, <4>1
      <4>3. Q[k] = R[k] /\ Q[k + 1] = R[k + 1]
        BY <2>4, <4>1
      <4> QED
        BY <1>15, <4>1, <4>2, <4>3
    <3> QED
      BY <3>1, <3>2
  <2>7. Q[0] = heard
    BY <1>15, <2>4, <2>5
  <2>8. InOrder(Q)'
    BY <1>1, <2>2, <2>4, <2>6, <2>7 DEF InOrder, Silence
  <2> QED
    BY <1>12, <2>3, <2>8
<1> QED
  BY <1>3, <1>4, <1>16, <1>17

LEMMA BeginSamples ==
  ASSUME SamplesInv, Begin, OnTime'
  PROVE  PartialIsLast' /\ QueueIsSilent' /\ \E R : InOrder(R)'
<1>1. /\ dma' = 0 /\ intr' = FALSE /\ mem' = [b \in Bufs |-> Silence] /\ queue' = <<>>
      /\ heard' = wrote /\ stale' = (curr # None /\ pos < BufLen)
      /\ UNCHANGED <<curr, pos, wrote>>
  BY DEF Begin
<1>2. BufCnt \in Nat /\ BufCnt > 1 /\ wrote \in Nat
  BY WindowNumbers DEF SamplesInv
<1>3. ~partial'
  BY <1>1 DEF OnTime, partial, None
<1>4. PartialIsLast'
  BY <1>3 DEF PartialIsLast
<1>5. QueueIsSilent'
  BY <1>1 DEF QueueIsSilent
<1>6. window' = BufCnt
  BY <1>1, <1>2 DEF window
<1>7. complete' = BufCnt /\ stored' = wrote
  BY <1>1, <1>3, <1>6 DEF complete, stored
<1>8. PICK Q : Q \in [0..BufCnt -> Nat] /\ \A k \in 0..BufCnt : Q[k] = wrote
  <2> DEFINE q == [k \in 0..BufCnt |-> wrote]
  <2>1. q \in [0..BufCnt -> Nat] /\ \A k \in 0..BufCnt : q[k] = wrote
    BY <1>2
  <2> HIDE DEF q
  <2> QED
    BY <2>1
<1>9. Q[0] = heard' /\ Q[complete'] = stored'
  BY <1>1, <1>2, <1>7, <1>8
<1>10. ASSUME NEW k \in 0..BufCnt - 1
       PROVE  mem'[Ahead(dma', k)] = Silence /\ Q[k + 1] = Q[k]
  <2>1. 0 \in Bufs /\ k \in 0..BufCnt /\ k + 1 \in 0..BufCnt
    BY <1>2 DEF Bufs
  <2>2. Ahead(dma', k) \in Bufs
    BY <1>1, <1>2, <2>1, AheadIs
  <2> QED
    BY <1>1, <1>8, <2>1, <2>2
<1>11. InOrder(Q)'
  BY <1>7, <1>8, <1>9, <1>10 DEF InOrder, Silence
<1> QED
  BY <1>4, <1>5, <1>11

\* What holds of the samples does not depend on ie, wpc or the flags.
LEMMA SamplesKept ==
  ASSUME SamplesInv, playing, OnTime,
         UNCHANGED <<run, dma, intr, mem, queue, curr, currRun, pos, wrote, heard>>
  PROVE  PartialIsLast' /\ QueueIsSilent' /\ \E R : InOrder(R)'
<1>1. /\ PartialIsLast /\ QueueIsSilent /\ \E R : InOrder(R)
  BY DEF SamplesInv
<1>2. window' = window /\ partial' = partial
  BY DEF window, partial, None
<1>3. complete' = complete /\ stored' = stored
  BY <1>2 DEF complete, stored
<1>4. PartialIsLast' /\ QueueIsSilent'
  BY <1>1, <1>2 DEF PartialIsLast, QueueIsSilent, Silence
<1>5. PICK R : InOrder(R)
  BY <1>1
<1>6. InOrder(R)'
  BY <1>3, <1>5 DEF InOrder, Silence
<1> QED
  BY <1>4, <1>6

LEMMA SamplesStep ==
  ASSUME SamplesInv, [I2sNext]_i2svars
  PROVE  SamplesInv'
<1>1. RingInv'
  BY RingStep DEF SamplesInv
<1>2. SUFFICES ASSUME playing', OnTime'
               PROVE  PartialIsLast' /\ QueueIsSilent' /\ \E R : InOrder(R)'
  BY <1>1 DEF SamplesInv
<1>3. CASE Begin
  BY <1>2, <1>3, BeginSamples
<1>4. CASE Mask \/ End
  <2>1. /\ UNCHANGED <<run, dma, intr, mem, queue, curr, currRun, pos, wrote, heard>>
        /\ playing /\ OnTime
    <3>1. /\ missed' = (missed \/ intr) /\ intr' = FALSE /\ playing
          /\ UNCHANGED <<run, dma, mem, queue, curr, currRun, pos, wrote, heard, lapped, stale>>
      BY <1>4 DEF Mask, End, MaskInterrupt
    <3>2. ~missed /\ ~intr /\ ~lapped /\ ~stale
      BY <1>2, <3>1, Zenon DEF OnTime
    <3>3. intr \in BOOLEAN
      BY DEF SamplesInv, RingInv, I2sTypeOK
    <3> QED
      BY <3>1, <3>2, <3>3 DEF OnTime
  <2> QED
    BY <2>1, SamplesKept
<1>5. CASE Finish
  BY <1>2, <1>5, FinishSamples
<1>6. CASE Isr
  <2>1. playing /\ OnTime
    BY <1>2, <1>6 DEF Isr, OnTime
  <2> QED
    BY <1>6, <2>1, IsrSamples
<1>7. CASE TakeBuffer
  <2>1. playing
    BY <1>2, <1>7 DEF TakeBuffer
  <2> QED
    BY <1>2, <1>7, <2>1, TakeSamples
<1>8. CASE StoreSample
  <2>1. playing /\ OnTime
    BY <1>2, <1>8 DEF StoreSample, OnTime
  <2> QED
    BY <1>8, <2>1, StoreSamples
<1>9. CASE KeepBuffer \/ UNCHANGED i2svars
  <2>1. /\ UNCHANGED <<run, playing, dma, intr, mem, queue, curr, currRun, pos, wrote, heard>>
        /\ playing /\ OnTime
    <3>1. UNCHANGED <<run, playing, dma, intr, mem, queue, curr, currRun, pos, wrote, heard, missed,
                      lapped, stale>>
      BY <1>9 DEF KeepBuffer, i2svars
    <3>2. playing /\ OnTime
      BY <1>2, <3>1, Zenon DEF OnTime
    <3> QED
      BY <3>1, <3>2
  <2> QED
    BY <2>1, SamplesKept
<1> QED
  BY <1>3, <1>4, <1>5, <1>6, <1>7, <1>8, <1>9 DEF I2sNext, Writer

\* For every number and size of buffers, and however engine, handler and writer
\* interleave: every sample is played exactly once and in order while all of
\* them are on time.
THEOREM SamplesPlayedOnce == I2sSpec => EverySampleOnce
<1>1. I2sInit /\ RingInv => SamplesInv
  BY DEF I2sInit, SamplesInv
<1>2. ASSUME SamplesInv, [I2sNext]_i2svars
      PROVE  [ Finish /\ OnTime' =>
                 \/ mem[dma] = Silence
                 \/ mem[dma] = [i \in 1..BufLen |-> heard + i] ]_i2svars
  BY <1>2, FinishSamples
<1> QED
  BY <1>1, <1>2, RingInvariance, SamplesStep, PTL DEF I2sSpec, EverySampleOnce
===============================================================================
