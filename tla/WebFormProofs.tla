----------------------------- MODULE WebFormProofs -----------------------------
(***************************************************************************)
(* Theorems about multipart forms, for every boundary, every size of the   *)
(* upload buffer and every number and size of parts: the upload handler    *)
(* gets exactly the file, or a prefix of it and an abort, and the          *)
(* arguments are the fields of the form and then those of the URL.         *)
(***************************************************************************)
EXTENDS WebForm, SequenceTheorems, WellFoundedInduction, TLAPS

\* What argByte, endBuf and the upload buffer may hold.
Char == Bytes \cup {CR, LF, DASH, FF}

\* Where a file is being read.
Reading == {"readfile", "cr", "crlf", "dash", "end"}

\* What the handler has been given or will be, whatever comes.
Stored == got \o buf

\* What the peer has sent of the file and the delimiter behind it.
Stream == content \o SubSeq(Delimiter, 1, at)

\* What _parseForm holds back because a delimiter may have begun.
Held ==
  IF pc = "cr" THEN <<CR>>
  ELSE IF pc = "crlf" THEN <<CR, LF>>
  ELSE IF pc = "dash" THEN <<CR, LF, DASH>>
  ELSE IF pc = "end" THEN <<CR, LF, DASH, DASH>> \o endBuf
  ELSE <<>>

\* Every byte sent is stored, held back or in argByte, in this order.
Accounted ==
  \/ byte = NONE /\ Stream = Stored \o Held
  \/ byte # NONE /\ Stream = Stored \o Append(Held, byte)
  \/ byte = FF /\ ~open /\ Stream = Stored \o Held

WebTypes ==
  /\ FormTypeOK
  /\ content \in Seq(Bytes) /\ got \in Seq(Char) /\ buf \in Seq(Char)
  /\ postArgs \in Seq(Int) /\ fields \in Seq(Int)
  /\ swallowed \in BOOLEAN /\ stale \in BOOLEAN /\ overrun \in BOOLEAN

\* The state of the upload follows from the place in _parseForm.
Told ==
  /\ status = "WRITE" <=> pc \in Reading
  /\ status = "ABORTED" => ~open /\ pc = "false"
  /\ pc = "end" => byte = NONE

Legal == (sent = "file" => at = 0) /\ ~EndsWith(content, Delimiter)

FileInv ==
  /\ Len(buf) <= BufLen /\ totalSize = Len(got)
  /\ pc \in Reading /\ ~stale => Accounted
  /\ pc \in Reading /\ ~stale /\ ~swallowed => Len(Stored) <= Len(content)
  /\ status = "ABORTED" /\ ~stale /\ ~swallowed => IsPrefix(got, content)
  /\ status = "END" /\ ~stale => got = content

FieldInv ==
  /\ pc # "true" => postArgs = fields
  /\ ~overrun => Len(postArgs) <= ARGS
  /\ FieldsCollected

FormInv == WebTypes /\ Told /\ Legal /\ FileInv /\ FieldInv

-------------------------------------------------------------------------------
(* Sequences. *)

\* An append to the second part of a concatenation.
LEMMA AppendConcat ==
  ASSUME NEW S
  PROVE  \A s, t \in Seq(S), e \in S : s \o Append(t, e) = Append(s \o t, e)
<1> TAKE s \in Seq(S), t \in Seq(S), e \in S
<1>1. Append(s \o t, e) = (s \o t) \o <<e>> /\ Append(t, e) = t \o <<e>>
  BY ConcatProperties, AppendIsConcat
<1>2. <<e>> \in Seq(S)
  OBVIOUS
<1> QED BY <1>1, <1>2, ConcatAssociative

\* The elements of a concatenation.
LEMMA ConcatAt ==
  ASSUME NEW S, NEW s \in Seq(S), NEW t \in Seq(S)
  PROVE  /\ s \o t \in Seq(S) /\ Len(s \o t) = Len(s) + Len(t) /\ Len(s) \in Nat /\ Len(t) \in Nat
         /\ \A i \in 1..Len(s) : (s \o t)[i] = s[i]
         /\ \A i \in 1..Len(t) : (s \o t)[Len(s) + i] = t[i]
<1>1. Len(s) \in Nat /\ Len(t) \in Nat /\ s \o t \in Seq(S) /\ Len(s \o t) = Len(s) + Len(t)
  BY LenProperties, ConcatProperties
<1>2. \A i \in 1..Len(s) + Len(t) : (s \o t)[i] = IF i <= Len(s) THEN s[i] ELSE t[i - Len(s)]
  BY ConcatProperties
<1>3. ASSUME NEW i \in 1..Len(s) PROVE (s \o t)[i] = s[i]
  BY <1>1, <1>2
<1>4. ASSUME NEW i \in 1..Len(t) PROVE (s \o t)[Len(s) + i] = t[i]
  <2>1. Len(s) + i \in 1..Len(s) + Len(t) /\ ~(Len(s) + i <= Len(s)) /\ (Len(s) + i) - Len(s) = i
    BY <1>1
  <2> QED BY <1>2, <2>1
<1> QED BY <1>1, <1>3, <1>4

-------------------------------------------------------------------------------
(* Induction up to n. *)

\* A set of natural numbers has a least element.
LEMMA LeastNat ==
  ASSUME NEW T, T \subseteq Nat, T # {}
  PROVE  \E x \in T : \A y \in T : x <= y
<1>1. PICK x \in T : \A y \in T : ~(<<y, x>> \in OpToRel(<, Nat))
  BY NatLessThanWellFounded, WFMin
<1>2. \A y \in T : ~(y < x)
  BY <1>1 DEF OpToRel
<1> QED
  BY <1>2

\* Induction up to n, for membership of a set.
LEMMA NatSetInduction ==
  ASSUME NEW n \in Nat, NEW S, 0 \in S, \A k \in 0..n-1 : k \in S => k + 1 \in S
  PROVE  \A k \in 0..n : k \in S
<1> SUFFICES ASSUME NEW k \in 0..n, k \notin S PROVE FALSE
  OBVIOUS
<1> DEFINE T == {j \in 0..n : j \notin S}
<1>1. PICK x \in T : \A y \in T : x <= y
  <2>1. T \subseteq Nat /\ T # {}
    OBVIOUS
  <2> HIDE DEF T
  <2> QED BY <2>1, LeastNat
<1>2. x # 0 /\ x \in 1..n
  BY <1>1
<1>3. x - 1 \in 0..n-1
  BY <1>2
<1>4. x - 1 \in S
  BY <1>1, <1>3
<1>5. (x - 1) + 1 = x
  BY <1>2
<1> QED
  BY <1>1, <1>3, <1>4, <1>5

\* g takes n steps of F from b.
Iterates(g, n, A, b, F) ==
  g \in [0..n -> A] /\ g[0] = b /\ \A m \in 1..n : g[m] = F[m][g[m-1]]

\* There is such a function.
LEMMA FoldExists ==
  ASSUME NEW n \in Nat, NEW A, NEW b \in A, NEW F \in [1..n -> [A -> A]]
  PROVE  \E g : Iterates(g, n, A, b, F)
<1> DEFINE P(k) == \E g \in [0..k -> A] : g[0] = b /\ \A m \in 1..k : g[m] = F[m][g[m-1]]
           S == {k \in 0..n : P(k)}
<1>1. 0 \in S
  <2>1. [m \in 0..0 |-> b] \in [0..0 -> A]
    OBVIOUS
  <2>2. P(0)
    <3> WITNESS [m \in 0..0 |-> b] \in [0..0 -> A]
    <3> QED OBVIOUS
  <2> QED BY <2>2
<1>2. ASSUME NEW k \in 0..n-1, k \in S PROVE k + 1 \in S
  <2>1. PICK g \in [0..k -> A] : g[0] = b /\ \A m \in 1..k : g[m] = F[m][g[m-1]]
    BY <1>2
  <2> DEFINE v == F[k+1][g[k]]
             h == [m \in 0..k+1 |-> IF m = k + 1 THEN v ELSE g[m]]
  <2>2. v \in A
    OBVIOUS
  <2> HIDE DEF v
  <2>3. h \in [0..k+1 -> A]
    BY <2>2
  <2>4. h[0] = b
    BY <2>1
  <2>5. ASSUME NEW m \in 1..k+1 PROVE h[m] = F[m][h[m-1]]
    <3>1. CASE m = k + 1
      <4>1. h[m] = v /\ m - 1 = k /\ h[m-1] = g[k]
        BY <3>1
      <4> QED BY <4>1, <3>1 DEF v
    <3>2. CASE m # k + 1
      <4>1. m \in 1..k /\ m - 1 \in 0..k /\ m - 1 # k + 1 /\ m \in 0..k+1 /\ m - 1 \in 0..k+1
        BY <3>2
      <4>2. h[m] = g[m] /\ h[m-1] = g[m-1]
        BY <4>1
      <4> QED BY <4>1, <4>2, <2>1
    <3> QED BY <3>1, <3>2
  <2> HIDE DEF h
  <2>6. P(k+1)
    BY <2>3, <2>4, <2>5
  <2>7. k + 1 \in 0..n
    OBVIOUS
  <2> QED BY <2>6, <2>7
<1>3. n \in S
  <2> HIDE DEF S
  <2>1. \A k \in 0..n : k \in S
    BY <1>1, <1>2, NatSetInduction
  <2> QED BY <2>1
<1> QED BY <1>3 DEF Iterates

-------------------------------------------------------------------------------
(* _uploadWriteByte. *)

\* The upload buffer, what the handler has, and totalSize.
Uploads ==
  {a \in [buf : Seq(Char), got : Seq(Char), total : Nat] : Len(a.buf) <= BufLen /\ a.total = Len(a.got)}

\* One byte: stored behind what was stored before.
LEMMA WrittenOne ==
  ASSUME NEW a \in Uploads, NEW b \in Char
  PROVE  /\ Written(a, b) \in Uploads
         /\ Written(a, b).got \o Written(a, b).buf = Append(a.got \o a.buf, b)
<1>1. /\ a \in [buf : Seq(Char), got : Seq(Char), total : Nat]
      /\ a.buf \in Seq(Char) /\ a.got \in Seq(Char) /\ a.total = Len(a.got) /\ Len(a.buf) <= BufLen
      /\ Len(a.buf) \in Nat /\ Len(a.got) \in Nat /\ BufLen \in Nat /\ BufLen > 0
  BY LenProperties, FormAssumption DEF Uploads
<1>2. CASE Len(a.buf) = BufLen
  <2>1. Written(a, b) = [buf |-> <<b>>, got |-> a.got \o a.buf, total |-> a.total + BufLen]
    BY <1>2 DEF Written
  <2>2. a.got \o a.buf \in Seq(Char) /\ Len(a.got \o a.buf) = Len(a.got) + Len(a.buf)
    BY <1>1, ConcatAt
  <2>3. <<b>> \in Seq(Char) /\ Len(<<b>>) = 1
    OBVIOUS
  <2>4. Written(a, b) \in Uploads
    BY <1>1, <1>2, <2>1, <2>2, <2>3 DEF Uploads
  <2>5. Append(a.got \o a.buf, b) = (a.got \o a.buf) \o <<b>>
    BY <2>2, AppendIsConcat
  <2>6. a.got \o a.buf = Written(a, b).got /\ <<b>> = Written(a, b).buf
    <3>1. PICK x, y : x = a.got \o a.buf /\ y = <<b>>
      OBVIOUS
    <3>2. Written(a, b) = [buf |-> y, got |-> x, total |-> a.total + BufLen]
      BY <2>1, <3>1, Zenon
    <3>3. Written(a, b).got = x /\ Written(a, b).buf = y
      BY <3>2
    <3> QED BY <3>1, <3>3, Zenon
  <2> QED BY <2>4, <2>5, <2>6
<1>3. CASE Len(a.buf) # BufLen
  <2>1. Written(a, b) = [a EXCEPT !.buf = Append(a.buf, b)]
    BY <1>3 DEF Written
  <2>2. Written(a, b) = [buf |-> Append(a.buf, b), got |-> a.got, total |-> a.total]
    BY <1>1, <2>1
  <2>3. Append(a.buf, b) \in Seq(Char) /\ Len(Append(a.buf, b)) = Len(a.buf) + 1
    BY <1>1, AppendProperties
  <2>4. Written(a, b) \in Uploads
    BY <1>1, <1>3, <2>2, <2>3 DEF Uploads
  <2>5. a.got \o Append(a.buf, b) = Append(a.got \o a.buf, b)
    BY <1>1, AppendConcat
  <2>6. Written(a, b).got = a.got /\ Written(a, b).buf = Append(a.buf, b)
    BY <2>2
  <2> QED BY <2>4, <2>5, <2>6
<1> QED BY <1>2, <1>3

\* The bytes one after the other: the recursion has a solution.
LEMMA WrittenSteps ==
  ASSUME NEW a \in Uploads, NEW bytes \in Seq(Char)
  PROVE  /\ WrittenOf(a, bytes)[0] = a
         /\ \A m \in 1..Len(bytes) : WrittenOf(a, bytes)[m] = Written(WrittenOf(a, bytes)[m - 1], bytes[m])
<1> DEFINE F == [m \in 1..Len(bytes) |-> [x \in Uploads |-> Written(x, bytes[m])]]
           Solves(f) == f = [m \in 0..Len(bytes) |-> IF m = 0 THEN a ELSE Written(f[m - 1], bytes[m])]
<1>1. Len(bytes) \in Nat
  BY LenProperties
<1>3. ASSUME NEW m \in 1..Len(bytes), NEW x \in Uploads PROVE Written(x, bytes[m]) \in Uploads
  <2>1. bytes[m] \in Char
    BY ElementOfSeq
  <2> QED BY <2>1, WrittenOne
<1>4. F \in [1..Len(bytes) -> [Uploads -> Uploads]]
  BY <1>3
<1>5. \A m \in 1..Len(bytes), x \in Uploads : F[m][x] = Written(x, bytes[m])
  OBVIOUS
<1> HIDE DEF F
<1>6. PICK g : Iterates(g, Len(bytes), Uploads, a, F)
  BY <1>1, <1>4, FoldExists
<1>7. ASSUME NEW m \in 0..Len(bytes) PROVE g[m] = IF m = 0 THEN a ELSE Written(g[m - 1], bytes[m])
  <2>1. CASE m = 0
    BY <1>6, <2>1 DEF Iterates
  <2>2. CASE m # 0
    <3>1. m \in 1..Len(bytes) /\ m - 1 \in 0..Len(bytes)
      BY <1>1, <2>2
    <3> QED BY <1>5, <1>6, <2>2, <3>1 DEF Iterates
  <2> QED BY <2>1, <2>2
<1>8. Solves(g)
  <2>1. g = [m \in 0..Len(bytes) |-> g[m]]
    BY <1>6 DEF Iterates
  <2> QED BY <1>7, <2>1
<1>9. WrittenOf(a, bytes) = CHOOSE f : Solves(f)
  BY DEF WrittenOf
<1>10. Solves(WrittenOf(a, bytes))
  <2> HIDE DEF Solves
  <2> QED BY <1>8, <1>9
<1> DEFINE f == WrittenOf(a, bytes)
<1> HIDE DEF f
<1>11. f = [m \in 0..Len(bytes) |-> IF m = 0 THEN a ELSE Written(f[m - 1], bytes[m])]
  BY <1>10 DEF f
<1>12. f[0] = a /\ \A m \in 1..Len(bytes) : f[m] = Written(f[m - 1], bytes[m])
  <2>1. 0 \in 0..Len(bytes) /\ \A m \in 1..Len(bytes) : m \in 0..Len(bytes) /\ m # 0
    BY <1>1
  <2> QED BY <1>11, <2>1
<1> QED BY <1>12 DEF f

\* So the bytes follow, in their order, what was stored before.
LEMMA WrittenAll ==
  ASSUME NEW a \in Uploads, NEW bytes \in Seq(Char), NEW z, z = WrittenOf(a, bytes)[Len(bytes)]
  PROVE  z \in Uploads /\ z.got \o z.buf = (a.got \o a.buf) \o bytes
<1> DEFINE f == WrittenOf(a, bytes)
           old == a.got \o a.buf
           Good(m) == f[m] \in Uploads /\ f[m].got \o f[m].buf = old \o SubSeq(bytes, 1, m)
           S == {m \in 0..Len(bytes) : Good(m)}
<1>1. Len(bytes) \in Nat /\ old \in Seq(Char)
  BY LenProperties, ConcatAt DEF Uploads
<1>2. f[0] = a /\ \A m \in 1..Len(bytes) : f[m] = Written(f[m - 1], bytes[m])
  BY WrittenSteps
<1> HIDE DEF f, old
<1>3. 0 \in S
  <2>1. SubSeq(bytes, 1, 0) = <<>>
    BY SubSeqEmpty
  <2>2. old \o <<>> = old
    BY <1>1, ConcatEmptySeq
  <2>3. Good(0)
    BY <1>2, <2>1, <2>2 DEF old
  <2>4. 0 \in 0..Len(bytes)
    BY <1>1
  <2> HIDE DEF Good
  <2> QED BY <2>3, <2>4
<1>4. ASSUME NEW k \in 0..Len(bytes) - 1, k \in S PROVE k + 1 \in S
  <2>1. k + 1 \in 1..Len(bytes) /\ k + 1 \in 0..Len(bytes) /\ (k + 1) - 1 = k /\ bytes[k + 1] \in Char
    BY <1>1, ElementOfSeq
  <2>2. f[k + 1] = Written(f[k], bytes[k + 1])
    BY <1>2, <2>1
  <2>3. f[k] \in Uploads /\ f[k].got \o f[k].buf = old \o SubSeq(bytes, 1, k)
    BY <1>4
  <2>4. /\ f[k + 1] \in Uploads
        /\ f[k + 1].got \o f[k + 1].buf = Append(old \o SubSeq(bytes, 1, k), bytes[k + 1])
    BY <2>1, <2>2, <2>3, WrittenOne
  <2>5. SubSeq(bytes, 1, k + 1) = Append(SubSeq(bytes, 1, k), bytes[k + 1]) /\ SubSeq(bytes, 1, k) \in Seq(Char)
    <3>1. SubSeq(bytes, 1, k) \in Seq(Char)
      <4>1. \A i \in 1..k : bytes[i] \in Char
        BY <1>1, ElementOfSeq
      <4> QED BY <4>1, SubSeqProperties
    <3>2. SubSeq(bytes, 1, k + 1) = SubSeq(bytes, 1, k) \o <<bytes[k + 1]>>
      BY <1>1, <2>1, SubSeqRecursiveSecond
    <3> QED BY <2>1, <3>1, <3>2, AppendIsConcat
  <2>6. old \o SubSeq(bytes, 1, k + 1) = Append(old \o SubSeq(bytes, 1, k), bytes[k + 1])
    BY <1>1, <2>1, <2>5, AppendConcat
  <2>7. Good(k + 1)
    BY <2>4, <2>6, Zenon
  <2> HIDE DEF Good
  <2> QED BY <2>1, <2>7
<1>5. Len(bytes) \in S
  <2> HIDE DEF S
  <2>1. \A k \in 0..Len(bytes) : k \in S
    BY <1>1, <1>3, <1>4, NatSetInduction
  <2> QED BY <1>1, <2>1
<1>6. SubSeq(bytes, 1, Len(bytes)) = bytes
  BY SubSeqFull
<1> QED BY <1>5, <1>6 DEF f, old

\* What a call of _uploadWriteByte for each byte does.
LEMMA WriteStores ==
  ASSUME WebTypes, FileInv, NEW bytes \in Seq(Char), Write(bytes)
  PROVE  /\ buf' \in Seq(Char) /\ got' \in Seq(Char) /\ Len(buf') <= BufLen /\ totalSize' = Len(got')
         /\ Stored' = Stored \o bytes
<1> DEFINE a == [buf |-> buf, got |-> got, total |-> totalSize]
<1>1. a \in Uploads /\ a.got = got /\ a.buf = buf
  BY LenProperties DEF Uploads, WebTypes, FileInv
<1>2. PICK z : z = WrittenOf(a, bytes)[Len(bytes)]
  OBVIOUS
<1>3. buf' = z.buf /\ got' = z.got /\ totalSize' = z.total
  BY <1>2 DEF Write
<1> HIDE DEF a
<1>4. z \in Uploads /\ z.got \o z.buf = (got \o buf) \o bytes
  BY <1>1, <1>2, WrittenAll
<1> QED BY <1>3, <1>4 DEF Uploads, Stored
-------------------------------------------------------------------------------
(* The delimiter and the stream. *)

\* A delimiter begins with the only CR in it.
LEMMA DelimiterParts ==
  /\ Delimiter \in Seq(Char) /\ Len(Boundary) \in Nat /\ Len(Boundary) >= 1 /\ Len(Delimiter) = 4 + Len(Boundary)
  /\ Delimiter[1] = CR /\ Delimiter[2] = LF /\ Delimiter[3] = DASH /\ Delimiter[4] = DASH
  /\ \A i \in 2..Len(Delimiter) : Delimiter[i] # CR
<1>1. /\ Boundary \in Seq(Char) /\ Len(Boundary) \in Nat /\ Len(Boundary) >= 1
      /\ \A i \in 1..Len(Boundary) : Boundary[i] # CR
  <2>1. Boundary \in Seq(Bytes) /\ Boundary # <<>>
    BY FormAssumption
  <2>2. Len(Boundary) \in Nat /\ Boundary \in [1..Len(Boundary) -> Bytes]
    BY <2>1, LenProperties
  <2>3. Len(Boundary) # 0
    BY <2>1, EmptySeq
  <2>4. Boundary \in Seq(Char)
    BY <2>1 DEF Char
  <2> QED BY <2>2, <2>3, <2>4, FormAssumption DEF CR
<1>2. PICK four : four = <<CR, LF, DASH, DASH>>
  OBVIOUS
<1>3. four \in Seq(Char) /\ Len(four) = 4 /\ four[1] = CR /\ four[2] = LF /\ four[3] = DASH /\ four[4] = DASH
  BY <1>2 DEF Char
<1>4. Delimiter = four \o Boundary
  BY <1>2 DEF Delimiter
<1>5. /\ Delimiter \in Seq(Char) /\ Len(Delimiter) = 4 + Len(Boundary)
      /\ \A i \in 1..4 : Delimiter[i] = four[i]
      /\ \A i \in 1..Len(Boundary) : Delimiter[4 + i] = Boundary[i]
  <2>1. four \in Seq(Char) /\ Boundary \in Seq(Char)
    BY <1>1, <1>3
  <2>2. /\ Delimiter \in Seq(Char) /\ Len(Delimiter) = Len(four) + Len(Boundary)
        /\ \A i \in 1..Len(four) : Delimiter[i] = four[i]
        /\ \A i \in 1..Len(Boundary) : Delimiter[Len(four) + i] = Boundary[i]
    BY <1>4, <2>1, ConcatAt
  <2> QED BY <1>3, <2>2
<1>6. ASSUME NEW i \in 2..Len(Delimiter) PROVE Delimiter[i] # CR
  <2>1. CASE i \in 2..4
    <3>1. i = 2 \/ i = 3 \/ i = 4
      BY <2>1
    <3> QED BY <1>3, <1>5, <3>1 DEF CR, LF, DASH
  <2>2. CASE i > 4
    <3>1. i - 4 \in 1..Len(Boundary) /\ 4 + (i - 4) = i
      BY <1>1, <1>5, <2>2
    <3> QED BY <1>1, <1>5, <3>1
  <2> QED BY <1>1, <1>5, <2>1, <2>2
<1> QED BY <1>1, <1>3, <1>5, <1>6

\* The elements of what the peer has sent.
LEMMA StreamParts ==
  ASSUME WebTypes
  PROVE  /\ content \in Seq(Char) /\ Len(content) \in Nat /\ at \in Nat /\ at <= Len(Delimiter)
         /\ SubSeq(Delimiter, 1, at) \in Seq(Char) /\ Len(SubSeq(Delimiter, 1, at)) = at
         /\ Stream \in Seq(Char) /\ Len(Stream) = Len(content) + at
         /\ \A i \in 1..Len(content) : Stream[i] = content[i]
         /\ \A i \in 1..at : Stream[Len(content) + i] = Delimiter[i]
<1>1. content \in Seq(Char) /\ Len(content) \in Nat /\ at \in Nat /\ at <= Len(Delimiter) /\ Len(Delimiter) \in Nat
  <2>1. content \in Seq(Char)
    BY DEF WebTypes, Char
  <2> QED BY <2>1, LenProperties, DelimiterParts DEF WebTypes, FormTypeOK
<1>2. PICK d : d = SubSeq(Delimiter, 1, at)
  OBVIOUS
<1>3. d \in Seq(Char) /\ Len(d) = at /\ \A i \in 1..at : d[i] = Delimiter[i]
  <2>1. \A i \in 1..at : Delimiter[i] \in Char
    BY <1>1, DelimiterParts, ElementOfSeq
  <2> QED BY <1>1, <1>2, <2>1, SubSeqProperties
<1>4. Stream = content \o d
  BY <1>2 DEF Stream
<1> QED BY <1>1, <1>2, <1>3, <1>4, ConcatAt

\* The peer's next byte comes at the end of the stream.
LEMMA SendsAppends ==
  ASSUME WebTypes, Legal, NEW b \in Bytes, Sends(b)
  PROVE  /\ Stream' = Append(Stream, b) /\ Legal'
         /\ content' \in Seq(Bytes) /\ Len(content') \in Nat /\ Len(content) <= Len(content')
         /\ at' \in 0..Len(Delimiter) /\ sent' \in {"file", "delim"}
         /\ parts' = parts /\ fields' = fields
<1>1. content \in Seq(Bytes) /\ Len(content) \in Nat /\ Len(Delimiter) \in Nat /\ at \in 0..Len(Delimiter)
  BY StreamParts, DelimiterParts DEF WebTypes, FormTypeOK
<1>2. CASE /\ sent = "file" /\ content' = Append(content, b) /\ ~EndsWith(content', Delimiter)
           /\ UNCHANGED <<sent, at, parts, fields>>
  <2>1. at = 0 /\ at' = 0
    BY <1>2 DEF Legal
  <2>2. SubSeq(Delimiter, 1, 0) = <<>>
    BY SubSeqEmpty
  <2>3. content' \in Seq(Bytes) /\ Len(content') = Len(content) + 1
    BY <1>1, <1>2, AppendProperties
  <2>4. content \o <<>> = content /\ content' \o <<>> = content'
    BY <1>1, <2>3, ConcatEmptySeq
  <2>5. Stream = content /\ Stream' = content'
    BY <2>1, <2>2, <2>4, Zenon DEF Stream
  <2>6. Stream' = Append(Stream, b)
    BY <1>2, <2>5
  <2>7. Legal'
    BY <1>2, <2>1 DEF Legal
  <2> QED BY <1>1, <1>2, <2>1, <2>3, <2>6, <2>7
<1>3. CASE /\ at < Len(Delimiter) /\ b = Delimiter[at + 1] /\ sent' = "delim" /\ at' = at + 1
           /\ UNCHANGED <<parts, content, fields>>
  <2>1. PICK d : d = SubSeq(Delimiter, 1, at)
    OBVIOUS
  <2>2. d \in Seq(Char) /\ content \in Seq(Char) /\ b \in Char
    BY <2>1, StreamParts DEF Char
  <2>3. at + 1 \in 1..Len(Delimiter) /\ (at + 1) - 1 = at
    BY <1>1, <1>3
  <2>4. SubSeq(Delimiter, 1, at + 1) = d \o <<b>>
    BY <1>1, <1>3, <2>1, <2>3, DelimiterParts, SubSeqRecursiveSecond
  <2>5. d \o <<b>> = Append(d, b)
    BY <2>2, AppendIsConcat
  <2>6. Stream' = content \o Append(d, b)
    BY <1>3, <2>4, <2>5, Zenon DEF Stream, Delimiter
  <2>7. Stream = content \o d
    BY <2>1 DEF Stream
  <2>8. content \o Append(d, b) = Append(content \o d, b)
    BY <2>2, AppendConcat
  <2>9. Stream' = Append(Stream, b)
    BY <2>6, <2>7, <2>8, Zenon
  <2>10. Legal'
    BY <1>3 DEF Legal, Delimiter
  <2> QED BY <1>1, <1>3, <2>3, <2>9, <2>10
<1> QED BY <1>2, <1>3 DEF Sends

\* A byte that is not the delimiter's next after what is held back: what is
\* held back is content, for the delimiter has but one CR to begin with.
LEMMA HeldIsContent ==
  ASSUME WebTypes, NEW held \in Seq(Char), NEW b \in Char,
         \A i \in 1..Len(held) : held[i] = Delimiter[i], Len(held) < Len(Delimiter),
         b # Delimiter[Len(held) + 1],
         Stream = Stored \o Append(held, b), Len(Stored) <= Len(content)
  PROVE  /\ Len(Stored) + Len(held) <= Len(content)
         /\ b # CR => Len(Stored) + Len(held) + 1 <= Len(content)
<1>1. /\ Stored \in Seq(Char) /\ Len(Stored) \in Nat /\ Len(held) \in Nat /\ Len(content) \in Nat /\ at \in Nat
      /\ Len(Delimiter) \in Nat
  BY StreamParts, ConcatAt, LenProperties, DelimiterParts DEF WebTypes, Stored
<1>2. PICK back : back = Append(held, b)
  OBVIOUS
<1>3. /\ back \in Seq(Char) /\ Len(back) = Len(held) + 1 /\ back[Len(held) + 1] = b
      /\ \A i \in 1..Len(held) : back[i] = held[i]
  BY <1>2, AppendProperties
<1>4. /\ Len(Stream) = Len(Stored) + Len(back)
      /\ \A i \in 1..Len(back) : Stream[Len(Stored) + i] = back[i]
  BY <1>1, <1>2, <1>3, ConcatAt
<1>5. Len(content) + at = Len(Stored) + Len(held) + 1
  BY <1>1, <1>3, <1>4, StreamParts
<1>6. CASE at = 0
  BY <1>1, <1>5, <1>6
<1>7. CASE at >= 1
  <2> DEFINE j == Len(content) + 1 - Len(Stored)
  <2>1. j \in 1..Len(held) + 1 /\ Len(Stored) + j = Len(content) + 1
    BY <1>1, <1>5, <1>7
  <2>2. Stream[Len(content) + 1] = CR
    <3>1. 1 \in 1..at
      BY <1>1, <1>7
    <3> QED BY <3>1, StreamParts, DelimiterParts
  <2>3. back[j] = CR
    BY <1>3, <1>4, <2>1, <2>2
  <2>4. CASE j = Len(held) + 1
    <3>1. b = CR
      BY <1>3, <2>3, <2>4
    <3> QED BY <1>1, <2>4, <3>1
  <2>5. CASE j \in 1..Len(held)
    <3>1. Delimiter[j] = CR
      BY <1>3, <2>3, <2>5
    <3>2. j = 1
      <4> HIDE DEF j
      <4>1. j = 1 \/ j \in 2..Len(Delimiter)
        BY <1>1, <2>5
      <4> QED BY <3>1, <4>1, DelimiterParts
    <3>3. Len(Stored) = Len(content) /\ at = Len(held) + 1
      BY <1>1, <1>5, <3>2
    <3>4. Stream[Len(content) + at] = Delimiter[at]
      <4>1. at \in 1..at
        BY <1>1, <1>7
      <4> QED BY <4>1, StreamParts
    <3>5. Stream[Len(content) + at] = back[at]
      BY <1>1, <1>3, <1>4, <3>3
    <3>6. Delimiter[Len(held) + 1] = b
      BY <1>3, <3>3, <3>4, <3>5
    <3> QED BY <3>6
  <2>6. j = Len(held) + 1 \/ j \in 1..Len(held)
    <3> HIDE DEF j
    <3> QED BY <1>1, <2>1
  <2> QED BY <2>4, <2>5, <2>6
<1> QED BY <1>1, <1>6, <1>7

\* A stream that ends with the delimiter has just been ended by it: the file
\* holds none, and no other CR could have begun it.
LEMMA DelimiterEnds ==
  ASSUME WebTypes, Legal, Stream = Stored \o Delimiter
  PROVE  content = Stored
<1>1. /\ Stored \in Seq(Char) /\ Len(Stored) \in Nat /\ Len(content) \in Nat /\ at \in Nat
      /\ Delimiter \in Seq(Char) /\ Len(Delimiter) \in Nat /\ Len(Delimiter) >= 5 /\ at <= Len(Delimiter)
  <2>1. got \in Seq(Char) /\ buf \in Seq(Char)
    BY DEF WebTypes
  <2>2. Stored \in Seq(Char) /\ Len(Stored) \in Nat
    BY <2>1, ConcatProperties, LenProperties DEF Stored
  <2>3. Delimiter \in Seq(Char) /\ Len(Delimiter) \in Nat /\ Len(Delimiter) >= 5
    BY DelimiterParts
  <2> QED BY <2>2, <2>3, StreamParts
<1>2. /\ Len(Stream) = Len(Stored) + Len(Delimiter)
      /\ \A i \in 1..Len(Stored) : Stream[i] = Stored[i]
      /\ \A i \in 1..Len(Delimiter) : Stream[Len(Stored) + i] = Delimiter[i]
  BY <1>1, ConcatAt
<1>3. Len(content) + at = Len(Stored) + Len(Delimiter)
  BY <1>2, StreamParts
<1>4. CASE at = 0
  <2>1. Len(content) >= Len(Delimiter) /\ Len(content) - Len(Delimiter) = Len(Stored)
    BY <1>1, <1>3, <1>4
  <2>2. \A i \in 1..Len(Delimiter) : content[Len(Stored) + i] = Delimiter[i]
    <3>1. ASSUME NEW i \in 1..Len(Delimiter) PROVE content[Len(Stored) + i] = Delimiter[i]
      <4>1. Len(Stored) + i \in 1..Len(content)
        BY <1>1, <1>3, <1>4
      <4>2. Stream[Len(Stored) + i] = content[Len(Stored) + i]
        BY <4>1, StreamParts
      <4> QED BY <1>2, <4>2
    <3> QED BY <3>1
  <2>3. SubSeq(content, Len(Stored) + 1, Len(content)) = Delimiter
    <3>1. PICK u : u = SubSeq(content, Len(Stored) + 1, Len(content))
      OBVIOUS
    <3>2. /\ u \in Seq(Char) /\ Len(u) = Len(Delimiter)
          /\ \A i \in 1..Len(Delimiter) : u[i] = content[Len(Stored) + i]
      <4>1. \A i \in Len(Stored) + 1..Len(content) : content[i] \in Char
        BY <1>1, StreamParts, ElementOfSeq
      <4>2. u \in Seq(Char) /\ Len(u) = Len(content) - (Len(Stored) + 1) + 1
        BY <1>1, <1>3, <1>4, <3>1, <4>1, SubSeqProperties
      <4>3. \A i \in 1..Len(content) - (Len(Stored) + 1) + 1 : u[i] = content[Len(Stored) + 1 + i - 1]
        BY <1>1, <1>3, <1>4, <3>1, <4>1, SubSeqProperties
      <4>4. Len(content) - (Len(Stored) + 1) + 1 = Len(Delimiter)
        BY <1>1, <1>3, <1>4
      <4>5. ASSUME NEW i \in 1..Len(Delimiter) PROVE u[i] = content[Len(Stored) + i]
        <5>1. Len(Stored) + 1 + i - 1 = Len(Stored) + i
          BY <1>1
        <5> QED BY <4>3, <4>4, <5>1
      <4> QED BY <4>2, <4>4, <4>5
    <3>3. u = Delimiter
      BY <1>1, <2>2, <3>2, SeqEqual
    <3> QED BY <3>1, <3>3
  <2> QED BY <2>1, <2>3 DEF Legal, EndsWith
<1>5. CASE at = Len(Delimiter)
  <2>1. Len(content) = Len(Stored)
    BY <1>1, <1>3, <1>5
  <2>2. \A i \in 1..Len(content) : content[i] = Stored[i]
    BY <1>2, <2>1, StreamParts
  <2> QED BY <1>1, <2>1, <2>2, SeqEqual, StreamParts
<1>6. CASE at >= 1 /\ at < Len(Delimiter)
  <2> DEFINE j == Len(content) + 1 - Len(Stored)
  <2>1. j \in 2..Len(Delimiter) /\ Len(Stored) + j = Len(content) + 1 /\ 1 \in 1..at
    BY <1>1, <1>3, <1>6
  <2>2. Stream[Len(content) + 1] = CR
    BY <2>1, StreamParts, DelimiterParts
  <2>3. Delimiter[j] = CR
    BY <1>2, <2>1, <2>2
  <2> QED BY <2>1, <2>3, DelimiterParts
<1> QED BY <1>1, <1>4, <1>5, <1>6
-------------------------------------------------------------------------------
(* Steps inside a file. *)

\* What is held back and stored are bytes.
LEMMA HeldTypes ==
  ASSUME WebTypes
  PROVE  /\ Held \in Seq(Char) /\ Stored \in Seq(Char) /\ Len(Stored) \in Nat /\ Len(got) \in Nat
         /\ Len(Stored) = Len(got) + Len(buf) /\ Len(got) <= Len(Stored)
         /\ byte # NONE => byte \in Char
         /\ endBuf \in Seq(Char)
<1>1. endBuf \in Seq(Char) /\ <<CR, LF, DASH, DASH>> \in Seq(Char)
  BY DEF WebTypes, FormTypeOK, Char
<1>2. <<CR, LF, DASH, DASH>> \o endBuf \in Seq(Char)
  BY <1>1, ConcatProperties
<1>3. <<>> \in Seq(Char) /\ <<CR>> \in Seq(Char) /\ <<CR, LF>> \in Seq(Char) /\ <<CR, LF, DASH>> \in Seq(Char)
  BY DEF Char
<1>4. Held \in Seq(Char)
  BY <1>2, <1>3, Zenon DEF Held
<1>5. got \in Seq(Char) /\ buf \in Seq(Char)
  BY DEF WebTypes
<1>6. Stored \in Seq(Char) /\ Len(Stored) = Len(got) + Len(buf) /\ Len(got) \in Nat /\ Len(buf) \in Nat
  BY <1>5, ConcatAt DEF Stored
<1>7. byte # NONE => byte \in Char
  BY DEF WebTypes, FormTypeOK, Char
<1> QED BY <1>1, <1>4, <1>6, <1>7

\* What the handler has is a prefix of the file, as long as what is stored is
\* no longer than the file.
LEMMA GotIsPrefix ==
  ASSUME WebTypes, NEW rest \in Seq(Char), Stream = Stored \o rest, Len(Stored) <= Len(content)
  PROVE  IsPrefix(got, content)
<1>1. /\ got \in Seq(Char) /\ buf \in Seq(Char) /\ Stored \in Seq(Char)
      /\ Len(got) <= Len(Stored) /\ Len(got) \in Nat /\ Len(Stored) \in Nat /\ Len(content) \in Nat
  BY HeldTypes, StreamParts, LenProperties DEF WebTypes
<1>2. \A i \in 1..Len(got) : Stored[i] = got[i]
  BY <1>1, ConcatAt DEF Stored
<1>3. \A i \in 1..Len(Stored) : Stream[i] = Stored[i]
  BY <1>1, ConcatAt
<1>4. \A i \in 1..Len(content) : Stream[i] = content[i]
  BY StreamParts
<1>5. \A i \in 1..Len(got) : got[i] = content[i]
  BY <1>1, <1>2, <1>3, <1>4
<1>6. Len(got) <= Len(content)
  BY <1>1
<1>7. SubSeq(got, 1, Len(got)) = SubSeq(content, 1, Len(got))
  BY <1>1, <1>5
<1> QED BY <1>6, <1>7 DEF IsPrefix

\* Whatever argByte is.
LEMMA AccountedPrefix ==
  ASSUME WebTypes, Accounted, Len(Stored) <= Len(content)
  PROVE  IsPrefix(got, content)
<1>1. CASE Stream = Stored \o Held
  BY <1>1, HeldTypes, GotIsPrefix
<1>2. CASE byte # NONE /\ Stream = Stored \o Append(Held, byte)
  <2>1. PICK rest \in Seq(Char) : rest = Append(Held, byte)
    BY <1>2, HeldTypes, AppendProperties
  <2>2. Stream = Stored \o rest
    BY <1>2, <2>1
  <2> QED BY <2>2, GotIsPrefix
<1> QED BY <1>1, <1>2 DEF Accounted

\* The fields are left alone.
LEMMA FieldsKept ==
  ASSUME FormInv, UNCHANGED <<postArgs, fields, overrun>>, pc # "true", pc' # "true"
  PROVE  FieldInv'
<1>1. postArgs' = fields' /\ (~overrun' => Len(postArgs') <= ARGS)
  BY DEF FormInv, FieldInv
<1> QED BY <1>1 DEF FieldInv, FieldsCollected

\* A step from one label to another inside a file: what remains to be shown.
LEMMA ReadsOn ==
  ASSUME FormInv, pc \in Reading, pc' \in Reading, status' = status, WebTypes', Legal',
         UNCHANGED <<postArgs, fields, overrun>>, pc' = "end" => byte' = NONE,
         Len(buf') <= BufLen, totalSize' = Len(got'), ~stale' => Accounted',
         ~stale' /\ ~swallowed' => Len(Stored') <= Len(content')
  PROVE  FormInv'
<1>1. status = "WRITE"
  BY DEF FormInv, Told
<1>2. Told'
  BY <1>1 DEF Told
<1>3. FileInv'
  BY <1>1 DEF FileInv
<1>4. FieldInv'
  BY FieldsKept DEF Reading
<1> QED BY <1>2, <1>3, <1>4 DEF FormInv

\* _parseFormUploadAborted
LEMMA AbortSound ==
  ASSUME FormInv, pc \in Reading, ~open, Aborted, UNCHANGED <<open, peer, endBuf, postArgs, notes>>
  PROVE  FormInv'
<1>1. WebTypes'
  BY DEF FormInv, WebTypes, FormTypeOK, Aborted, peer, notes
<1>2. Legal'
  BY DEF FormInv, Legal, peer, Delimiter
<1>3. Told'
  BY DEF Told, Aborted, Reading
<1>4. FieldInv'
  BY FieldsKept DEF Aborted, peer, notes, Reading
<1>5. ~stale /\ ~swallowed => IsPrefix(got, content)
  BY AccountedPrefix DEF FormInv, FileInv
<1>6. FileInv'
  <2>1. UNCHANGED <<buf, got, totalSize, content, stale, swallowed>> /\ status' = "ABORTED" /\ pc' = "false"
    BY DEF Aborted, peer, notes
  <2>2. Len(buf) <= BufLen /\ totalSize = Len(got)
    BY DEF FormInv, FileInv
  <2> QED BY <1>5, <2>1, <2>2 DEF FileInv, Reading
<1> QED BY <1>1, <1>2, <1>3, <1>4, <1>6 DEF FormInv

\* argByte is the delimiter's next byte: it is held back too.
LEMMA HoldBack ==
  ASSUME FormInv, pc \in Reading, pc' \in Reading, byte # NONE, byte # FF \/ open, byte' = NONE,
         ~stale => Held' = Append(Held, byte), WebTypes',
         UNCHANGED <<open, peer, upload, postArgs, notes>>
  PROVE  FormInv'
<1>1. Stored' = Stored /\ Stream' = Stream
  BY DEF peer, upload, Stored, Stream, Delimiter
<1>2. ~stale' => Accounted'
  <2> SUFFICES ASSUME ~stale PROVE Accounted'
    BY DEF notes
  <2>1. Stream = Stored \o Append(Held, byte)
    BY DEF FormInv, FileInv, Accounted
  <2>2. Stream' = Stored' \o Held'
    BY <1>1, <2>1
  <2> QED BY <2>2 DEF Accounted
<1>3. Legal'
  BY DEF FormInv, Legal, peer, Delimiter
<1>4. /\ status' = status /\ Len(buf') <= BufLen /\ totalSize' = Len(got')
      /\ ~stale' /\ ~swallowed' => Len(Stored') <= Len(content')
  BY <1>1 DEF FormInv, FileInv, upload, peer, notes
<1> QED BY <1>2, <1>3, <1>4, ReadsOn DEF peer, notes

\* argByte is not: what is held back is written, and argByte looked at again.
LEMMA GiveBack ==
  ASSUME FormInv, pc \in Reading, NEW held \in Seq(Char), held = Held, open, byte # NONE,
         \A i \in 1..Len(held) : held[i] = Delimiter[i], Len(held) < Len(Delimiter),
         byte # Delimiter[Len(held) + 1], Back(held), UNCHANGED <<open, peer, endBuf, postArgs, notes>>
  PROVE  FormInv'
<1>1. /\ buf' \in Seq(Char) /\ got' \in Seq(Char) /\ Len(buf') <= BufLen /\ totalSize' = Len(got')
      /\ Stored' = Stored \o held
  BY WriteStores DEF FormInv, Back
<1>2. pc' = "readfile" /\ byte' = byte /\ status' = status
  BY DEF Back
<1>3. WebTypes'
  BY <1>1, <1>2 DEF FormInv, WebTypes, FormTypeOK, peer, notes
<1>4. Legal'
  BY DEF FormInv, Legal, peer, Delimiter
<1>5. byte \in Char /\ Stored \in Seq(Char) /\ Len(Stored) \in Nat
  BY HeldTypes DEF FormInv
<1>6. ASSUME ~stale PROVE Accounted'
  <2>1. Stream = Stored \o Append(held, byte)
    BY <1>6 DEF FormInv, FileInv, Accounted
  <2>2. Stored \o Append(held, byte) = Append(Stored \o held, byte)
    BY <1>5, AppendConcat
  <2>3. PICK st \in Seq(Char) : st = Stored'
    BY <1>1, <1>5, ConcatProperties
  <2>4. Stream = Append(st, byte)
    BY <1>1, <2>1, <2>2, <2>3, Zenon
  <2>5. st \o Append(<<>>, byte) = Append(st \o <<>>, byte)
    BY <1>5, AppendConcat
  <2>6. st \o <<>> = st
    BY ConcatEmptySeq
  <2>7. Held' = <<>> /\ Stream' = Stream
    BY <1>2 DEF Held, Stream, peer, Delimiter
  <2>8. Stream' = Stored' \o Append(Held', byte')
    BY <1>2, <2>3, <2>4, <2>5, <2>6, <2>7, Zenon
  <2> QED BY <1>2, <2>8 DEF Accounted
<1>7. ASSUME ~stale, ~swallowed PROVE Len(Stored') <= Len(content')
  <2>1. Stream = Stored \o Append(held, byte) /\ Len(Stored) <= Len(content)
    BY <1>7 DEF FormInv, FileInv, Accounted
  <2>2. Len(Stored) + Len(held) <= Len(content)
    BY <1>5, <2>1, HeldIsContent DEF FormInv
  <2>3. Len(Stored') = Len(Stored) + Len(held) /\ content' = content
    BY <1>1, <1>5, ConcatProperties DEF peer
  <2> QED BY <2>2, <2>3
<1> QED BY <1>1, <1>2, <1>3, <1>4, <1>6, <1>7, ReadsOn DEF peer, notes, Reading

\* What both lemmas on argByte need.
LEMMA AwaitingByte ==
  ASSUME FormInv, AwaitsByte, pc' = pc, UNCHANGED <<endBuf, got, buf>>
  PROVE  /\ pc \in Reading /\ pc # "end"
         /\ Held' = Held /\ Stored' = Stored /\ Held \in Seq(Char) /\ Stored \in Seq(Char)
         /\ Len(Stored) \in Nat
         /\ ~stale => Stream = Stored \o Held
         /\ Len(buf) <= BufLen /\ totalSize = Len(got)
         /\ ~stale /\ ~swallowed => Len(Stored) <= Len(content)
<1>1. pc \in {"readfile", "cr", "crlf", "dash"} /\ byte = NONE
  BY DEF AwaitsByte
<1>2. Held' = Held /\ Stored' = Stored /\ Held \in Seq(Char) /\ Stored \in Seq(Char) /\ Len(Stored) \in Nat
  BY <1>1, HeldTypes DEF FormInv, Held, Stored
<1>3. ~stale => Stream = Stored \o Held
  BY <1>1 DEF FormInv, FileInv, Accounted, Reading, NONE, FF
<1> QED BY <1>1, <1>2, <1>3 DEF FormInv, FileInv, Reading

\* A byte goes to argByte.
LEMMA ReadByteSound == FormInv /\ ReadByte => FormInv'
<1> SUFFICES ASSUME FormInv, ReadByte PROVE FormInv'
  OBVIOUS
<1>1. /\ AwaitsByte /\ pc' = pc /\ status' = status
      /\ UNCHANGED <<open, endBuf, got, buf, totalSize, postArgs, swallowed, stale, overrun>>
  BY DEF ReadByte, upload, notes
<1>2. /\ pc \in Reading /\ pc # "end"
      /\ Held' = Held /\ Stored' = Stored /\ Held \in Seq(Char) /\ Stored \in Seq(Char)
      /\ Len(Stored) \in Nat
      /\ ~stale => Stream = Stored \o Held
      /\ Len(buf) <= BufLen /\ totalSize = Len(got)
      /\ ~stale /\ ~swallowed => Len(Stored) <= Len(content)
  BY <1>1, AwaitingByte
<1>3. PICK b \in Bytes : Sends(b) /\ byte' = b
  BY DEF ReadByte
<1>4. b # NONE /\ b \in Char
  BY FormAssumption DEF NONE, Char
<1>5. /\ Stream' = Append(Stream, b) /\ Legal'
      /\ content' \in Seq(Bytes) /\ Len(content') \in Nat /\ Len(content) <= Len(content')
      /\ at' \in 0..Len(Delimiter) /\ sent' \in {"file", "delim"}
      /\ parts' = parts /\ fields' = fields
  BY <1>3, SendsAppends DEF FormInv
<1>6. WebTypes'
  BY <1>1, <1>3, <1>5 DEF FormInv, WebTypes, FormTypeOK, Delimiter
<1>7. ~stale => Accounted'
  <2>1. Stored \o Append(Held, b) = Append(Stored \o Held, b)
    BY <1>2, <1>4, AppendConcat
  <2> QED BY <1>2, <1>3, <1>4, <1>5, <2>1, Zenon DEF Accounted
<1>8. ~stale /\ ~swallowed => Len(Stored') <= Len(content')
  <2>1. Len(content) \in Nat
    BY StreamParts DEF FormInv
  <2> QED BY <1>2, <1>5, <2>1
<1> QED BY <1>1, <1>2, <1>5, <1>6, <1>7, <1>8, ReadsOn

\* FF does, once the connection is gone.
LEMMA ReadNothingSound == FormInv /\ ReadNothing => FormInv'
<1> SUFFICES ASSUME FormInv, ReadNothing PROVE FormInv'
  OBVIOUS
<1>1. /\ AwaitsByte /\ pc' = pc /\ status' = status /\ ~open /\ byte' = FF /\ UNCHANGED peer
      /\ UNCHANGED <<open, endBuf, got, buf, totalSize, postArgs, swallowed, stale, overrun>>
  BY DEF ReadNothing, upload, notes
<1>2. /\ pc \in Reading /\ pc # "end"
      /\ Held' = Held /\ Stored' = Stored
      /\ ~stale => Stream = Stored \o Held
      /\ Len(buf) <= BufLen /\ totalSize = Len(got)
      /\ ~stale /\ ~swallowed => Len(Stored) <= Len(content)
  BY <1>1, AwaitingByte
<1>3. WebTypes' /\ Legal'
  BY <1>1 DEF FormInv, WebTypes, FormTypeOK, Legal, peer, Delimiter
<1>4. Stream' = Stream
  BY <1>1 DEF Stream, peer, Delimiter
<1>5. ~stale => Accounted'
  BY <1>1, <1>2, <1>4, Zenon DEF Accounted
<1> QED BY <1>1, <1>2, <1>3, <1>5, ReadsOn DEF peer

\* argByte is stored, or is the CR a delimiter may begin with.
LEMMA ReadFileSound == FormInv /\ ReadFile => FormInv'
<1> SUFFICES ASSUME FormInv, ReadFile PROVE FormInv'
  OBVIOUS
<1>1. pc = "readfile" /\ byte # NONE /\ UNCHANGED <<open, peer, endBuf, postArgs, notes>> /\ pc \in Reading
  BY DEF ReadFile, Reading
<1>2. Held = <<>> /\ byte \in Char /\ Stored \in Seq(Char)
  BY <1>1, HeldTypes DEF FormInv, Held
<1>3. CASE byte = CR /\ ReadNext("cr") /\ UNCHANGED upload
  <2>1. pc' = "cr" /\ byte' = NONE /\ byte # FF
    BY <1>3 DEF ReadNext, CR, FF
  <2>2. Held' = Append(Held, byte)
    BY <1>2, <1>3, <2>1 DEF Held
  <2>3. WebTypes'
    BY <1>1, <1>3, <2>1 DEF FormInv, WebTypes, FormTypeOK, peer, notes, upload
  <2> QED BY <1>1, <1>3, <2>1, <2>2, <2>3, HoldBack DEF Reading
<1>4. CASE byte # CR /\ ~open /\ Aborted
  BY <1>1, <1>4, AbortSound
<1>5. CASE byte # CR /\ open /\ Write(<<byte>>) /\ ReadNext("readfile") /\ UNCHANGED status
  <2>1. pc' = "readfile" /\ byte' = NONE /\ status' = status
    BY <1>5 DEF ReadNext
  <2>2. PICK one : one = <<byte>>
    OBVIOUS
  <2>3. one \in Seq(Char) /\ Len(one) = 1
    BY <1>2, <2>2
  <2>4. /\ buf' \in Seq(Char) /\ got' \in Seq(Char) /\ Len(buf') <= BufLen /\ totalSize' = Len(got')
        /\ Stored' = Stored \o one
    BY <1>5, <2>2, <2>3, WriteStores DEF FormInv
  <2>5. WebTypes' /\ Legal'
    BY <1>1, <2>1, <2>4 DEF FormInv, WebTypes, FormTypeOK, Legal, peer, notes, Delimiter
  <2>6. Append(<<>>, byte) = one
    BY <2>2
  <2>7. ~stale => Stream = Stored \o one
    <3>1. ~stale => Stream = Stored \o Append(Held, byte)
      BY <1>1, <1>5 DEF FormInv, FileInv, Accounted
    <3> QED BY <1>2, <2>6, <3>1, Zenon
  <2>8. ~stale => Accounted'
    <3>1. Stored' \o <<>> = Stored'
      BY <1>2, <2>3, <2>4, ConcatProperties, ConcatEmptySeq
    <3>2. Held' = <<>> /\ Stream' = Stream
      BY <1>1, <2>1 DEF Held, Stream, peer, Delimiter
    <3> QED BY <2>1, <2>4, <2>7, <3>1, <3>2, Zenon DEF Accounted
  <2>9. ASSUME ~stale, ~swallowed PROVE Len(Stored') <= Len(content')
    <3>0. <<>> \in Seq(Char)
      OBVIOUS
    <3>1. PICK none \in Seq(Char) : none = <<>>
      BY <3>0
    <3>2. Stream = Stored \o Append(none, byte) /\ Len(Stored) <= Len(content)
      BY <1>1, <2>6, <2>7, <2>9, <3>1 DEF FormInv, FileInv
    <3>3. Len(none) = 0 /\ Len(none) < Len(Delimiter) /\ byte # Delimiter[Len(none) + 1]
      BY <1>5, <3>1, DelimiterParts
    <3>4. \A i \in 1..Len(none) : none[i] = Delimiter[i]
      BY <3>3
    <3>5. Len(Stored) + Len(none) + 1 <= Len(content)
      BY <1>2, <1>5, <3>2, <3>3, <3>4, HeldIsContent DEF FormInv
    <3>6. Len(Stored') = Len(Stored) + 1 /\ Len(Stored) \in Nat
      <4>1. Len(Stored \o one) = Len(Stored) + Len(one) /\ Len(Stored) \in Nat
        BY <1>2, <2>3, ConcatAt
      <4> QED BY <2>3, <2>4, <4>1
    <3>7. content' = content
      BY <1>1 DEF peer
    <3> QED BY <3>3, <3>5, <3>6, <3>7
  <2> QED BY <1>1, <2>1, <2>4, <2>5, <2>8, <2>9, ReadsOn DEF peer, notes, Reading
<1> QED BY <1>3, <1>4, <1>5 DEF ReadFile

\* argByte goes on as a delimiter does, or what was held back is content.
LEMMA AfterCrSound == FormInv /\ AfterCr => FormInv'
<1> SUFFICES ASSUME FormInv, AfterCr PROVE FormInv'
  OBVIOUS
<1>1. pc = "cr" /\ byte # NONE /\ UNCHANGED <<open, peer, endBuf, postArgs, notes>> /\ pc \in Reading
  BY DEF AfterCr, Reading
<1>2. CASE ~open /\ Aborted
  BY <1>1, <1>2, AbortSound
<1>3. CASE open /\ byte = LF /\ ReadNext("crlf") /\ UNCHANGED upload
  <2>1. pc' = "crlf" /\ byte' = NONE
    BY <1>3 DEF ReadNext
  <2>2. Held' = Append(Held, byte)
    <3>1. Held = <<CR>> /\ Held' = <<CR, LF>>
      BY <1>1, <2>1 DEF Held
    <3> QED BY <1>3, <3>1
  <2>3. WebTypes'
    BY <1>1, <1>3, <2>1 DEF FormInv, WebTypes, FormTypeOK, peer, notes, upload
  <2> QED BY <1>1, <1>3, <2>1, <2>2, <2>3, HoldBack DEF Reading
<1>4. CASE open /\ byte # LF /\ Back(<<CR>>)
  <2>1. PICK held : held = <<CR>>
    OBVIOUS
  <2>2. held \in Seq(Char) /\ Len(held) = 1
    BY <2>1 DEF Char
  <2>3. \A i \in 1..Len(held) : held[i] = Delimiter[i]
    <3>1. \A i \in 1..1 : i = 1
      OBVIOUS
    <3>2. held[1] = Delimiter[1]
      BY <2>1, DelimiterParts
    <3> QED BY <2>2, <3>1, <3>2
  <2>4. Len(held) < Len(Delimiter) /\ byte # Delimiter[Len(held) + 1]
    BY <1>4, <2>2, DelimiterParts
  <2>5. held = Held /\ Back(held)
    BY <1>1, <1>4, <2>1 DEF Held
  <2> QED BY <1>1, <1>4, <2>2, <2>3, <2>4, <2>5, GiveBack
<1> QED BY <1>2, <1>3, <1>4 DEF AfterCr

\* The same one byte on.
LEMMA AfterLfSound == FormInv /\ AfterLf => FormInv'
<1> SUFFICES ASSUME FormInv, AfterLf PROVE FormInv'
  OBVIOUS
<1>1. pc = "crlf" /\ byte # NONE /\ UNCHANGED <<open, peer, endBuf, postArgs, notes>> /\ pc \in Reading
  BY DEF AfterLf, Reading
<1>2. CASE ~open /\ Aborted
  BY <1>1, <1>2, AbortSound
<1>3. CASE open /\ byte = DASH /\ ReadNext("dash") /\ UNCHANGED upload
  <2>1. pc' = "dash" /\ byte' = NONE
    BY <1>3 DEF ReadNext
  <2>2. Held' = Append(Held, byte)
    <3>1. Held = <<CR, LF>> /\ Held' = <<CR, LF, DASH>>
      BY <1>1, <2>1 DEF Held
    <3> QED BY <1>3, <3>1
  <2>3. WebTypes'
    BY <1>1, <1>3, <2>1 DEF FormInv, WebTypes, FormTypeOK, peer, notes, upload
  <2> QED BY <1>1, <1>3, <2>1, <2>2, <2>3, HoldBack DEF Reading
<1>4. CASE open /\ byte # DASH /\ Back(<<CR, LF>>)
  <2>1. PICK held : held = <<CR, LF>>
    OBVIOUS
  <2>2. held \in Seq(Char) /\ Len(held) = 2
    BY <2>1 DEF Char
  <2>3. \A i \in 1..Len(held) : held[i] = Delimiter[i]
    <3>1. \A i \in 1..2 : i = 1 \/ i = 2
      OBVIOUS
    <3>2. held[1] = Delimiter[1] /\ held[2] = Delimiter[2]
      BY <2>1, DelimiterParts
    <3> QED BY <2>2, <3>1, <3>2
  <2>4. Len(held) < Len(Delimiter) /\ byte # Delimiter[Len(held) + 1]
    BY <1>4, <2>2, DelimiterParts
  <2>5. held = Held /\ Back(held)
    BY <1>1, <1>4, <2>1 DEF Held
  <2> QED BY <1>1, <1>4, <2>2, <2>3, <2>4, <2>5, GiveBack
<1> QED BY <1>2, <1>3, <1>4 DEF AfterLf

\* And one more: the block after it is read into endBuf.
LEMMA AfterDashSound == FormInv /\ AfterDash => FormInv'
<1> SUFFICES ASSUME FormInv, AfterDash PROVE FormInv'
  OBVIOUS
<1>1. pc = "dash" /\ byte # NONE /\ UNCHANGED <<open, peer, postArgs, notes>> /\ pc \in Reading
  BY DEF AfterDash, Reading
<1>2. CASE ~open /\ Aborted /\ UNCHANGED endBuf
  BY <1>1, <1>2, AbortSound
<1>3. CASE open /\ byte = DASH /\ ReadNext("end") /\ endBuf' = <<>> /\ UNCHANGED upload
  <2>1. pc' = "end" /\ byte' = NONE
    BY <1>3 DEF ReadNext
  <2>2. Held' = Append(Held, byte)
    <3>1. <<CR, LF, DASH, DASH>> \o <<>> = <<CR, LF, DASH, DASH>>
      BY ConcatEmptySeq
    <3>2. Append(<<CR, LF, DASH>>, DASH) = <<CR, LF, DASH, DASH>>
      <4>1. PICK x, y : x = <<CR, LF, DASH>> /\ y = <<CR, LF, DASH, DASH>>
        OBVIOUS
      <4>2. x \in Seq(Char) /\ y \in Seq(Char) /\ DASH \in Char /\ Len(x) = 3 /\ Len(y) = 4
        BY <4>1 DEF Char
      <4>3. y[1] = x[1] /\ y[2] = x[2] /\ y[3] = x[3] /\ y[4] = DASH
        BY <4>1
      <4>4. PICK z : z = Append(x, DASH)
        OBVIOUS
      <4>5. z \in Seq(Char) /\ Len(z) = 4 /\ z[4] = DASH /\ z[1] = x[1] /\ z[2] = x[2] /\ z[3] = x[3]
        <5>1. x \in Seq(Char) /\ DASH \in Char
          BY <4>2
        <5>2. /\ z \in Seq(Char) /\ Len(z) = Len(x) + 1 /\ z[Len(x) + 1] = DASH
              /\ \A i \in 1..Len(x) : z[i] = x[i]
          BY <4>4, <5>1, AppendProperties
        <5>3. 1 \in 1..3 /\ 2 \in 1..3 /\ 3 \in 1..3
          OBVIOUS
        <5> QED BY <4>2, <5>2, <5>3
      <4>6. \A i \in 1..4 : i = 1 \/ i = 2 \/ i = 3 \/ i = 4
        OBVIOUS
      <4>7. z = y
        BY <4>2, <4>3, <4>5, <4>6, SeqEqual
      <4> QED BY <4>1, <4>4, <4>7, Zenon
    <3>3. Held = <<CR, LF, DASH>> /\ Held' = <<CR, LF, DASH, DASH>> \o <<>>
      BY <1>1, <1>3, <2>1, Zenon DEF Held
    <3> QED BY <1>3, <3>1, <3>2, <3>3, Zenon
  <2>3. WebTypes'
    BY <1>1, <1>3, <2>1, EmptySeq, DelimiterParts DEF FormInv, WebTypes, FormTypeOK, peer, notes, upload
  <2> QED BY <1>1, <1>3, <2>1, <2>2, <2>3, HoldBack DEF Reading
<1>4. CASE open /\ byte # DASH /\ Back(<<CR, LF, DASH>>) /\ UNCHANGED endBuf
  <2>1. PICK held : held = <<CR, LF, DASH>>
    OBVIOUS
  <2>2. held \in Seq(Char) /\ Len(held) = 3
    BY <2>1 DEF Char
  <2>3. \A i \in 1..Len(held) : held[i] = Delimiter[i]
    <3>1. \A i \in 1..3 : i = 1 \/ i = 2 \/ i = 3
      OBVIOUS
    <3>2. held[1] = Delimiter[1] /\ held[2] = Delimiter[2] /\ held[3] = Delimiter[3]
      BY <2>1, DelimiterParts
    <3> QED BY <2>2, <3>1, <3>2
  <2>4. Len(held) < Len(Delimiter) /\ byte # Delimiter[Len(held) + 1]
    BY <1>4, <2>2, DelimiterParts
  <2>5. held = Held /\ Back(held)
    BY <1>1, <1>4, <2>1 DEF Held
  <2> QED BY <1>1, <1>4, <2>2, <2>3, <2>4, <2>5, GiveBack
<1> QED BY <1>2, <1>3, <1>4 DEF AfterDash

\* What comes into endBuf is held back.
LEMMA EndByteSound == FormInv /\ EndByte => FormInv'
<1> SUFFICES ASSUME FormInv, EndByte PROVE FormInv'
  OBVIOUS
<1>1. /\ pc = "end" /\ byte = NONE /\ pc' = pc /\ status' = status /\ byte' = byte
      /\ Len(endBuf) < Len(Boundary)
      /\ UNCHANGED <<open, got, buf, totalSize, postArgs, swallowed, stale, overrun>>
  BY DEF EndByte, upload, notes, FormInv, Told
<1>2. PICK b \in Bytes : Sends(b) /\ endBuf' = Append(endBuf, b)
  BY DEF EndByte
<1>3. /\ Stream' = Append(Stream, b) /\ Legal'
      /\ content' \in Seq(Bytes) /\ Len(content') \in Nat /\ Len(content) <= Len(content')
      /\ at' \in 0..Len(Delimiter) /\ sent' \in {"file", "delim"}
      /\ parts' = parts /\ fields' = fields
  BY <1>2, SendsAppends DEF FormInv
<1>4. PICK four : four = <<CR, LF, DASH, DASH>>
  OBVIOUS
<1>5. /\ four \in Seq(Char) /\ b \in Char /\ endBuf \in Seq(Char) /\ Stored \in Seq(Char)
      /\ Held \in Seq(Char) /\ Len(Stored) \in Nat /\ Len(content) \in Nat
  BY <1>4, HeldTypes, StreamParts DEF FormInv, Char
<1>6. Held = four \o endBuf /\ Held' = four \o Append(endBuf, b)
  BY <1>1, <1>2, <1>4, Zenon DEF Held
<1>7. Held' = Append(Held, b)
  <2>1. four \o Append(endBuf, b) = Append(four \o endBuf, b)
    BY <1>5, AppendConcat
  <2> QED BY <1>6, <2>1, Zenon
<1>8. endBuf' \in Seq(Bytes \cup {FF}) /\ Len(endBuf') <= Len(Boundary)
  <2>1. endBuf \in Seq(Bytes \cup {FF}) /\ b \in Bytes \cup {FF}
    BY DEF FormInv, WebTypes, FormTypeOK
  <2>2. Append(endBuf, b) \in Seq(Bytes \cup {FF}) /\ Len(Append(endBuf, b)) = Len(endBuf) + 1 /\ Len(endBuf) \in Nat
    BY <2>1, AppendProperties, LenProperties
  <2> QED BY <1>1, <1>2, <2>2, DelimiterParts
<1>9. WebTypes'
  BY <1>1, <1>3, <1>8 DEF FormInv, WebTypes, FormTypeOK, Delimiter
<1>10. ~stale => Accounted'
  <2>1. Stored \o Append(Held, b) = Append(Stored \o Held, b)
    BY <1>5, AppendConcat
  <2>2. ~stale => Stream = Stored \o Held
    BY <1>1 DEF FormInv, FileInv, Accounted, Reading, NONE, FF
  <2>3. Stored' = Stored
    BY <1>1 DEF Stored
  <2> QED BY <1>1, <1>3, <1>7, <2>1, <2>2, <2>3, Zenon DEF Accounted
<1>11. ~stale /\ ~swallowed => Len(Stored') <= Len(content')
  <2>1. ~stale /\ ~swallowed => Len(Stored) <= Len(content)
    BY <1>1 DEF FormInv, FileInv, Reading
  <2>2. Stored' = Stored
    BY <1>1 DEF Stored
  <2> QED BY <1>3, <1>5, <2>1, <2>2
<1>12. Len(buf) <= BufLen /\ totalSize = Len(got)
  BY DEF FormInv, FileInv
<1> QED BY <1>1, <1>3, <1>9, <1>10, <1>11, <1>12, ReadsOn DEF Reading

\* A block cut short: stale, and nothing more is said of this file.
LEMMA EndShortSound == FormInv /\ EndShort => FormInv'
<1> SUFFICES ASSUME FormInv, EndShort PROVE FormInv'
  OBVIOUS
<1>1. /\ pc = "end" /\ byte = NONE /\ pc' = pc /\ status' = status /\ byte' = byte /\ stale' = TRUE
      /\ Len(endBuf) < Len(Boundary)
      /\ UNCHANGED <<open, peer, got, buf, totalSize, postArgs, swallowed, overrun>>
  BY DEF EndShort, upload, FormInv, Told
<1>2. PICK junk \in [1..Len(Boundary) - Len(endBuf) -> Bytes \cup {FF}] : endBuf' = endBuf \o junk
  BY DEF EndShort
<1>3. endBuf' \in Seq(Bytes \cup {FF}) /\ Len(endBuf') <= Len(Boundary)
  <2>1. endBuf \in Seq(Bytes \cup {FF}) /\ Len(endBuf) \in Nat /\ Len(Boundary) \in Nat
    BY LenProperties, DelimiterParts DEF FormInv, WebTypes, FormTypeOK
  <2>2. Len(Boundary) - Len(endBuf) \in Nat
    BY <1>1, <2>1
  <2>3. junk \in Seq(Bytes \cup {FF}) /\ Len(junk) = Len(Boundary) - Len(endBuf)
    BY <2>2, SeqDef
  <2>4. endBuf \o junk \in Seq(Bytes \cup {FF}) /\ Len(endBuf \o junk) = Len(endBuf) + Len(junk)
    BY <2>1, <2>3, ConcatProperties
  <2> QED BY <1>2, <2>1, <2>3, <2>4
<1>4. WebTypes' /\ Legal'
  BY <1>1, <1>3 DEF FormInv, WebTypes, FormTypeOK, Legal, peer, Delimiter
<1>5. Len(buf) <= BufLen /\ totalSize = Len(got)
  BY DEF FormInv, FileInv
<1> QED BY <1>1, <1>4, <1>5, ReadsOn DEF Reading, peer

\* A whole block goes back to the file; unless the peer has begun its delimiter it is content.
LEMMA NotTheBoundarySound == FormInv /\ NotTheBoundary => FormInv'
<1> SUFFICES ASSUME FormInv, NotTheBoundary PROVE FormInv'
  OBVIOUS
<1>1. /\ pc = "end" /\ byte = NONE /\ pc' = "readfile" /\ status' = status /\ byte' = NONE
      /\ swallowed' = (swallowed \/ sent # "file")
      /\ UNCHANGED <<open, peer, endBuf, postArgs, stale, overrun>>
  BY DEF NotTheBoundary, ReadNext, FormInv, Told
<1>2. PICK h : h = <<CR, LF, DASH, DASH>> \o endBuf
  OBVIOUS
<1>3. h = Held /\ h \in Seq(Char) /\ Stored \in Seq(Char)
  <2>1. h = Held
    BY <1>1, <1>2, Zenon DEF Held
  <2> QED BY <2>1, HeldTypes DEF FormInv
<1>4. Write(h)
  BY <1>2 DEF NotTheBoundary
<1>5. /\ buf' \in Seq(Char) /\ got' \in Seq(Char) /\ Len(buf') <= BufLen /\ totalSize' = Len(got')
      /\ Stored' = Stored \o h
  BY <1>3, <1>4, WriteStores DEF FormInv
<1>6. WebTypes' /\ Legal'
  <2>1. swallowed' \in BOOLEAN
    BY <1>1
  <2> QED BY <1>1, <1>5, <2>1 DEF FormInv, WebTypes, FormTypeOK, Legal, peer, Delimiter
<1>7. ~stale => Stream = Stored \o h
  BY <1>1, <1>3 DEF FormInv, FileInv, Accounted, Reading, NONE, FF
<1>8. ~stale => Accounted'
  <2>1. Stored' \o <<>> = Stored'
    BY <1>3, <1>5, ConcatProperties, ConcatEmptySeq
  <2>2. Held' = <<>> /\ Stream' = Stream
    BY <1>1 DEF Held, Stream, peer, Delimiter
  <2> QED BY <1>1, <1>5, <1>7, <2>1, <2>2, Zenon DEF Accounted
<1>9. ASSUME ~stale, ~swallowed' PROVE Len(Stored') <= Len(content')
  <2>1. at = 0
    BY <1>1, <1>9 DEF FormInv, Legal
  <2>2. Len(Stream) = Len(content) + at /\ Len(content) \in Nat
    BY StreamParts DEF FormInv
  <2>3. Stored' = Stream /\ content' = content
    BY <1>1, <1>5, <1>7, <1>9 DEF peer
  <2> QED BY <2>1, <2>2, <2>3
<1> QED BY <1>1, <1>5, <1>6, <1>8, <1>9, ReadsOn DEF peer, Reading

\* The bytes of the file stay as they are.
LEMMA SendsOnSound == FormInv /\ SendsOn => FormInv'
<1> SUFFICES ASSUME FormInv, SendsOn PROVE FormInv'
  OBVIOUS
<1>1. /\ pc \in Reading /\ sent' = "over" /\ pc' = pc /\ status' = status
      /\ UNCHANGED <<open, at, parts, content, fields, byte, endBuf, upload, postArgs, notes>>
  BY DEF SendsOn, Continues, Reading, upload
<1>2. WebTypes' /\ Legal'
  BY <1>1 DEF FormInv, WebTypes, FormTypeOK, Legal, Delimiter, upload, notes
<1>3. Held' = Held /\ Stored' = Stored /\ Stream' = Stream
  BY <1>1 DEF Held, Stored, Stream, Delimiter, upload
<1>4. ~stale => Accounted'
  <2>1. ~stale => Accounted
    BY <1>1 DEF FormInv, FileInv
  <2> QED BY <1>1, <1>3, <2>1, Zenon DEF Accounted
<1>5. /\ Len(buf) <= BufLen /\ totalSize = Len(got)
      /\ ~stale /\ ~swallowed => Len(Stored) <= Len(content)
  BY <1>1 DEF FormInv, FileInv
<1>6. pc = "end" => byte = NONE
  BY DEF FormInv, Told
<1> QED BY <1>1, <1>2, <1>3, <1>4, <1>5, <1>6, ReadsOn DEF notes, upload

\* The delimiter has come: the handler gets what was stored, which is the file.
LEMMA FileEndsSound == FormInv /\ FileEnds => FormInv'
<1> SUFFICES ASSUME FormInv, FileEnds PROVE FormInv'
  OBVIOUS
<1>1. /\ pc = "end" /\ byte = NONE /\ pc' = "line" /\ status' = "END"
      /\ totalSize' = totalSize + Len(buf) /\ stale' = (stale \/ endBuf # Boundary)
      /\ UNCHANGED <<open, peer, byte, endBuf, buf, postArgs, swallowed, overrun>>
  BY DEF FileEnds, FormInv, Told
<1>2. got' = Stored
  BY DEF FileEnds, Stored
<1>3. /\ Stored \in Seq(Char) /\ Len(Stored) = Len(got) + Len(buf)
      /\ Len(buf) <= BufLen /\ totalSize = Len(got)
  BY HeldTypes DEF FormInv, FileInv
<1>4. WebTypes' /\ Legal'
  <2>1. stale' \in BOOLEAN
    BY <1>1
  <2> QED BY <1>1, <1>2, <1>3, <2>1 DEF FormInv, WebTypes, FormTypeOK, Legal, peer, Delimiter
<1>5. Told'
  BY <1>1 DEF Told, Reading
<1>6. ~stale /\ endBuf = Boundary => content = Stored
  <2>1. endBuf = Boundary => Held = Delimiter
    BY <1>1, Zenon DEF Held, Delimiter
  <2>2. ~stale => Stream = Stored \o Held
    BY <1>1 DEF FormInv, FileInv, Accounted, Reading, NONE, FF
  <2> QED BY <2>1, <2>2, DelimiterEnds DEF FormInv
<1>7. FileInv'
  <2>1. Len(buf') <= BufLen /\ totalSize' = Len(got')
    BY <1>1, <1>2, <1>3
  <2>2. ~stale' => ~stale /\ endBuf = Boundary
    BY <1>1, Zenon
  <2>3. status' = "END" /\ ~stale' => got' = content'
    BY <1>1, <1>2, <1>6, <2>2 DEF peer
  <2> QED BY <1>1, <2>1, <2>3 DEF FileInv, Reading
<1>8. FieldInv'
  BY <1>1, FieldsKept DEF peer
<1> QED BY <1>4, <1>5, <1>7, <1>8 DEF FormInv

\* Every step inside a file.
LEMMA FileStepSound == FormInv /\ (TaskStep \/ PeerStep) => FormInv'
  BY ReadByteSound, ReadNothingSound, ReadFileSound, AfterCrSound, AfterLfSound, AfterDashSound,
     EndByteSound, EndShortSound, FileEndsSound, NotTheBoundarySound, SendsOnSound
     DEF TaskStep, PeerStep

-------------------------------------------------------------------------------
(* Steps outside a file. *)

\* A step that leaves the file and the upload alone.
LEMMA FileKept ==
  ASSUME FormInv, pc \notin Reading, pc' \notin Reading, UNCHANGED <<content, upload, stale>>,
         status' = "ABORTED" => swallowed' = swallowed
  PROVE  FileInv'
  BY DEF FormInv, FileInv, upload

\* The connection may be lost at any label.
LEMMA DisconnectSound == FormInv /\ Disconnect => FormInv'
<1> SUFFICES ASSUME FormInv, Disconnect PROVE FormInv'
  OBVIOUS
<1>1. /\ open /\ pc \notin {"true", "false"} /\ open' = FALSE
      /\ UNCHANGED <<peer, pc, byte, endBuf, upload, postArgs, notes>>
  BY DEF Disconnect
<1>2. WebTypes' /\ Legal'
  <2>1. open' \in BOOLEAN
    BY <1>1
  <2>2. UNCHANGED <<sent, at, parts, content, fields, pc, byte, endBuf, status, buf, totalSize, got,
                    postArgs, swallowed, stale, overrun>>
    BY <1>1 DEF peer, notes, upload
  <2> QED BY <2>1, <2>2 DEF FormInv, WebTypes, FormTypeOK, Legal, Delimiter
<1>3. Told'
  BY <1>1 DEF FormInv, Told, upload
<1>4. FileInv'
  <2>1. Held' = Held /\ Stored' = Stored /\ Stream' = Stream /\ byte' = byte
    BY <1>1 DEF Held, Stored, Stream, Delimiter, upload, peer
  <2>2. Accounted => Accounted'
    BY <1>1, <2>1, Zenon DEF Accounted
  <2>3. pc \in Reading /\ ~stale => Accounted
    BY DEF FormInv, FileInv
  <2>4. UNCHANGED <<buf, got, totalSize, status, content, pc, swallowed, stale>>
    BY <1>1 DEF upload, peer, notes
  <2>5. pc' \in Reading /\ ~stale' => Accounted'
    BY <2>2, <2>3, <2>4
  <2> QED BY <2>1, <2>4, <2>5 DEF FormInv, FileInv
<1>5. FieldInv'
  BY <1>1, FieldsKept DEF peer, notes
<1> QED BY <1>2, <1>3, <1>4, <1>5 DEF FormInv

\* The line in front of the first part.
LEMMA FirstLineSound == FormInv /\ FirstLine => FormInv'
<1> SUFFICES ASSUME FormInv, FirstLine PROVE FormInv'
  OBVIOUS
<1>1. /\ pc = "first" /\ pc' \in {"part", "false"} /\ sent' \in {sent, "part"}
      /\ UNCHANGED <<open, at, parts, content, fields, byte, endBuf, upload, postArgs, notes>>
  BY DEF FirstLine
<1>2. WebTypes' /\ Legal'
  BY <1>1 DEF FormInv, WebTypes, FormTypeOK, Legal, notes, upload, Delimiter
<1>3. Told'
  BY <1>1 DEF FormInv, Told, upload, Reading
<1>4. FileInv'
  BY <1>1, FileKept DEF Reading, notes
<1>5. FieldInv'
  BY <1>1, FieldsKept DEF notes
<1> QED BY <1>2, <1>3, <1>4, <1>5 DEF FormInv

\* The headers of a field.
LEMMA FieldStartsSound == FormInv /\ FieldStarts => FormInv'
<1> SUFFICES ASSUME FormInv, FieldStarts PROVE FormInv'
  OBVIOUS
<1>1. /\ pc = "part" /\ pc' = "value" /\ sent' = "value" /\ parts' = parts + 1 /\ parts < MaxParts
      /\ UNCHANGED <<open, at, content, fields, byte, endBuf, upload, postArgs, notes>>
  BY DEF FieldStarts
<1>2. WebTypes' /\ Legal'
  <2>1. parts' \in 0..MaxParts
    BY <1>1, FormAssumption DEF FormInv, WebTypes, FormTypeOK
  <2> QED BY <1>1, <2>1 DEF FormInv, WebTypes, FormTypeOK, Legal, notes, upload, Delimiter
<1>3. Told'
  BY <1>1 DEF FormInv, Told, upload, Reading
<1>4. FileInv'
  BY <1>1, FileKept DEF Reading, notes
<1>5. FieldInv'
  BY <1>1, FieldsKept DEF notes
<1> QED BY <1>2, <1>3, <1>4, <1>5 DEF FormInv

\* A field is stored behind those before it.
LEMMA FieldEndsSound == \A more \in BOOLEAN : FormInv /\ FieldEnds(more) => FormInv'
<1> SUFFICES ASSUME NEW more \in BOOLEAN, FormInv, FieldEnds(more) PROVE FormInv'
  OBVIOUS
<1>1. /\ pc = "value" /\ pc' \in {"part", "merge"} /\ sent' \in {"part", "over"}
      /\ fields' = Append(fields, parts) /\ postArgs' = Append(postArgs, parts)
      /\ overrun' = (overrun \/ Len(postArgs) >= ARGS)
      /\ UNCHANGED <<open, at, parts, content, byte, endBuf, upload, swallowed, stale>>
  BY DEF FieldEnds
<1>2. /\ postArgs \in Seq(Int) /\ fields \in Seq(Int) /\ parts \in Int /\ postArgs = fields
      /\ Len(postArgs) \in Nat /\ ARGS \in Nat
  BY <1>1, LenProperties, FormAssumption DEF FormInv, WebTypes, FormTypeOK, FieldInv
<1>3. postArgs' \in Seq(Int) /\ fields' \in Seq(Int) /\ postArgs' = fields' /\ Len(postArgs') = Len(postArgs) + 1
  BY <1>1, <1>2, AppendProperties
<1>4. overrun' \in BOOLEAN /\ (~overrun' => Len(postArgs') <= ARGS)
  <2>1. overrun' \in BOOLEAN
    BY <1>1
  <2>2. ~overrun' => ~(Len(postArgs) >= ARGS)
    BY <1>1
  <2>3. ~(Len(postArgs) >= ARGS) => Len(postArgs') <= ARGS
    BY <1>2, <1>3
  <2> QED BY <2>1, <2>2, <2>3
<1>5. WebTypes' /\ Legal'
  BY <1>1, <1>3, <1>4 DEF FormInv, WebTypes, FormTypeOK, Legal, upload, Delimiter
<1>6. Told'
  BY <1>1 DEF FormInv, Told, upload, Reading
<1>7. FileInv'
  BY <1>1, FileKept DEF Reading
<1>8. FieldInv'
  BY <1>1, <1>3, <1>4 DEF FieldInv, FieldsCollected
<1> QED BY <1>5, <1>6, <1>7, <1>8 DEF FormInv

\* A file starts with nothing sent and nothing stored.
LEMMA FileStartsSound == FormInv /\ FileStarts => FormInv'
<1> SUFFICES ASSUME FormInv, FileStarts PROVE FormInv'
  OBVIOUS
<1>1. /\ pc = "part" /\ pc' = "readfile" /\ sent' = "file" /\ at' = 0 /\ parts' = parts + 1
      /\ content' = <<>> /\ status' = "WRITE" /\ buf' = <<>> /\ totalSize' = 0 /\ got' = <<>>
      /\ byte' = NONE /\ parts < MaxParts
      /\ UNCHANGED <<open, fields, endBuf, postArgs, notes>>
  BY DEF FileStarts
<1>2. WebTypes'
  <2>1. parts' \in 0..MaxParts /\ at' \in 0..Len(Delimiter)
    BY <1>1, FormAssumption, DelimiterParts DEF FormInv, WebTypes, FormTypeOK
  <2>2. content' \in Seq(Bytes) /\ got' \in Seq(Char) /\ buf' \in Seq(Char)
    BY <1>1
  <2> QED BY <1>1, <2>1, <2>2 DEF FormInv, WebTypes, FormTypeOK, notes, Delimiter
<1>3. Legal'
  <2>1. Len(content') = 0
    BY <1>1
  <2>2. Len(Delimiter) > 0
    BY DelimiterParts
  <2>3. ~(Len(content') >= Len(Delimiter))
    BY <2>1, <2>2, DelimiterParts
  <2> QED BY <1>1, <2>3 DEF Legal, EndsWith, Delimiter
<1>4. Told'
  BY <1>1 DEF Told, Reading
<1>5. FileInv'
  <2>1. Len(buf') <= BufLen /\ totalSize' = Len(got')
    BY <1>1, FormAssumption
  <2>2. SubSeq(Delimiter, 1, 0) = <<>>
    BY SubSeqEmpty
  <2>3. <<>> \o <<>> = <<>>
    BY ConcatEmptySeq
  <2>4. Held' = <<>> /\ Stored' = <<>> /\ Stream' = <<>>
    <3>1. Stored' = <<>> \o <<>>
      BY <1>1, Zenon DEF Stored
    <3>2. Stream' = <<>> \o <<>>
      BY <1>1, <2>2, Zenon DEF Stream, Delimiter
    <3>3. Held' = <<>>
      BY <1>1, Zenon DEF Held
    <3> QED BY <2>3, <3>1, <3>2, <3>3, Zenon
  <2>5. Accounted'
    BY <1>1, <2>3, <2>4, Zenon DEF Accounted
  <2>6. Len(Stored') <= Len(content')
    BY <1>1, <2>4
  <2> QED BY <1>1, <2>1, <2>5, <2>6 DEF FileInv
<1>6. FieldInv'
  BY <1>1, FieldsKept DEF notes
<1> QED BY <1>2, <1>3, <1>4, <1>5, <1>6 DEF FormInv

\* The line after a delimiter, and the lines that are left of a file.
LEMMA LineAfterSound == FormInv /\ (LineAfter \/ FileAsLines) => FormInv'
<1> SUFFICES ASSUME FormInv, LineAfter \/ FileAsLines PROVE FormInv'
  OBVIOUS
<1>1. /\ pc \in {"line", "part"} /\ pc' \in {"part", "merge"} /\ sent' \in {sent, "part", "over"}
      /\ UNCHANGED <<open, at, parts, content, fields, byte, endBuf, upload, postArgs, notes>>
  BY DEF LineAfter, FileAsLines, Continues, peer
<1>2. WebTypes' /\ Legal'
  BY <1>1 DEF FormInv, WebTypes, FormTypeOK, Legal, notes, upload, Delimiter
<1>3. Told'
  BY <1>1 DEF FormInv, Told, upload, Reading
<1>4. FileInv'
  BY <1>1, FileKept DEF Reading, notes
<1>5. FieldInv'
  BY <1>1, FieldsKept DEF notes
<1> QED BY <1>2, <1>3, <1>4, <1>5 DEF FormInv

\* The arguments of the URL that there is room for come behind the fields.
LEMMA MergeArgsSound == FormInv /\ MergeArgs => FormInv'
<1> SUFFICES ASSUME FormInv, MergeArgs PROVE FormInv'
  OBVIOUS
<1>1. /\ pc = "merge" /\ pc' = "true" /\ postArgs' = Merged
      /\ UNCHANGED <<open, peer, byte, endBuf, upload, notes>>
  BY DEF MergeArgs
<1>2. /\ postArgs \in Seq(Int) /\ postArgs = fields /\ Query \in Seq(Int)
      /\ Len(postArgs) \in Nat /\ Len(Query) \in Nat /\ ARGS \in Nat
      /\ ~overrun => Len(postArgs) <= ARGS
  BY <1>1, LenProperties, FormAssumption DEF FormInv, WebTypes, FieldInv
<1>3. PICK room : room = ARGS - Len(postArgs)
  OBVIOUS
<1>4. PICK n : n = Min({room, Len(Query)})
  OBVIOUS
<1>5. room \in Int /\ n \in {room, Len(Query)} /\ n <= room /\ n <= Len(Query) /\ n \in Int
  <2>1. room \in Int /\ Len(Query) \in Int
    BY <1>2, <1>3
  <2>2. \E x \in {room, Len(Query)} : \A y \in {room, Len(Query)} : x <= y
    BY <2>1
  <2>3. n \in {room, Len(Query)} /\ \A y \in {room, Len(Query)} : n <= y
    BY <1>4, <2>2 DEF Min
  <2> QED BY <2>1, <2>3
<1>6. PICK tail : tail = SubSeq(Query, 1, n)
  OBVIOUS
<1>7. tail \in Seq(Int) /\ (n >= 0 => Len(tail) = n)
  <2>1. CASE n >= 1
    <3>1. \A i \in 1..n : Query[i] \in Int
      BY <1>2, <1>5, <2>1, ElementOfSeq
    <3> QED BY <1>2, <1>5, <1>6, <2>1, <3>1, SubSeqProperties
  <2>2. CASE n < 1
    <3>1. tail = <<>>
      BY <1>5, <1>6, <2>2, SubSeqEmpty
    <3> QED BY <1>5, <2>2, <3>1
  <2> QED BY <1>5, <2>1, <2>2
<1>8. postArgs' = postArgs \o tail
  BY <1>1, <1>3, <1>4, <1>6, Zenon DEF Merged
<1>9. postArgs' \in Seq(Int) /\ Len(postArgs') = Len(postArgs) + Len(tail)
  BY <1>2, <1>7, <1>8, ConcatAt
<1>10. WebTypes' /\ Legal'
  BY <1>1, <1>9 DEF FormInv, WebTypes, FormTypeOK, Legal, peer, notes, upload, Delimiter
<1>11. Told'
  BY <1>1 DEF FormInv, Told, upload, Reading
<1>12. FileInv'
  BY <1>1, FileKept DEF Reading, notes, peer
<1>13. FieldInv'
  <2>1. overrun' = overrun /\ fields' = fields
    BY <1>1 DEF notes, peer
  <2>2. ASSUME ~overrun
        PROVE  /\ n \in 0..Len(Query) /\ Len(postArgs') <= ARGS
               /\ n < Len(Query) => Len(postArgs') = ARGS
    BY <1>2, <1>3, <1>5, <1>7, <1>9, <2>2
  <2>3. postArgs' = fields' \o SubSeq(Query, 1, n)
    BY <1>2, <1>6, <1>8, <2>1, Zenon
  <2>4. FieldsCollected'
    BY <2>1, <2>2, <2>3 DEF FieldsCollected
  <2> QED BY <1>1, <2>1, <2>2, <2>4 DEF FieldInv
<1> QED BY <1>10, <1>11, <1>12, <1>13 DEF FormInv

\* A request starts with nothing read.
LEMMA InitSound == Init => FormInv
<1> SUFFICES ASSUME Init PROVE FormInv
  OBVIOUS
<1>1. /\ pc = "first" /\ status = "none" /\ byte = NONE /\ endBuf = <<>> /\ buf = <<>> /\ got = <<>>
      /\ totalSize = 0 /\ postArgs = <<>> /\ content = <<>> /\ fields = <<>> /\ sent = "first" /\ at = 0
      /\ parts = 0 /\ overrun = FALSE
  BY DEF Init
<1>2. WebTypes
  <2>1. /\ content \in Seq(Bytes) /\ got \in Seq(Char) /\ buf \in Seq(Char) /\ postArgs \in Seq(Int)
        /\ fields \in Seq(Int) /\ endBuf \in Seq(Bytes \cup {FF}) /\ Len(endBuf) = 0
    BY <1>1
  <2>2. parts \in 0..MaxParts /\ at \in 0..Len(Delimiter) /\ Len(endBuf) <= Len(Boundary)
    BY <1>1, <2>1, FormAssumption, DelimiterParts
  <2>3. open \in BOOLEAN /\ swallowed \in BOOLEAN /\ stale \in BOOLEAN /\ overrun \in BOOLEAN
    BY DEF Init
  <2> QED BY <1>1, <2>1, <2>2, <2>3 DEF WebTypes, FormTypeOK
<1>3. Told
  BY <1>1 DEF Told, Reading
<1>4. Legal
  <2>1. Len(content) = 0
    BY <1>1
  <2>2. ~(Len(content) >= Len(Delimiter))
    BY <2>1, DelimiterParts
  <2> QED BY <1>1, <2>2 DEF Legal, EndsWith
<1>5. FileInv
  BY <1>1, FormAssumption DEF FileInv, Reading
<1>6. FieldInv
  <2>1. Len(postArgs) <= ARGS
    BY <1>1, FormAssumption
  <2> QED BY <1>1, <2>1 DEF FieldInv, FieldsCollected
<1> QED BY <1>2, <1>3, <1>4, <1>5, <1>6 DEF FormInv

\* One step of the specification.
LEMMA NextSound == FormInv /\ [Next]_vars => FormInv'
<1> SUFFICES ASSUME FormInv, [Next]_vars PROVE FormInv'
  OBVIOUS
<1>1. CASE UNCHANGED vars
  <2>1. UNCHANGED <<open, sent, at, parts, content, fields, pc, byte, endBuf, status, buf, totalSize,
                    got, postArgs, swallowed, stale, overrun>>
    BY <1>1 DEF vars, peer, upload, notes
  <2>2. WebTypes' /\ Told' /\ Legal'
    BY <2>1 DEF FormInv, WebTypes, FormTypeOK, Told, Legal, Delimiter
  <2>3. Held' = Held /\ Stored' = Stored /\ Stream' = Stream
    BY <2>1 DEF Held, Stored, Stream, Delimiter
  <2>4. Accounted => Accounted'
    BY <2>1, <2>3, Zenon DEF Accounted
  <2>5. FileInv'
    BY <2>1, <2>3, <2>4 DEF FormInv, FileInv
  <2>6. FieldInv'
    BY <2>1 DEF FormInv, FieldInv, FieldsCollected
  <2> QED BY <2>2, <2>5, <2>6 DEF FormInv
<1>2. CASE NextRequest
  <2>1. Init'
    BY <1>2 DEF NextRequest, Init
  <2>2. (Init => FormInv)'
    BY InitSound, PTL
  <2> QED BY <2>1, <2>2
<1>3. CASE FieldStep
  BY <1>3, FieldStartsSound, FieldEndsSound DEF FieldStep
<1>4. CASE OtherLine
  BY <1>1, <1>4 DEF OtherLine
<1> QED
  BY <1>1, <1>2, <1>3, <1>4, DisconnectSound, FirstLineSound, FileStartsSound, FileStepSound,
     LineAfterSound, MergeArgsSound DEF Next

\* The inductive invariant holds in every state.
LEMMA FormInvariant == Spec => []FormInv
<1> QED BY InitSound, NextSound, PTL DEF Spec

-------------------------------------------------------------------------------
(* What follows. *)

\* However the bytes of a file resemble a delimiter and however often the
\* buffer fills, the handler that is told of the end of a file
\* (_parseForm, UPLOAD_FILE_END) has been given that file; the buffer never
\* holds more than HTTP_UPLOAD_BUFLEN bytes.
THEOREM UploadIsExact == Spec => []UploadExact
<1>1. FormInv => UploadExact
  BY DEF FormInv, WebTypes, FileInv, UploadExact
<1> QED BY <1>1, FormInvariant, PTL

\* Until then, and after _parseFormUploadAborted, it has been given a prefix of
\* the file; only a lost connection aborts an upload, and _parseForm does not
\* return true with one unfinished.
THEOREM UploadIsPrefix == Spec => []GivenIsPrefix
<1>1. FormInv => GivenIsPrefix
  <2> SUFFICES ASSUME FormInv PROVE GivenIsPrefix
    OBVIOUS
  <2>1. status = "WRITE" /\ ~swallowed /\ ~stale => IsPrefix(got, content)
    BY AccountedPrefix DEF FormInv, Told, FileInv
  <2>2. status = "ABORTED" /\ ~swallowed /\ ~stale => IsPrefix(got, content)
    BY DEF FormInv, FileInv
  <2>3. status = "ABORTED" => ~open /\ pc = "false"
    BY DEF FormInv, Told
  <2>4. pc \in {"merge", "true"} => status \in {"none", "END"}
    BY DEF FormInv, Told, WebTypes, FormTypeOK, Reading
  <2> QED BY <2>1, <2>2, <2>3, <2>4 DEF GivenIsPrefix
<1> QED BY <1>1, FormInvariant, PTL

\* The arguments of a form, as _parseForm leaves them to the sketch: its fields
\* in their order and the URL's that there is room for.
THEOREM FieldsAreCollected == Spec => []FieldsCollected
<1>1. FormInv => FieldsCollected
  BY DEF FormInv, FieldInv
<1> QED BY <1>1, FormInvariant, PTL

===============================================================================
