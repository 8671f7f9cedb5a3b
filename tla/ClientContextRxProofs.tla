------------------------ MODULE ClientContextRxProofs -------------------------
(***************************************************************************)
(* Proofs, for every segment length, read size and window, that the        *)
(* receive side of ClientContext keeps its chain well formed, accounts for *)
(* the peer's window, bounds what it buffers and reads the stream in order.*)
(***************************************************************************)
EXTENDS ClientContextRx, TLAPS, SequenceTheorems

\* Where the loop task still points to a chain it has decided to free.
Freeing == {"last", "lastFree", "lastNull", "flushFree", "flushNull",
            "unrefFree", "unrefNull"}

\* A read() that reaches the last pbuf has nothing left to copy.
LastIsEnough == pc \in {"last", "lastFree", "lastNull"} => want = 0

FreesSomething == pc \in Freeing => rx # <<>>

\* What was read or flushed is all there was, but for the segments that raced.
DoomedIsRead == raced = 0 /\ pc \in Doomed => readAt = received

ReadIsReceived == readAt <= received

DeletedIsClosed == pc = "deleted" => pcb = "none"

PeerInWindow == received - credited <= Wnd

IInv ==
  /\ TypeOK
  /\ ChainOK
  /\ WindowAccounting
  /\ BufferBounded
  /\ StreamOrder
  /\ ReadStaysInside
  /\ LastIsEnough
  /\ FreesSomething
  /\ DoomedIsRead
  /\ ReadIsReceived
  /\ DeletedIsClosed
  /\ PeerInWindow

-------------------------------------------------------------------------------
(* Chains. *)

\* The fields of a pbuf.
LEMMA PbufFields ==
  ASSUME NEW q \in Pbuf
  PROVE  q.at \in Nat /\ q.len \in Nat /\ q.tot \in Nat
BY DEF Pbuf

\* Raising the total of a pbuf, which is what pbuf_cat does to each.
LEMMA PbufRaised ==
  ASSUME NEW q \in Pbuf, NEW k \in Nat
  PROVE  /\ [q EXCEPT !.tot = @ + k] \in Pbuf
         /\ [q EXCEPT !.tot = @ + k].at = q.at
         /\ [q EXCEPT !.tot = @ + k].len = q.len
         /\ [q EXCEPT !.tot = @ + k].tot = q.tot + k
BY DEF Pbuf

\* pbuf_cat keeps a chain well formed and only adds to the head's total.
LEMMA CatKeepsChain ==
  ASSUME NEW c \in Seq(Pbuf), c # <<>>, Chain(c),
         NEW p \in Pbuf, p.len > 0, p.tot = p.len, p.at = c[1].at + c[1].tot
  PROVE  /\ pbuf_cat(c, p) \in Seq(Pbuf)
         /\ pbuf_cat(c, p) # <<>>
         /\ pbuf_cat(c, p)[1].at = c[1].at
         /\ pbuf_cat(c, p)[1].len = c[1].len
         /\ pbuf_cat(c, p)[1].tot = c[1].tot + p.tot
         /\ Chain(pbuf_cat(c, p))
<1> DEFINE n == Len(c)
           raised == [i \in 1..n |-> [c[i] EXCEPT !.tot = @ + p.tot]]
           d == pbuf_cat(c, p)
<1>1. n \in Nat /\ n > 0
  BY EmptySeq, LenProperties
<1>2. \A i \in 1..n : c[i] \in Pbuf
  BY ElementOfSeq
<1>3. raised \in Seq(Pbuf) /\ Len(raised) = n
  <2>1. ASSUME NEW i \in 1..n
        PROVE  [c[i] EXCEPT !.tot = @ + p.tot] \in Pbuf
    BY <1>2, PbufRaised, PbufFields
  <2> QED
    BY <1>1, <2>1, IsASeq, LenProperties
<1>4. d = Append(raised, p)
  BY DEF pbuf_cat
<1> HIDE DEF d
<1>5. /\ d \in Seq(Pbuf)
      /\ Len(d) = n + 1
      /\ \A i \in 1..n : d[i] = raised[i]
      /\ d[n + 1] = p
  BY <1>3, <1>4, AppendProperties
<1>6. \A i \in 1..n : /\ d[i].at = c[i].at
                      /\ d[i].len = c[i].len
                      /\ d[i].tot = c[i].tot + p.tot
  <2> SUFFICES ASSUME NEW i \in 1..n
               PROVE  /\ d[i].at = c[i].at
                      /\ d[i].len = c[i].len
                      /\ d[i].tot = c[i].tot + p.tot
    OBVIOUS
  <2>1. d[i] = [c[i] EXCEPT !.tot = @ + p.tot]
    BY <1>5
  <2> QED
    BY <2>1, <1>2, PbufRaised, PbufFields
<1> HIDE DEF raised
<1>7. /\ \A i \in 1..n : c[i].at \in Nat /\ c[i].len \in Nat /\ c[i].tot \in Nat
      /\ p.at \in Nat /\ p.len \in Nat /\ p.tot \in Nat
  BY <1>2, PbufFields
<1>8. /\ \A i \in 1..n : c[i].len > 0 /\ c[i].at + c[i].tot = c[1].at + c[1].tot
      /\ \A i \in 1..n - 1 : c[i + 1].at = c[i].at + c[i].len
      /\ c[n].tot = c[n].len
  BY DEF Chain
<1>9. Chain(d)
  <2>a. 1 \in 1..n /\ n \in 1..n
    BY <1>1
  <2>1. ASSUME NEW i \in 1..n + 1
        PROVE  d[i].len > 0 /\ d[i].at + d[i].tot = d[1].at + d[1].tot
    <3>1. CASE i \in 1..n
      <4>1. /\ d[i].at = c[i].at /\ d[i].len = c[i].len /\ d[i].tot = c[i].tot + p.tot
            /\ d[1].at = c[1].at /\ d[1].tot = c[1].tot + p.tot
        BY <3>1, <2>a, <1>6
      <4>2. /\ c[i].at \in Nat /\ c[i].tot \in Nat /\ c[1].at \in Nat /\ c[1].tot \in Nat
            /\ p.tot \in Nat
        BY <3>1, <2>a, <1>7
      <4>3. c[i].len > 0 /\ c[i].at + c[i].tot = c[1].at + c[1].tot
        BY <3>1, <1>8
      <4>4. c[i].at + (c[i].tot + p.tot) = c[1].at + (c[1].tot + p.tot)
        <5> DEFINE a == c[i].at
                   b == c[i].tot
                   u == c[1].at
                   v == c[1].tot
                   k == p.tot
        <5>1. a \in Nat /\ b \in Nat /\ u \in Nat /\ v \in Nat /\ k \in Nat
          BY <4>2
        <5>2. a + b = u + v
          BY <4>3
        <5> HIDE DEF a, b, u, v, k
        <5>3. a + (b + k) = u + (v + k)
          BY <5>1, <5>2
        <5> QED
          BY <5>3 DEF a, b, u, v, k
      <4>5. d[i].at + d[i].tot = d[1].at + d[1].tot
        BY <4>1, <4>4
      <4> QED
        BY <4>1, <4>3, <4>5
    <3>2. CASE i = n + 1
      BY <3>2, <2>a, <1>5, <1>6, <1>7, <1>8
    <3> QED
      BY <1>1, <3>1, <3>2
  <2>2. ASSUME NEW i \in 1..n
        PROVE  d[i + 1].at = d[i].at + d[i].len
    <3>1. CASE i \in 1..n - 1
      <4>1. i + 1 \in 1..n
        BY <3>1, <1>1
      <4> QED
        BY <3>1, <4>1, <1>6, <1>8
    <3>2. CASE i = n
      BY <3>2, <2>a, <1>5, <1>6, <1>7, <1>8
    <3> QED
      BY <1>1, <3>1, <3>2
  <2> QED
    BY <1>1, <1>5, <2>1, <2>2 DEF Chain
<1>10. d # <<>>
  BY <1>1, <1>5, EmptySeq
<1>11. d[1].at = c[1].at /\ d[1].len = c[1].len /\ d[1].tot = c[1].tot + p.tot
  BY <1>1, <1>6
<1> QED
  BY <1>5, <1>9, <1>10, <1>11 DEF d

\* Dropping a head that has a successor.
LEMMA TailKeepsChain ==
  ASSUME NEW c \in Seq(Pbuf), Len(c) > 1, Chain(c)
  PROVE  /\ Tail(c) \in Seq(Pbuf)
         /\ Tail(c) # <<>>
         /\ Tail(c)[1].at = c[1].at + c[1].len
         /\ Tail(c)[1].tot = c[1].tot - c[1].len
         /\ Tail(c)[1].len > 0
         /\ Chain(Tail(c))
<1> DEFINE n == Len(c)
           d == Tail(c)
<1>1. n \in Nat /\ n > 1
  BY LenProperties
<1>2. \A i \in 1..n : c[i].at \in Nat /\ c[i].len \in Nat /\ c[i].tot \in Nat
  BY ElementOfSeq, PbufFields
<1>3. /\ d \in Seq(Pbuf)
      /\ Len(d) = n - 1
      /\ \A i \in 1..n - 1 : d[i] = c[i + 1]
  BY <1>1, HeadTailProperties, EmptySeq
<1> HIDE DEF d
<1>4. /\ \A i \in 1..n : c[i].len > 0 /\ c[i].at + c[i].tot = c[1].at + c[1].tot
      /\ \A i \in 1..n - 1 : c[i + 1].at = c[i].at + c[i].len
      /\ c[n].tot = c[n].len
  BY DEF Chain
<1>5. /\ d # <<>>
      /\ d[1] = c[2]
      /\ d[n - 1] = c[n]
  BY <1>1, <1>3, EmptySeq
<1>6. c[2].at = c[1].at + c[1].len /\ c[2].at + c[2].tot = c[1].at + c[1].tot /\ c[2].len > 0
  BY <1>1, <1>4
<1>7. Chain(d)
  <2>1. ASSUME NEW i \in 1..n - 1
        PROVE  d[i].len > 0 /\ d[i].at + d[i].tot = d[1].at + d[1].tot
    <3>1. i + 1 \in 1..n /\ d[i] = c[i + 1] /\ 2 \in 1..n
      BY <1>1, <1>3
    <3>2. c[i + 1].len > 0 /\ c[i + 1].at + c[i + 1].tot = c[1].at + c[1].tot
      BY <1>4, <3>1
    <3> QED
      BY <1>5, <1>6, <3>1, <3>2
  <2>2. ASSUME NEW i \in 1..n - 2
        PROVE  d[i + 1].at = d[i].at + d[i].len
    <3>1. i \in 1..n - 1 /\ i + 1 \in 1..n - 1
      BY <1>1
    <3> QED
      BY <1>1, <1>3, <1>4, <3>1
  <2> QED
    BY <1>1, <1>3, <1>4, <1>5, <2>1, <2>2 DEF Chain
<1>8. d[1].tot = c[1].tot - c[1].len
  <2>1. /\ c[1].at \in Nat /\ c[1].len \in Nat /\ c[1].tot \in Nat
        /\ c[2].at \in Nat /\ c[2].tot \in Nat
    BY <1>1, <1>2
  <2> QED
    BY <1>5, <1>6, <2>1, SMTT(30)
<1> QED
  BY <1>3, <1>5, <1>6, <1>7, <1>8 DEF d

\* A single pbuf is a chain.
LEMMA SingleIsChain ==
  ASSUME NEW p \in Pbuf, p.len > 0, p.tot = p.len
  PROVE  /\ <<p>> \in Seq(Pbuf) /\ <<p>> # <<>> /\ <<p>>[1] = p /\ Chain(<<p>>)
BY DEF Chain, Pbuf

\* The head of a chain: its fields are numbers, and its length is part of its total.
LEMMA HeadOfChain ==
  ASSUME NEW c \in Seq(Pbuf), c # <<>>, Chain(c)
  PROVE  /\ Len(c) \in Nat /\ Len(c) > 0
         /\ c[1].at \in Nat /\ c[1].len \in Nat /\ c[1].tot \in Nat
         /\ c[1].len > 0 /\ c[1].len <= c[1].tot
         /\ Len(c) = 1 => c[1].len = c[1].tot
<1>1. Len(c) \in Nat /\ Len(c) > 0
  BY EmptySeq, LenProperties
<1>2. /\ c[1].at \in Nat /\ c[1].len \in Nat /\ c[1].tot \in Nat
      /\ c[1].len > 0
  <2>1. c[1] \in Pbuf
    BY <1>1, ElementOfSeq
  <2> QED
    BY <1>1, <2>1, PbufFields DEF Chain
<1>3. Len(c) = 1 => c[1].len = c[1].tot
  BY DEF Chain
<1>4. CASE Len(c) > 1
  <2>1. 2 \in 1..Len(c) /\ 1 \in 1..Len(c) - 1
    BY <1>1, <1>4
  <2>2. c[2].tot \in Nat /\ c[2].at \in Nat
    BY <2>1, ElementOfSeq, PbufFields
  <2>3. c[2].at + c[2].tot = c[1].at + c[1].tot /\ c[1 + 1].at = c[1].at + c[1].len
    BY <2>1 DEF Chain
  <2> QED
    BY <1>1, <1>2, <1>4, <2>2, <2>3
<1>5. CASE Len(c) = 1
  BY <1>2, <1>3, <1>5
<1> QED
  <2>1. Len(c) = 1 \/ Len(c) > 1
    BY <1>1
  <2> QED
    BY <1>1, <1>2, <1>3, <1>4, <1>5, <2>1

-------------------------------------------------------------------------------
(* The induction. *)

\* The head of the shared chain.
LEMMA RxHead ==
  ASSUME TypeOK, ChainOK, rx # <<>>
  PROVE  /\ Len(rx) \in Nat /\ Len(rx) > 0
         /\ rx[1].at \in Nat /\ rx[1].len \in Nat /\ rx[1].tot \in Nat
         /\ rx[1].len > 0 /\ rx[1].len <= rx[1].tot
         /\ Len(rx) = 1 => rx[1].len = rx[1].tot
         /\ rx[1].at + rx[1].tot = received
         /\ off < rx[1].len
         /\ Chain(rx)
BY HeadOfChain DEF TypeOK, ChainOK

\* A callback with data.
LEMMA RecvStep ==
  ASSUME IInv, NEW n \in SegLens, Recv(n)
  PROVE  IInv'
<1> DEFINE p == [at |-> received, len |-> n, tot |-> n]
<1> USE DEF IInv
<1>1. n \in Nat /\ n > 0
  BY RxAssumption
<1>2. p \in Pbuf /\ p.at = received /\ p.len = n /\ p.tot = n
  BY <1>1 DEF TypeOK, Pbuf
<1>3. /\ pcb = "open" /\ pcb' = "open" /\ pc' = pc /\ want' = want /\ readAt' = readAt
      /\ received' = received + n /\ credited' = credited
      /\ received + n - credited <= Wnd
      /\ raced' = IF pc \in Doomed THEN raced + n ELSE raced
  BY DEF Recv
<1>4. /\ received \in Nat /\ credited \in Nat /\ raced \in Nat /\ readAt \in Nat
      /\ want \in Nat /\ off \in Nat /\ pc \in Places
  BY DEF TypeOK
<1>5. PICK d, o : /\ rx' = d /\ off' = o
                  /\ d \in Seq(Pbuf) /\ d # <<>> /\ Chain(d)
                  /\ d[1].at \in Nat /\ d[1].len \in Nat /\ d[1].tot \in Nat
                  /\ o \in Nat /\ o < d[1].len
                  /\ d[1].at + d[1].tot = received + n
                  /\ d[1].tot = held + n
                  /\ rx # <<>> => d[1].at = rx[1].at /\ d[1].len = rx[1].len /\ o = off
                  /\ rx = <<>> => d[1].at = received /\ o = 0
  <2>1. CASE rx # <<>>
    <3> DEFINE d == pbuf_cat(rx, p)
    <3>1. rx' = d /\ off' = off
      BY <2>1 DEF Recv
    <3>2. /\ d \in Seq(Pbuf) /\ d # <<>> /\ Chain(d)
          /\ d[1].at = rx[1].at /\ d[1].len = rx[1].len /\ d[1].tot = rx[1].tot + n
      <4> HIDE DEF p
      <4>1. p.at = rx[1].at + rx[1].tot
        BY <2>1, <1>2, RxHead
      <4>2. rx \in Seq(Pbuf) /\ Chain(rx)
        BY <2>1, RxHead DEF TypeOK
      <4> QED
        BY <1>1, <1>2, <2>1, <4>1, <4>2, CatKeepsChain
    <3>3. held = rx[1].tot
      BY <2>1 DEF held
    <3>4. /\ rx[1].at \in Nat /\ rx[1].len \in Nat /\ rx[1].tot \in Nat
          /\ off < rx[1].len /\ rx[1].at + rx[1].tot = received
      BY <2>1, RxHead
    <3> HIDE DEF d
    <3>5. d[1].at + d[1].tot = received + n
      BY <1>1, <3>2, <3>4
    <3>6. d[1].tot \in Nat /\ d[1].at \in Nat /\ d[1].len \in Nat
      BY <1>1, <3>2, <3>4
    <3>7. d[1].tot = held + n
      BY <3>2, <3>3
    <3>8. off \in Nat /\ off < d[1].len
      BY <1>4, <3>2, <3>4
    <3> WITNESS d, off
    <3> QED
      BY <2>1, <3>1, <3>2, <3>5, <3>6, <3>7, <3>8
  <2>2. CASE rx = <<>>
    <3>1. rx' = <<p>> /\ off' = 0
      BY <2>2 DEF Recv
    <3>2. held = 0
      BY <2>2 DEF held
    <3> HIDE DEF p
    <3>3. <<p>> \in Seq(Pbuf) /\ <<p>> # <<>> /\ <<p>>[1] = p /\ Chain(<<p>>)
      BY <1>1, <1>2, SingleIsChain
    <3> DEFINE d == <<p>>
    <3>4. /\ d[1].at = received /\ d[1].len = n /\ d[1].tot = n
          /\ d \in Seq(Pbuf) /\ d # <<>> /\ Chain(d)
          /\ rx' = d
      BY <1>2, <3>1, <3>3
    <3> HIDE DEF d
    <3> WITNESS d, 0
    <3> QED
      BY <1>1, <1>4, <2>2, <3>1, <3>2, <3>4
  <2> QED
    BY <2>1, <2>2
<1> HIDE DEF p
<1>6. TypeOK'
  BY <1>1, <1>3, <1>4, <1>5 DEF TypeOK
<1>7. ChainOK'
  BY <1>3, <1>5 DEF ChainOK
<1>8. held' = d[1].tot /\ held \in Nat
  BY <1>5, RxHead DEF held
<1>9. WindowAccounting'
  <2>1. credited + kept + raced = received
    BY <1>3 DEF WindowAccounting
  <2>2. CASE pc \in {"idle", "copy"}
    <3>1. kept = held /\ kept' = held + n /\ raced' = raced
      BY <2>2, <1>3, <1>5, <1>8 DEF kept, Doomed
    <3> QED
      BY <1>1, <1>3, <1>4, <1>8, <2>1, <3>1 DEF WindowAccounting
  <2>3. CASE pc = "last"
    <3>1. rx # <<>>
      BY <2>3 DEF FreesSomething, Freeing
    <3>2. kept = rx[1].len /\ kept' = rx[1].len /\ raced' = raced + n
      BY <2>3, <1>3, <1>5, <3>1 DEF kept, Doomed
    <3>3. rx[1].len \in Nat
      BY <3>1, RxHead
    <3> QED
      BY <1>1, <1>3, <1>4, <2>1, <3>2, <3>3 DEF WindowAccounting
  <2>4. CASE pc \notin {"idle", "copy", "last"}
    <3>1. pc \in Doomed
      BY <1>3, <1>4, <2>4 DEF Places, Doomed, DeletedIsClosed
    <3>2. kept = 0 /\ kept' = 0 /\ raced' = raced + n
      BY <2>4, <3>1, <1>3 DEF kept
    <3> QED
      BY <1>1, <1>3, <1>4, <2>1, <3>2 DEF WindowAccounting
  <2> QED
    BY <2>2, <2>3, <2>4
<1>10. BufferBounded'
  <2>1. CASE pc \in {"idle", "copy"}
    <3>1. kept = held /\ credited + held + raced = received
      BY <2>1, <1>3 DEF kept, WindowAccounting
    <3> QED
      BY <1>1, <1>3, <1>4, <1>5, <1>8, <3>1, RxAssumption DEF BufferBounded
  <2>2. CASE pc \notin {"idle", "copy"}
    BY <2>2, <1>3 DEF BufferBounded
  <2> QED
    BY <2>1, <2>2
<1>11. StreamOrder'
  <2>1. CASE pc \in {"idle", "copy"}
    <3>1. raced' = raced
      BY <2>1, <1>3 DEF Doomed
    <3>2. CASE rx # <<>>
      BY <2>1, <3>1, <3>2, <1>3, <1>4, <1>5 DEF StreamOrder
    <3>3. CASE rx = <<>>
      BY <2>1, <3>1, <3>3, <1>3, <1>4, <1>5 DEF StreamOrder, ReadIsReceived
    <3> QED
      BY <3>2, <3>3
  <2>2. CASE pc \notin {"idle", "copy"}
    BY <2>2, <1>3 DEF StreamOrder
  <2> QED
    BY <2>1, <2>2
<1>12. ReadStaysInside'
  <2>1. CASE pc = "copy"
    <3>1. rx # <<>> /\ want > 0 /\ want <= rx[1].tot - off /\ held = rx[1].tot
      BY <2>1 DEF ReadStaysInside, getSize, held
    <3>2. getSize' = d[1].tot - off
      BY <1>5, <3>1 DEF getSize
    <3> QED
      BY <1>1, <1>3, <1>4, <1>5, <1>8, <3>1, <3>2, SMTT(30) DEF ReadStaysInside
  <2>2. CASE pc # "copy"
    BY <2>2, <1>3 DEF ReadStaysInside
  <2> QED
    BY <2>1, <2>2
<1>13. LastIsEnough' /\ FreesSomething' /\ DeletedIsClosed'
  BY <1>3, <1>5 DEF LastIsEnough, FreesSomething, DeletedIsClosed
<1>14. DoomedIsRead'
  BY <1>1, <1>3, <1>4 DEF DoomedIsRead
<1>15. ReadIsReceived' /\ PeerInWindow'
  BY <1>1, <1>3, <1>4 DEF ReadIsReceived, PeerInWindow
<1> QED
  BY <1>6, <1>7, <1>9, <1>10, <1>11, <1>12, <1>13, <1>14, <1>15

\* What one turn of read() copies: never more than is asked or than the head
\* holds, and all that is asked when the head is not used up.
LEMMA CopySize ==
  ASSUME TypeOK, ChainOK, ReadStaysInside, pc = "copy"
  PROVE  /\ copy_size \in Nat /\ copy_size <= want /\ copy_size <= rx[1].len - off
         /\ rx[1].len - off - copy_size > 0 => copy_size = want
         /\ rx[1].len - off - copy_size <= 0 => copy_size = rx[1].len - off
<1>1. rx # <<>> /\ want \in Nat /\ off \in Nat
  BY DEF TypeOK, ReadStaysInside
<1>2. rx[1].len \in Nat /\ off < rx[1].len
  BY <1>1, RxHead
<1>3. copy_size = IF want < rx[1].len - off THEN want ELSE rx[1].len - off
  BY DEF copy_size, Lesser
<1> QED
  BY <1>1, <1>2, <1>3

\* One turn of read() inside the head.
LEMMA CopyWithinStep ==
  ASSUME IInv, CopyWithin
  PROVE  IInv'
<1> USE DEF IInv
<1>1. /\ pc = "copy" /\ pcb' = pcb /\ rx' = rx /\ received' = received
      /\ credited' = credited /\ raced' = raced
      /\ rx[1].len - off - copy_size > 0
  BY DEF CopyWithin
<1>2. /\ received \in Nat /\ credited \in Nat /\ raced \in Nat /\ readAt \in Nat
      /\ want \in Nat /\ off \in Nat /\ rx \in Seq(Pbuf)
  BY DEF TypeOK
<1>3. rx # <<>>
  BY <1>1 DEF ReadStaysInside
<1>4. /\ rx[1].at \in Nat /\ rx[1].len \in Nat /\ rx[1].tot \in Nat /\ Chain(rx)
      /\ rx[1].len <= rx[1].tot /\ rx[1].at + rx[1].tot = received /\ off < rx[1].len
  BY <1>3, RxHead
<1>5. copy_size = want /\ want < rx[1].len - off
  BY <1>1, <1>2, <1>4, CopySize
<1>6. off' = off + want /\ readAt' = rx[1].at + off + want /\ want' = 0 /\ pc' = "idle"
  <2>1. off' = off + want /\ readAt' = rx[1].at + off + want /\ want' = want - want
    BY <1>5 DEF CopyWithin
  <2>2. want' = 0
    BY <1>2, <2>1
  <2> QED
    BY <2>1, <2>2 DEF CopyWithin
<1>7. held' = held /\ kept' = held /\ kept = held
  BY <1>1, <1>6 DEF held, kept
<1>8. TypeOK'
  BY <1>1, <1>2, <1>4, <1>6, SMTT(30) DEF TypeOK, Places
<1>9. ChainOK'
  BY <1>1, <1>2, <1>4, <1>5, <1>6 DEF ChainOK
<1>10. WindowAccounting'
  BY <1>1, <1>7 DEF WindowAccounting
<1>11. BufferBounded'
  BY <1>1, <1>7 DEF BufferBounded
<1>12. StreamOrder'
  BY <1>1, <1>2, <1>3, <1>4, <1>6 DEF StreamOrder
<1>13. ReadStaysInside' /\ LastIsEnough' /\ FreesSomething' /\ DoomedIsRead' /\ DeletedIsClosed'
  BY <1>6 DEF ReadStaysInside, LastIsEnough, FreesSomething, Freeing, DoomedIsRead, Doomed,
     DeletedIsClosed
<1>14. ReadIsReceived' /\ PeerInWindow'
  BY <1>1, <1>2, <1>4, <1>5, <1>6, SMTT(30) DEF ReadIsReceived, PeerInWindow
<1> QED
  BY <1>8, <1>9, <1>10, <1>11, <1>12, <1>13, <1>14

\* One turn of read() that moves on to the next pbuf.
LEMMA CopyMoreStep ==
  ASSUME IInv, CopyMore
  PROVE  IInv'
<1> DEFINE d == Tail(rx)
           l == rx[1].len
           w == want - copy_size
           nc == IF pcb = "open" THEN credited + l ELSE credited
           nr == rx[1].at + l
<1> USE DEF IInv
<1>1. /\ pc = "copy" /\ pcb' = pcb /\ rx' = d /\ received' = received /\ off' = 0
      /\ credited' = nc /\ raced' = raced /\ want' = w
      /\ pc' = IF want' = 0 THEN "idle" ELSE "copy"
      /\ l - off - copy_size <= 0 /\ Len(rx) > 1
  BY DEF CopyMore, Credit
<1>2. /\ received \in Nat /\ credited \in Nat /\ raced \in Nat /\ readAt \in Nat
      /\ want \in Nat /\ off \in Nat /\ rx \in Seq(Pbuf) /\ pcb \in {"open", "none"}
  BY DEF TypeOK
<1>3. rx # <<>> /\ want <= rx[1].tot - off
  BY <1>1 DEF ReadStaysInside, getSize
<1>4. /\ rx[1].at \in Nat /\ l \in Nat /\ rx[1].tot \in Nat /\ Chain(rx) /\ l > 0
      /\ l <= rx[1].tot /\ rx[1].at + rx[1].tot = received /\ off < l
  BY <1>3, RxHead
<1>5. copy_size = l - off /\ copy_size <= want
  BY <1>1, CopySize
<1>6. readAt' = nr
  <2>1. readAt' = rx[1].at + off + copy_size
    BY DEF CopyMore
  <2>2. rx[1].at + off + copy_size = nr
    BY <1>2, <1>4, <1>5
  <2> QED
    BY <2>1, <2>2
<1>7. /\ d \in Seq(Pbuf) /\ d # <<>> /\ Chain(d) /\ d[1].len > 0
      /\ d[1].at = nr /\ d[1].tot = rx[1].tot - l
  BY <1>1, <1>2, <1>4, TailKeepsChain
<1>8. nc \in Nat /\ nr \in Nat /\ w \in Nat /\ w <= d[1].tot /\ d[1].tot \in Nat
  <2>1. w = want - l + off
    BY <1>2, <1>4, <1>5
  <2>2. nc \in Nat
    BY <1>2, <1>4
  <2>3. nr \in Nat
    BY <1>4
  <2>4. w \in Nat
    BY <1>2, <1>4, <1>5
  <2>5. d[1].tot \in Nat
    BY <1>4, <1>7
  <2>6. w <= d[1].tot
    BY <1>2, <1>3, <1>4, <1>7, <2>1, SMTT(30)
  <2> QED
    BY <2>2, <2>3, <2>4, <2>5, <2>6
<1> HIDE DEF d, w, nc, nr
<1>9. held' = d[1].tot /\ kept' = d[1].tot /\ kept = rx[1].tot /\ held = rx[1].tot
  BY <1>1, <1>3, <1>7 DEF held, kept
<1>10. pc' = (IF w = 0 THEN "idle" ELSE "copy") /\ pc' \in {"idle", "copy"}
  BY <1>1
<1>11. TypeOK'
  BY <1>1, <1>2, <1>6, <1>7, <1>8, <1>10 DEF TypeOK, Places
<1>12. ChainOK'
  <2>1. d[1].at + d[1].tot = received
    BY <1>2, <1>4, <1>7 DEF nr
  <2>2. 0 < d[1].len
    BY <1>7, HeadOfChain
  <2> QED
    BY <1>1, <1>7, <2>1, <2>2 DEF ChainOK
<1>13. WindowAccounting'
  <2>1. /\ pcb = "open" => nc = credited + l
        /\ pcb # "open" => nc = credited
    BY DEF nc
  <2>2. pcb = "open" => nc + d[1].tot + raced = received
    BY <1>2, <1>4, <1>7, <1>9, <2>1, SMTT(30) DEF WindowAccounting
  <2>3. nc + d[1].tot + raced <= received
    <3>1. credited + rx[1].tot + raced <= received
      BY <1>9 DEF WindowAccounting
    <3>2. CASE pcb = "open"
      BY <1>2, <1>4, <1>7, <2>1, <3>1, <3>2, SMTT(30)
    <3>3. CASE pcb # "open"
      <4>1. nc = credited
        BY <2>1, <3>3
      <4>2. d[1].tot <= rx[1].tot
        BY <1>2, <1>4, <1>7
      <4> QED
        BY <1>2, <1>4, <1>8, <3>1, <4>1, <4>2, SMTT(30)
    <3> QED
      BY <3>2, <3>3
  <2> QED
    BY <1>1, <1>9, <2>2, <2>3 DEF WindowAccounting
<1>14. BufferBounded'
  <2>1. rx[1].tot <= Wnd
    BY <1>1, <1>9 DEF BufferBounded
  <2>2. d[1].tot <= Wnd
    BY <1>4, <1>7, <2>1, RxAssumption
  <2> QED
    BY <1>9, <2>2 DEF BufferBounded
<1>15. StreamOrder'
  <2>1. d[1].at + 0 = nr
    BY <1>7, <1>8
  <2> QED
    BY <1>1, <1>6, <1>7, <1>8, <2>1 DEF StreamOrder
<1>16. ReadStaysInside'
  <2>1. getSize' = d[1].tot - 0
    BY <1>1, <1>7 DEF getSize
  <2>2. getSize' = d[1].tot
    BY <1>8, <2>1
  <2>3. w # 0 => w > 0
    BY <1>8
  <2> QED
    BY <1>1, <1>7, <1>8, <1>10, <2>2, <2>3 DEF ReadStaysInside
<1>17. LastIsEnough' /\ FreesSomething' /\ DoomedIsRead' /\ DeletedIsClosed'
  BY <1>10 DEF LastIsEnough, FreesSomething, Freeing, DoomedIsRead, Doomed, DeletedIsClosed
<1>18. ReadIsReceived' /\ PeerInWindow'
  <2>1. nr <= received
    BY <1>4 DEF nr
  <2>2. received - nc <= Wnd
    BY <1>2, <1>4, RxAssumption DEF PeerInWindow, nc
  <2> QED
    BY <1>1, <1>6, <2>1, <2>2 DEF ReadIsReceived, PeerInWindow
<1> QED
  BY <1>11, <1>12, <1>13, <1>14, <1>15, <1>16, <1>17, <1>18

\* One turn of read() that uses up the only pbuf: nothing is left to copy.
LEMMA CopyLastStep ==
  ASSUME IInv, CopyLast
  PROVE  IInv'
<1> USE DEF IInv
<1>1. /\ pc = "copy" /\ pc' = "last" /\ Len(rx) = 1 /\ rx[1].len - off - copy_size <= 0
      /\ pcb' = pcb /\ rx' = rx /\ off' = off /\ received' = received
      /\ credited' = credited /\ raced' = raced
  BY DEF CopyLast
<1>2. /\ received \in Nat /\ credited \in Nat /\ raced \in Nat /\ want \in Nat /\ off \in Nat
  BY DEF TypeOK
<1>3. rx # <<>> /\ want <= rx[1].tot - off
  BY <1>1 DEF ReadStaysInside, getSize
<1>4. /\ rx[1].at \in Nat /\ rx[1].len \in Nat /\ rx[1].len = rx[1].tot
      /\ rx[1].at + rx[1].tot = received /\ off < rx[1].len
  BY <1>1, <1>3, RxHead
<1>5. copy_size = rx[1].len - off /\ want = rx[1].len - off
  BY <1>1, <1>2, <1>3, <1>4, CopySize
<1>6. want' = 0 /\ readAt' = received
  <2>1. want' = want - copy_size /\ readAt' = rx[1].at + off + copy_size
    BY DEF CopyLast
  <2>2. want - copy_size = 0 /\ rx[1].at + off + copy_size = received
    BY <1>2, <1>4, <1>5
  <2> QED
    BY <2>1, <2>2
<1>7. kept' = kept /\ kept = rx[1].len
  BY <1>1, <1>3, <1>4 DEF kept, held
<1>8. TypeOK'
  BY <1>1, <1>2, <1>6 DEF TypeOK, Places
<1>9. ChainOK' /\ WindowAccounting' /\ PeerInWindow'
  BY <1>1, <1>7 DEF ChainOK, WindowAccounting, PeerInWindow
<1>10. BufferBounded' /\ StreamOrder' /\ ReadStaysInside'
  BY <1>1 DEF BufferBounded, StreamOrder, ReadStaysInside
<1>11. LastIsEnough' /\ FreesSomething' /\ DoomedIsRead' /\ DeletedIsClosed'
  BY <1>1, <1>3, <1>6 DEF LastIsEnough, FreesSomething, DoomedIsRead, DeletedIsClosed
<1>12. ReadIsReceived'
  BY <1>1, <1>2, <1>6 DEF ReadIsReceived
<1> QED
  BY <1>8, <1>9, <1>10, <1>11, <1>12

\* The credit for the last pbuf.
LEMMA LastCreditStep ==
  ASSUME IInv, LastCredit
  PROVE  IInv'
<1> DEFINE nc == IF pcb = "open" THEN credited + rx[1].len ELSE credited
<1> USE DEF IInv
<1>1. /\ pc = "last" /\ pc' = "lastFree" /\ credited' = nc /\ pcb' = pcb /\ rx' = rx /\ off' = off
      /\ want' = want /\ received' = received /\ readAt' = readAt /\ raced' = raced
  BY DEF LastCredit, Credit
<1>2. /\ received \in Nat /\ credited \in Nat /\ raced \in Nat
  BY DEF TypeOK
<1>3. rx # <<>>
  BY <1>1 DEF FreesSomething, Freeing
<1>4. rx[1].len \in Nat
  BY <1>3, RxHead
<1>5. kept = rx[1].len /\ kept' = 0
  BY <1>1 DEF kept
<1>6. /\ nc \in Nat
      /\ pcb = "open" => nc + 0 + raced = received
      /\ nc + 0 + raced <= received
      /\ received - nc <= Wnd
  <2>1. CASE pcb = "open"
    BY <2>1, <1>2, <1>4, <1>5, RxAssumption DEF WindowAccounting, PeerInWindow
  <2>2. CASE pcb # "open"
    BY <2>2, <1>2, <1>4, <1>5, RxAssumption DEF WindowAccounting, PeerInWindow
  <2> QED
    BY <2>1, <2>2
<1> HIDE DEF nc
<1>7. TypeOK'
  BY <1>1, <1>6 DEF TypeOK, Places
<1>8. ChainOK' /\ WindowAccounting' /\ PeerInWindow'
  BY <1>1, <1>5, <1>6 DEF ChainOK, WindowAccounting, PeerInWindow
<1>9. BufferBounded' /\ StreamOrder' /\ ReadStaysInside' /\ ReadIsReceived'
  BY <1>1 DEF BufferBounded, StreamOrder, ReadStaysInside, ReadIsReceived
<1>10. LastIsEnough' /\ FreesSomething' /\ DoomedIsRead' /\ DeletedIsClosed'
  BY <1>1, <1>3 DEF LastIsEnough, FreesSomething, DoomedIsRead, DeletedIsClosed, Doomed
<1> QED
  BY <1>7, <1>8, <1>9, <1>10

\* pbuf_free, with _rx_buf still set.
LEMMA FreeStep ==
  ASSUME IInv, Free
  PROVE  IInv'
<1> USE DEF IInv
<1>1. /\ UNCHANGED <<pcb, rx, off, want, received, credited, readAt, raced>>
      /\ pc \in {"lastFree", "flushFree", "unrefFree"}
      /\ pc' \in {"lastNull", "flushNull", "unrefNull"}
      /\ pc = "lastFree" <=> pc' = "lastNull"
  BY DEF Free, Freed
<1>2. kept' = 0 /\ kept = 0
  BY <1>1 DEF kept
<1>3. rx # <<>>
  BY <1>1 DEF FreesSomething, Freeing
<1>4. TypeOK'
  BY <1>1 DEF TypeOK, Places
<1>5. ChainOK' /\ WindowAccounting' /\ PeerInWindow' /\ ReadIsReceived'
  BY <1>1, <1>2 DEF ChainOK, WindowAccounting, PeerInWindow, ReadIsReceived
<1>6. BufferBounded' /\ StreamOrder' /\ ReadStaysInside' /\ DeletedIsClosed'
  BY <1>1 DEF BufferBounded, StreamOrder, ReadStaysInside, DeletedIsClosed
<1>7. LastIsEnough' /\ FreesSomething'
  BY <1>1, <1>3 DEF LastIsEnough, FreesSomething
<1>8. DoomedIsRead'
  BY <1>1 DEF DoomedIsRead, Doomed
<1> QED
  BY <1>4, <1>5, <1>6, <1>7, <1>8

\* "_rx_buf = 0": whatever raced in is dropped.
LEMMA NullStep ==
  ASSUME IInv, Null
  PROVE  IInv'
<1> USE DEF IInv
<1>1. /\ UNCHANGED <<pcb, want, received, credited, readAt, raced>>
      /\ rx' = <<>> /\ off' = 0
      /\ pc \in {"lastNull", "flushNull", "unrefNull"}
      /\ pc' = Nulled[pc]
  BY DEF Null, Nulled
<1>2. pc' \in {"idle", "close"}
  BY <1>1 DEF Nulled, LastIsEnough
<1>3. kept' = 0 /\ kept = 0 /\ held' = 0
  BY <1>1, <1>2 DEF kept, held
<1>4. TypeOK'
  BY <1>1, <1>2, EmptySeq DEF TypeOK, Places
<1>5. ChainOK' /\ WindowAccounting' /\ PeerInWindow' /\ ReadIsReceived'
  BY <1>1, <1>3 DEF ChainOK, WindowAccounting, PeerInWindow, ReadIsReceived
<1>6. BufferBounded'
  BY <1>3, RxAssumption DEF BufferBounded
<1>7. StreamOrder'
  BY <1>1, <1>2 DEF StreamOrder, DoomedIsRead, Doomed
<1>8. ReadStaysInside' /\ LastIsEnough' /\ FreesSomething' /\ DeletedIsClosed'
  BY <1>2 DEF ReadStaysInside, LastIsEnough, FreesSomething, Freeing, DeletedIsClosed
<1>9. DoomedIsRead'
  BY <1>1, <1>2 DEF DoomedIsRead, Doomed
<1> QED
  BY <1>4, <1>5, <1>6, <1>7, <1>8, <1>9

\* flush(): everything held is credited.
LEMMA FlushStep ==
  ASSUME IInv, NEW place \in {"flushFree", "unrefFree"}, FlushTo(place)
  PROVE  IInv'
<1> DEFINE nc == IF pcb = "open" THEN credited + rx[1].tot ELSE credited
<1> USE DEF IInv
<1>1. /\ pc = "idle" /\ pc' = place /\ credited' = nc /\ pcb' = pcb /\ rx' = rx /\ off' = off
      /\ want' = want /\ received' = received /\ raced' = raced /\ rx # <<>>
  BY DEF FlushTo, Credit
<1>2. /\ received \in Nat /\ credited \in Nat /\ raced \in Nat
  BY DEF TypeOK
<1>3. rx[1].tot \in Nat /\ rx[1].at + rx[1].tot = received
  BY <1>1, RxHead
<1>4. readAt' = received
  BY <1>3 DEF FlushTo
<1>5. kept = rx[1].tot /\ kept' = 0
  BY <1>1 DEF kept, held
<1>6. /\ nc \in Nat
      /\ pcb = "open" => nc + 0 + raced = received
      /\ nc + 0 + raced <= received
      /\ received - nc <= Wnd
  <2>1. CASE pcb = "open"
    BY <2>1, <1>2, <1>3, <1>5, RxAssumption DEF WindowAccounting, PeerInWindow
  <2>2. CASE pcb # "open"
    BY <2>2, <1>2, <1>3, <1>5, RxAssumption DEF WindowAccounting, PeerInWindow
  <2> QED
    BY <2>1, <2>2
<1> HIDE DEF nc
<1>7. TypeOK'
  BY <1>1, <1>2, <1>4, <1>6 DEF TypeOK, Places
<1>8. ChainOK' /\ WindowAccounting' /\ PeerInWindow'
  BY <1>1, <1>5, <1>6 DEF ChainOK, WindowAccounting, PeerInWindow
<1>9. BufferBounded' /\ StreamOrder' /\ ReadStaysInside'
  BY <1>1 DEF BufferBounded, StreamOrder, ReadStaysInside
<1>10. ReadIsReceived'
  BY <1>1, <1>2, <1>4 DEF ReadIsReceived
<1>11. LastIsEnough' /\ FreesSomething' /\ DoomedIsRead' /\ DeletedIsClosed'
  BY <1>1, <1>4 DEF LastIsEnough, FreesSomething, DoomedIsRead, DeletedIsClosed
<1> QED
  BY <1>7, <1>8, <1>9, <1>10, <1>11

\* The steps that only move the loop task or end the connection.
LEMMA OtherSteps ==
  ASSUME IInv,
         \/ Disconnected
         \/ \E n \in ReadSizes : Read(n)
         \/ Unref
         \/ Close
         \/ UNCHANGED vars
  PROVE  IInv'
<1> USE DEF IInv
<1>0. /\ received \in Nat /\ credited \in Nat /\ raced \in Nat /\ readAt \in Nat
      /\ want \in Nat /\ off \in Nat
  BY DEF TypeOK
<1>1. CASE Disconnected
  <2>1. /\ UNCHANGED <<rx, off, pc, want, received, credited, readAt, raced>>
        /\ pcb' = "none"
    BY <1>1 DEF Disconnected
  <2>2. kept' = kept /\ held' = held /\ getSize' = getSize
    BY <2>1 DEF kept, held, getSize
  <2>3. TypeOK' /\ ChainOK' /\ WindowAccounting' /\ PeerInWindow' /\ ReadIsReceived'
    BY <2>1, <2>2 DEF TypeOK, ChainOK, WindowAccounting, PeerInWindow, ReadIsReceived
  <2>4. BufferBounded' /\ StreamOrder' /\ ReadStaysInside'
    BY <2>1, <2>2 DEF BufferBounded, StreamOrder, ReadStaysInside
  <2>5. LastIsEnough' /\ FreesSomething' /\ DoomedIsRead' /\ DeletedIsClosed'
    BY <2>1 DEF LastIsEnough, FreesSomething, DoomedIsRead, DeletedIsClosed
  <2> QED
    BY <2>3, <2>4, <2>5
<1>2. ASSUME NEW n \in ReadSizes, Read(n)
      PROVE  IInv'
  <2> DEFINE w == Lesser(n, getSize)
  <2>1. /\ UNCHANGED <<pcb, rx, off, received, credited, readAt, raced>>
        /\ pc = "idle" /\ pc' = "copy" /\ rx # <<>> /\ want' = w
    BY <1>2 DEF Read
  <2>2. rx[1].tot \in Nat /\ rx[1].len \in Nat /\ rx[1].len <= rx[1].tot /\ off < rx[1].len
    BY <2>1, RxHead
  <2>3. getSize = rx[1].tot - off /\ getSize' = getSize
    BY <2>1 DEF getSize
  <2>4. w \in Nat /\ w > 0 /\ w <= getSize
    BY <1>0, <2>2, <2>3, RxAssumption DEF Lesser
  <2> HIDE DEF w
  <2>5. kept' = kept /\ held' = held
    BY <2>1 DEF kept, held
  <2>6. TypeOK'
    BY <2>1, <2>4 DEF TypeOK, Places
  <2>7. ChainOK' /\ WindowAccounting' /\ PeerInWindow' /\ ReadIsReceived'
    BY <2>1, <2>5 DEF ChainOK, WindowAccounting, PeerInWindow, ReadIsReceived
  <2>8. BufferBounded' /\ StreamOrder'
    BY <2>1, <2>5 DEF BufferBounded, StreamOrder
  <2>9. ReadStaysInside'
    BY <2>1, <2>3, <2>4 DEF ReadStaysInside
  <2>10. LastIsEnough' /\ FreesSomething' /\ DoomedIsRead' /\ DeletedIsClosed'
    BY <2>1 DEF LastIsEnough, FreesSomething, Freeing, DoomedIsRead, Doomed, DeletedIsClosed
  <2> QED
    BY <2>6, <2>7, <2>8, <2>9, <2>10
<1>3. CASE Unref
  <2>1. CASE FlushTo("unrefFree")
    BY <2>1, FlushStep
  <2>2. CASE /\ pc = "idle" /\ rx = <<>> /\ pc' = "close"
             /\ UNCHANGED <<pcb, rx, off, want, received, credited, readAt, raced>>
    <3>1. kept' = 0 /\ kept = 0
      BY <2>2 DEF kept, held
    <3>2. TypeOK' /\ ChainOK' /\ WindowAccounting' /\ PeerInWindow' /\ ReadIsReceived'
      BY <2>2, <3>1 DEF TypeOK, Places, ChainOK, WindowAccounting, PeerInWindow, ReadIsReceived
    <3>3. BufferBounded' /\ StreamOrder' /\ ReadStaysInside'
      BY <2>2 DEF BufferBounded, StreamOrder, ReadStaysInside
    <3>4. LastIsEnough' /\ FreesSomething' /\ DeletedIsClosed'
      BY <2>2 DEF LastIsEnough, FreesSomething, Freeing, DeletedIsClosed
    <3>5. DoomedIsRead'
      BY <2>2 DEF DoomedIsRead, StreamOrder
    <3> QED
      BY <3>2, <3>3, <3>4, <3>5
  <2> QED
    BY <1>3, <2>1, <2>2 DEF Unref
<1>4. CASE Close
  <2>1. /\ pc = "close" /\ pc' = "deleted" /\ pcb' = "none" /\ rx' = <<>> /\ off' = 0
        /\ UNCHANGED <<want, received, credited, readAt, raced>>
    BY <1>4 DEF Close
  <2>2. kept' = 0 /\ kept = 0
    BY <2>1 DEF kept
  <2>3. TypeOK'
    BY <2>1, EmptySeq DEF TypeOK, Places
  <2>4. ChainOK' /\ WindowAccounting' /\ PeerInWindow' /\ ReadIsReceived'
    BY <2>1, <2>2 DEF ChainOK, WindowAccounting, PeerInWindow, ReadIsReceived
  <2>5. BufferBounded' /\ StreamOrder' /\ ReadStaysInside'
    BY <2>1 DEF BufferBounded, StreamOrder, ReadStaysInside
  <2>6. LastIsEnough' /\ FreesSomething' /\ DoomedIsRead' /\ DeletedIsClosed'
    BY <2>1 DEF LastIsEnough, FreesSomething, Freeing, DoomedIsRead, Doomed, DeletedIsClosed
  <2> QED
    BY <2>3, <2>4, <2>5, <2>6
<1>5. CASE UNCHANGED vars
  <2>1. UNCHANGED <<pcb, rx, off, pc, want, received, credited, readAt, raced>>
    BY <1>5 DEF vars
  <2>2. kept' = kept /\ held' = held /\ getSize' = getSize
    BY <2>1 DEF kept, held, getSize
  <2>3. TypeOK' /\ ChainOK' /\ WindowAccounting' /\ PeerInWindow' /\ ReadIsReceived'
    BY <2>1, <2>2 DEF TypeOK, ChainOK, WindowAccounting, PeerInWindow, ReadIsReceived
  <2>4. BufferBounded' /\ StreamOrder' /\ ReadStaysInside'
    BY <2>1, <2>2 DEF BufferBounded, StreamOrder, ReadStaysInside
  <2>5. LastIsEnough' /\ FreesSomething' /\ DoomedIsRead' /\ DeletedIsClosed'
    BY <2>1 DEF LastIsEnough, FreesSomething, DoomedIsRead, DeletedIsClosed
  <2> QED
    BY <2>3, <2>4, <2>5
<1> QED
  BY <1>1, <1>2, <1>3, <1>4, <1>5

\* The inductive invariant holds throughout.
LEMMA Invariance == Spec => []IInv
<1>1. Init => IInv
  <2> SUFFICES ASSUME Init PROVE IInv
    OBVIOUS
  <2> USE DEF Init
  <2>1. TypeOK
    BY EmptySeq DEF TypeOK, Places
  <2>2. ChainOK /\ WindowAccounting /\ BufferBounded /\ StreamOrder /\ ReadStaysInside
    BY RxAssumption DEF ChainOK, WindowAccounting, kept, held, BufferBounded, StreamOrder,
       ReadStaysInside
  <2>3. LastIsEnough /\ FreesSomething /\ DoomedIsRead /\ ReadIsReceived /\ DeletedIsClosed
    BY DEF LastIsEnough, FreesSomething, Freeing, DoomedIsRead, Doomed, ReadIsReceived,
       DeletedIsClosed
  <2>4. PeerInWindow
    BY RxAssumption DEF PeerInWindow
  <2> QED
    BY <2>1, <2>2, <2>3, <2>4 DEF IInv
<1>2. IInv /\ [Next]_vars => IInv'
  <2> SUFFICES ASSUME IInv, [Next]_vars PROVE IInv'
    OBVIOUS
  <2>1. ASSUME NEW n \in SegLens, Recv(n) PROVE IInv'
    BY <2>1, RecvStep
  <2>2. CASE CopyWithin
    BY <2>2, CopyWithinStep
  <2>3. CASE CopyMore
    BY <2>3, CopyMoreStep
  <2>4. CASE CopyLast
    BY <2>4, CopyLastStep
  <2>5. CASE LastCredit
    BY <2>5, LastCreditStep
  <2>6. CASE Free
    BY <2>6, FreeStep
  <2>7. CASE Null
    BY <2>7, NullStep
  <2>8. CASE Flush
    BY <2>8, FlushStep DEF Flush
  <2>9. CASE Disconnected \/ (\E n \in ReadSizes : Read(n)) \/ Unref \/ Close \/ UNCHANGED vars
    BY <2>9, OtherSteps
  <2> QED
    BY <2>1, <2>2, <2>3, <2>4, <2>5, <2>6, <2>7, <2>8, <2>9 DEF Next, Callback, Method
<1> QED
  BY <1>1, <1>2, PTL DEF Spec

\* _recv, read, flush and unref, however they interleave, keep the chain they
\* share well formed, and read() never runs off it.
THEOREM ChainStaysSound == Spec => [](TypeOK /\ ChainOK /\ ReadStaysInside)
<1>1. IInv => TypeOK /\ ChainOK /\ ReadStaysInside
  BY DEF IInv
<1> QED
  BY <1>1, Invariance, PTL

\* Every byte received is credited once, held, or one that raced with the free
\* of the chain; what is held never exceeds TCP_WND.
THEOREM WindowIsAccounted == Spec => [](WindowAccounting /\ BufferBounded)
<1>1. IInv => WindowAccounting /\ BufferBounded
  BY DEF IInv
<1> QED
  BY <1>1, Invariance, PTL

\* The sketch reads the stream in order, without a gap unless a segment raced.
THEOREM StreamInOrder == Spec => []StreamOrder
<1>1. IInv => StreamOrder
  BY DEF IInv
<1> QED
  BY <1>1, Invariance, PTL
===============================================================================
