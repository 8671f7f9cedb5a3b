--------------------------- MODULE DnsServerProofs ---------------------------
(***************************************************************************)
(* Theorems about the UDP socket and the DNS server on top of it, for any  *)
(* datagrams, any number of them, any size of pbuf and of header.          *)
(*                                                                         *)
(* Datagrams are numbered as they arrive, so the chain the tcpip thread    *)
(* appends to is always a run of consecutive numbers that ends with the    *)
(* newest; what next() has unlinked and not freed is the run before it.    *)
(***************************************************************************)
EXTENDS DnsServer, SequenceTheorems, TLAPS

-------------------------------------------------------------------------------
(* The receive side.                                                       *)

\* The number of the chain's head; of the next to arrive when it is empty.
first == arrived - Len(rx) + 1

\* The datagrams that can be reached, from the chain or from next()'s head.
Held == (first - Len(old))..arrived

RxTypes ==
  /\ ctx \in {"none", "open", "bound"}
  /\ gram \in Seq(Datagrams)
  /\ rx \in Seq(Nat) /\ old \in Seq(Nat) /\ seen \in Seq(Nat)
  /\ off \in Nat /\ taken \in BOOLEAN /\ raced \in BOOLEAN
  /\ npc \in {"idle", "loaded", "lastLoaded", "stored", "lastStored", "reffed", "lastReffed"}

\* Consecutive numbers, the newest last.
Consecutive ==
  /\ Len(rx) + Len(old) <= arrived
  /\ \A i \in 1..Len(rx) : rx[i] = first + i - 1
  /\ \A i \in 1..Len(old) : old[i] = first - Len(old) + i - 1

\* What each place inside next() knows of the chain.
Places ==
  /\ npc \in {"idle", "loaded", "lastLoaded"} => old = <<>>
  /\ npc \in {"stored", "reffed"} => Len(old) = 1
  /\ npc \in {"loaded", "lastLoaded", "stored", "reffed"} => rx # <<>> /\ taken
  /\ npc = "loaded" => Len(rx) >= 2
  /\ npc = "lastLoaded" /\ ~raced => Len(rx) = 1
  /\ npc \in {"lastStored", "lastReffed"} /\ ~raced => rx = <<>>
  /\ npc = "idle" <=> dpc # "parse"
  /\ dpc \in {"got", "begin", "write"} => rx # <<>>

\* One reference each, and a second on the successor of the head being freed.
Refs ==
  /\ DOMAIN ref \subseteq 1..arrived
  /\ \A d \in DOMAIN ref : ref[d] \in Nat \ {0}
  /\ Held \subseteq DOMAIN ref
  /\ npc = "reffed" => ref[first] >= 2
  /\ ~raced => /\ DOMAIN ref = Held
               /\ \A d \in Held : ref[d] = IF npc = "reffed" /\ d = first THEN 2 ELSE 1

\* What next() presented is not behind the head, and before it until next()
\* presents the head.
Presented ==
  /\ \A i \in DOMAIN seen : seen[i] \in 1..arrived /\ seen[i] <= first
  /\ ~raced /\ (~taken \/ npc \in {"stored", "reffed"}) => \A i \in DOMAIN seen : seen[i] < first

\* A datagram is read as a whole or not at all.
Whole == rx # <<>> => off \in {0, gram[first].len}

RxInv ==
  /\ RxTypes /\ Consecutive /\ Places /\ Refs /\ Presented /\ Whole
  /\ PresentedInOrder

-------------------------------------------------------------------------------
(* The send side.                                                          *)

Bytes == {"ok", "error", "name", "type", "ttl", "ip", JUNK, NONE} \cup (Nat \X Nat)

TxTypes ==
  /\ written \in Seq(Bytes) /\ left \in Seq(Bytes)
  /\ txbuf \in Seq([1..Unit -> Bytes])
  /\ cur \in Nat /\ txoff \in Nat
  /\ sent \in Seq([to : {remoteIP(d) : d \in Datagrams}, data : Seq(Bytes), asked : Seq(Bytes)])

\* Where the transmit chain ends, and that there is room for the rest.
TxPlace ==
  /\ txbuf = <<>> => cur = 0 /\ txoff = 0
  /\ txbuf # <<>> => cur \in 1..Len(txbuf) /\ (cur - 1) * Unit <= txoff /\ txoff <= cur * Unit
  /\ txoff + Len(left) <= Len(txbuf) * Unit
  /\ dpc # "write" => txbuf = <<>>

\* The bytes written are those in the chain and then those left to copy.
TxContents ==
  /\ Len(written) = txoff + Len(left)
  /\ \A q \in 1..Len(left) : left[q] = written[txoff + q]
  /\ \A k \in 1..Len(txbuf), i \in 1..Unit :
       (k - 1) * Unit + i <= txoff => txbuf[k][i] = written[(k - 1) * Unit + i]

TxInv == TxTypes /\ TxPlace /\ TxContents /\ SentIsWritten

-------------------------------------------------------------------------------
(* The server.                                                             *)

\* What a reply to datagram d begins with, when the query was taken for kind.
Opening(s, d, kind) ==
  /\ s[1] = <<d, 1>>
  /\ kind = "match" /\ gram[d].len >= 2 => s[2] = "ok"
  /\ kind # "match" => s[2] = "error"

Judged(d, kind) == kind \in Bodies \ {"response"} /\ (gram[d].len >= Header => kind = gram[d].body)

OpeningLen(d, kind) == IF kind = "match" THEN gram[d].len ELSE Header

\* The bytes in the last m writes of Answer.
AnswerLeft(m) == IF m = 0 THEN 0 ELSE IF m = 1 THEN 2 ELSE IF m = 2 THEN 4 ELSE IF m = 3 THEN 5 ELSE 6

\* Nothing is written yet, or the opening and some of the answer.
Unbegun(d, kind) ==
  /\ written = <<>>
  /\ Len(todo) = (IF kind = "match" THEN 5 ELSE 1)
  /\ Len(todo[1]) = OpeningLen(d, kind) /\ Opening(todo[1], d, kind)
  /\ kind = "match" => \A i \in 1..4 : todo[i + 1] = Answer[i]

Underway(d, kind) ==
  /\ IF kind = "match"
       THEN /\ Len(todo) <= 4 /\ \A i \in 1..Len(todo) : todo[i] = Answer[4 - Len(todo) + i]
            /\ Len(written) + AnswerLeft(Len(todo)) = gram[d].len + AnswerLen
       ELSE todo = <<>> /\ Len(written) = Header
  /\ written # <<>> /\ Opening(written, d, kind)

ReplyInv ==
  /\ dpc \in {"out", "parse", "got", "begin", "write"}
  /\ todo \in Seq(Seq(Bytes))
  /\ dpc \in {"begin", "write"} =>
       /\ off = gram[first].len /\ off # 0
       /\ \E kind \in Bodies : /\ Judged(first, kind)
                               /\ \/ Unbegun(first, kind)
                                  \/ dpc = "write" /\ Underway(first, kind)
  /\ dpc = "write" => dest = remoteIP(gram[first])

\* What was sent answers datagrams before the head, or the head once it has
\* been read.
Answered ==
  \A i \in DOMAIN sent :
    \/ Of(sent[i]) \in 1..first - 1
    \/ /\ Of(sent[i]) = first /\ rx # <<>> /\ dpc \notin {"begin", "write"}
       /\ off = gram[first].len /\ off # 0

DnsInv == RxInv /\ TxInv /\ ReplyInv /\ Answered /\ Replies
-------------------------------------------------------------------------------
(* The chain: every step of either task keeps it.                          *)

\* Numbers and the head of the chain, from the invariant.
LEMMA RxNumbers ==
  ASSUME RxInv
  PROVE  /\ arrived \in Nat /\ Len(rx) \in Nat /\ Len(old) \in Nat
         /\ first \in Nat /\ first = arrived - Len(rx) + 1 /\ Len(old) < first
         /\ rx # <<>> => /\ Len(rx) >= 1 /\ first <= arrived /\ rx[1] = first
                         /\ gram[first] \in Datagrams /\ gram[first].len \in Nat
         /\ rx = <<>> => Len(rx) = 0 /\ first = arrived + 1
         /\ old = <<>> <=> Len(old) = 0
<1> USE DEF RxInv, RxTypes, Consecutive, arrived, first
<1>1. arrived \in Nat /\ Len(rx) \in Nat /\ Len(old) \in Nat
  OBVIOUS
<1>2. (old = <<>> <=> Len(old) = 0) /\ (rx = <<>> <=> Len(rx) = 0)
  BY EmptySeq
<1>3. first \in Nat /\ first = arrived - Len(rx) + 1 /\ Len(old) < first
  BY <1>1
<1>4. ASSUME rx # <<>> PROVE Len(rx) >= 1 /\ first <= arrived /\ rx[1] = first
  BY <1>1, <1>2, <1>3, <1>4
<1>5. ASSUME rx # <<>> PROVE gram[first] \in Datagrams /\ gram[first].len \in Nat
  <2>1. first \in 1..Len(gram)
    BY <1>1, <1>3, <1>4, <1>5
  <2>2. gram[first] \in Datagrams
    BY <2>1
  <2> QED BY <2>2, UdpAssumption
<1> QED BY <1>1, <1>2, <1>3, <1>4, <1>5

\* The two runs of consecutive numbers are what can be reached.
LEMMA HeldIs ==
  ASSUME RxInv
  PROVE  Held = Range(rx) \cup Range(old)
<1>1. arrived \in Nat /\ Len(rx) \in Nat /\ Len(old) \in Nat /\ first \in Nat /\ first = arrived - Len(rx) + 1 /\ Len(old) < first
  BY RxNumbers
<1>2. DOMAIN rx = 1..Len(rx) /\ DOMAIN old = 1..Len(old)
  BY DEF RxInv, RxTypes
<1>3. ASSUME NEW d \in Held PROVE d \in Range(rx) \cup Range(old)
  <2>1. d \in Int /\ first - Len(old) <= d /\ d <= arrived
    BY <1>1, <1>3 DEF Held
  <2>2. CASE d < first
    <3>1. d - first + Len(old) + 1 \in 1..Len(old)
      BY <1>1, <2>1, <2>2
    <3>2. old[d - first + Len(old) + 1] = d
      BY <1>1, <2>1, <3>1 DEF RxInv, Consecutive
    <3> QED BY <1>2, <3>1, <3>2 DEF Range
  <2>3. CASE d >= first
    <3>1. d - first + 1 \in 1..Len(rx)
      BY <1>1, <2>1, <2>3
    <3>2. rx[d - first + 1] = d
      BY <1>1, <2>1, <3>1 DEF RxInv, Consecutive
    <3> QED BY <1>2, <3>1, <3>2 DEF Range
  <2> QED BY <1>1, <2>1, <2>2, <2>3
<1>4. ASSUME NEW i \in 1..Len(rx) PROVE rx[i] \in Held
  BY <1>1, <1>4 DEF Held, RxInv, Consecutive
<1>5. ASSUME NEW i \in 1..Len(old) PROVE old[i] \in Held
  BY <1>1, <1>5 DEF Held, RxInv, Consecutive
<1> QED BY <1>2, <1>3, <1>4, <1>5 DEF Range

LEMMA RxInitially == Init => RxInv
<1> SUFFICES ASSUME Init PROVE RxInv
  OBVIOUS
<1> USE DEF Init, UdpInit
<1>1. RxTypes
  <2>1. gram \in Seq(Datagrams) /\ rx \in Seq(Nat) /\ old \in Seq(Nat) /\ seen \in Seq(Nat)
    BY EmptySeq
  <2> QED BY <2>1, Zenon DEF RxTypes
<1>2. arrived = 0 /\ first = 1 /\ Held = {}
  BY DEF arrived, first, Held
<1>3. Consecutive /\ Presented /\ Whole /\ PresentedInOrder
  BY <1>2 DEF Consecutive, Presented, Whole, PresentedInOrder
<1>4. Places
  BY DEF Places
<1>5. Refs
  BY <1>2 DEF Refs
<1> QED BY <1>1, <1>3, <1>4, <1>5 DEF RxInv

\* _recv appends the next number.
LEMMA ArriveRx ==
  ASSUME RxInv, Arrive
  PROVE  RxInv'
<1>1. PICK d \in Datagrams : Recv(d) /\ UNCHANGED dnsvars
  BY DEF Arrive
<1> USE DEF dnsvars
<1>2. /\ arrived \in Nat /\ Len(rx) \in Nat /\ Len(old) \in Nat /\ first \in Nat
      /\ first = arrived - Len(rx) + 1 /\ Len(old) < first
      /\ (rx = <<>> => Len(rx) = 0 /\ first = arrived + 1)
      /\ (rx # <<>> => first <= arrived)
  BY RxNumbers
<1>3. /\ gram' = Append(gram, d) /\ rx' = Append(rx, arrived + 1)
      /\ ctx' = ctx /\ npc' = npc /\ old' = old /\ seen' = seen /\ dpc' = dpc
      /\ ref' = [i \in DOMAIN ref \cup {arrived + 1} |-> IF i = arrived + 1 THEN 1 ELSE ref[i]]
  BY <1>1 DEF Recv
<1>31. /\ raced' \in BOOLEAN /\ (~raced' => ~raced /\ npc \notin {"lastLoaded", "lastStored", "lastReffed"})
       /\ taken' \in BOOLEAN /\ off' \in Nat
       /\ rx = <<>> => ~taken' /\ off' = 0
       /\ rx # <<>> => (taken' <=> taken) /\ off' = off
  <2>1. raced' = (raced \/ Null) /\ IF rx = <<>> THEN taken' = FALSE /\ off' = 0 ELSE taken' = taken /\ off' = off
    BY <1>1 DEF Recv
  <2>2. taken \in BOOLEAN /\ raced \in BOOLEAN /\ off \in Nat
    BY DEF RxInv, RxTypes
  <2>3. off' \in Nat
    BY <2>1, <2>2
  <2> QED BY <2>1, <2>2, <2>3, Zenon DEF Null
<1>4. /\ gram' \in Seq(Datagrams) /\ arrived' = arrived + 1 /\ rx' \in Seq(Nat)
      /\ Len(rx') = Len(rx) + 1 /\ first' = first
      /\ \A i \in 1..Len(rx) : rx'[i] = rx[i]
      /\ rx'[Len(rx) + 1] = arrived + 1
      /\ \A i \in 1..arrived : gram'[i] = gram[i]
  BY <1>2, <1>3 DEF RxInv, RxTypes, arrived, first
<1>5. RxTypes'
  BY <1>3, <1>31, <1>4, Zenon DEF RxInv, RxTypes
<1>6. Consecutive'
  <2>1. Len(rx') + Len(old') <= arrived'
    BY <1>2, <1>3, <1>4
  <2>2. ASSUME NEW i \in 1..Len(rx') PROVE rx'[i] = first' + i - 1
    <3>1. CASE i \in 1..Len(rx)
      BY <1>2, <1>4, <3>1 DEF RxInv, Consecutive
    <3>2. CASE i = Len(rx) + 1
      BY <1>2, <1>4, <3>2
    <3> QED BY <1>2, <1>4, <2>2, <3>1, <3>2
  <2>3. ASSUME NEW i \in 1..Len(old') PROVE old'[i] = first' - Len(old') + i - 1
    BY <1>3, <1>4, <2>3 DEF RxInv, Consecutive
  <2> QED BY <2>1, <2>2, <2>3 DEF Consecutive
<1>7. Places'
  <2>1. rx' # <<>>
    BY <1>2, <1>4, EmptySeq
  <2>2. Len(rx') >= 2 \/ Len(rx) = 0
    BY <1>2, <1>4
  <2>3. npc = "loaded" => Len(rx) # 0
    BY <1>2 DEF RxInv, Places
  <2>4. npc \in {"loaded", "lastLoaded", "stored", "reffed"} => taken'
    BY <1>31, Zenon DEF RxInv, Places
  <2> QED BY <1>3, <1>31, <2>1, <2>2, <2>3, <2>4, Zenon DEF RxInv, Places
<1>8. Refs'
  <2>1. Held' = Held \cup {arrived + 1} /\ arrived + 1 \notin DOMAIN ref /\ arrived + 1 \notin Held
    BY <1>2, <1>3, <1>4 DEF Held, RxInv, Refs
  <2>2. \A i \in DOMAIN ref : ref'[i] = ref[i]
    BY <1>3, <2>1
  <2>3. ref'[arrived + 1] = 1 /\ DOMAIN ref' = DOMAIN ref \cup {arrived + 1}
    BY <1>3
  <2>4. DOMAIN ref' \subseteq 1..arrived'
    BY <1>2, <1>4, <2>3 DEF RxInv, Refs
  <2>5. npc' = "reffed" => ref'[first'] >= 2
    <3>1. npc = "reffed" => first \in DOMAIN ref
      BY <1>2 DEF RxInv, Refs, Held, Places
    <3> QED BY <1>3, <1>4, <2>2, <3>1 DEF RxInv, Refs
  <2>6. npc = "reffed" => first # arrived + 1
    BY <1>2 DEF RxInv, Places
  <2>7. \A i \in DOMAIN ref' : ref'[i] \in Nat \ {0}
    BY <2>2, <2>3 DEF RxInv, Refs
  <2>8. Held' \subseteq DOMAIN ref'
    BY <2>1, <2>3 DEF RxInv, Refs
  <2>9. ASSUME ~raced' PROVE /\ DOMAIN ref' = Held'
                             /\ \A i \in Held' : ref'[i] = IF npc' = "reffed" /\ i = first' THEN 2 ELSE 1
    <3>1. DOMAIN ref = Held /\ \A i \in Held : ref[i] = IF npc = "reffed" /\ i = first THEN 2 ELSE 1
      BY <1>31, <2>9, Zenon DEF RxInv, Refs
    <3> QED BY <1>3, <1>4, <2>1, <2>2, <2>3, <2>6, <3>1
  <2> QED BY <2>4, <2>5, <2>7, <2>8, <2>9 DEF Refs
<1>9. Presented'
  <2>1. ASSUME NEW i \in DOMAIN seen PROVE seen[i] \in 1..arrived + 1 /\ seen[i] <= first
    BY <1>2, <2>1 DEF RxInv, Presented
  <2>2. ASSUME ~raced', ~taken' \/ npc' \in {"stored", "reffed"}, NEW i \in DOMAIN seen PROVE seen[i] < first
    <3>1. CASE rx = <<>>
      BY <1>2, <2>1, <3>1 DEF RxInv, Presented
    <3>2. CASE rx # <<>>
      BY <1>3, <1>31, <2>2, <3>2, Zenon DEF RxInv, Presented
    <3> QED BY <3>1, <3>2
  <2> QED BY <1>3, <1>4, <2>1, <2>2 DEF Presented
<1>10. Whole'
  <2>1. CASE rx = <<>>
    BY <1>31, <2>1 DEF Whole
  <2>2. CASE rx # <<>>
    <3>1. first \in 1..arrived
      BY <1>2, <2>2
    <3> QED BY <1>31, <1>4, <2>2, <3>1 DEF RxInv, Whole
  <2> QED BY <2>1, <2>2
<1>11. PresentedInOrder'
  BY <1>3, <1>31, Zenon DEF RxInv, PresentedInOrder
<1> QED BY <1>5, <1>6, <1>7, <1>8, <1>9, <1>10, <1>11 DEF RxInv
\* Steps that leave the receive side alone.
LEMMA RxUntouched ==
  ASSUME RxInv, UNCHANGED rxvars, ctx' \in {"none", "open", "bound"},
         dpc' # "parse" <=> dpc # "parse",
         dpc' \in {"got", "begin", "write"} => rx # <<>>
  PROVE  RxInv'
<1> USE DEF rxvars
<1>1. arrived' = arrived /\ first' = first /\ Held' = Held
  BY DEF arrived, first, Held
<1>2. RxTypes' /\ Places'
  BY Zenon DEF RxInv, RxTypes, Places
<1>3. Consecutive' /\ Refs' /\ Presented' /\ Whole' /\ PresentedInOrder'
  BY <1>1 DEF RxInv, Consecutive, Refs, Presented, Whole, PresentedInOrder
<1> QED BY <1>2, <1>3 DEF RxInv

\* What next() presents is appended to what it presented before.
LEMMA PresentOne ==
  ASSUME RxInv, rx # <<>>, seen' = Append(seen, first), raced' = raced,
         \A i \in DOMAIN seen : ~raced => seen[i] < first
  PROVE  /\ PresentedInOrder' /\ seen' \in Seq(Nat)
         /\ \A i \in DOMAIN seen' : seen'[i] \in 1..arrived /\ seen'[i] <= first
<1>1. first \in Nat /\ first \in 1..arrived /\ arrived \in Nat
  BY RxNumbers
<1>2. seen \in Seq(Nat)
  BY DEF RxInv, RxTypes
<1>3. /\ DOMAIN seen = 1..Len(seen) /\ DOMAIN seen' = 1..(Len(seen) + 1) /\ Len(seen) \in Nat
      /\ seen'[Len(seen) + 1] = first /\ seen' \in Seq(Nat)
      /\ \A i \in 1..Len(seen) : seen'[i] = seen[i] /\ seen[i] \in Nat
  BY <1>1, <1>2
<1>4. \A i \in 1..Len(seen) : seen[i] \in 1..arrived /\ seen[i] <= first
  BY <1>3 DEF RxInv, Presented
<1>5. ASSUME NEW i \in DOMAIN seen' PROVE seen'[i] \in 1..arrived /\ seen'[i] <= first
  BY <1>1, <1>3, <1>4
<1>6. ASSUME NEW i \in DOMAIN seen', NEW j \in DOMAIN seen', i < j
      PROVE  seen'[i] <= seen'[j] /\ (~raced' => seen'[i] < seen'[j])
  <2>1. i \in 1..Len(seen)
    BY <1>3, <1>6
  <2>2. CASE j \in 1..Len(seen)
    <3>1. seen'[i] = seen[i] /\ seen'[j] = seen[j]
      BY <1>3, <2>1, <2>2
    <3>2. seen[i] <= seen[j] /\ (~raced => seen[i] < seen[j])
      BY <1>3, <1>6, <2>1, <2>2, Zenon DEF RxInv, PresentedInOrder
    <3> QED BY <3>1, <3>2
  <2>3. CASE j = Len(seen) + 1
    <3>1. seen'[i] = seen[i] /\ seen'[j] = first
      BY <1>3, <2>1, <2>3
    <3>2. seen[i] <= first /\ (~raced => seen[i] < first)
      BY <1>3, <1>4, <2>1
    <3> QED BY <3>1, <3>2
  <2> QED BY <1>3, <1>6, <2>2, <2>3
<1> QED BY <1>3, <1>5, <1>6 DEF PresentedInOrder

\* next() on a chain whose head was not presented, and its first look at one
\* whose head was.
LEMMA ParsePacketRx ==
  ASSUME RxInv, ParsePacket
  PROVE  RxInv'
<1>1. npc = "idle" /\ old = <<>> /\ dpc = "out"
  BY DEF ParsePacket, RxInv, Places, RxTypes
<1>2. CASE NextFirst /\ dpc' = "got"
  <2> USE DEF NextFirst
  <2>1. arrived' = arrived /\ first' = first /\ Held' = Held
    BY <1>2 DEF arrived, first, Held
  <2>2. seen' = Append(seen, first) /\ raced' = raced /\ rx # <<>>
    BY <1>2, RxNumbers
  <2>3. \A i \in DOMAIN seen : ~raced => seen[i] < first
    BY <1>2, Zenon DEF RxInv, Presented
  <2>4. /\ PresentedInOrder' /\ seen' \in Seq(Nat)
        /\ \A i \in DOMAIN seen' : seen'[i] \in 1..arrived /\ seen'[i] <= first
    BY <2>2, <2>3, PresentOne
  <2>5. RxTypes' /\ Places'
    BY <1>1, <1>2, <2>4, Zenon DEF RxInv, RxTypes, Places
  <2>6. Presented'
    BY <1>1, <1>2, <2>1, <2>4 DEF Presented
  <2>7. Consecutive' /\ Refs' /\ Whole'
    BY <1>2, <2>1 DEF RxInv, Consecutive, Refs, Whole
  <2> QED BY <2>4, <2>5, <2>6, <2>7 DEF RxInv
<1>3. CASE NextLoad /\ dpc' = "parse"
  <2> USE DEF NextLoad
  <2>1. arrived' = arrived /\ first' = first /\ Held' = Held
    BY <1>3 DEF arrived, first, Held
  <2>2. Len(rx) # 1 => Len(rx) >= 2
    <3>1. rx # <<>>
      BY <1>3
    <3>2. Len(rx) \in Nat /\ Len(rx) >= 1
      BY <3>1, RxNumbers
    <3>3. \A n \in Nat : n >= 1 => n = 1 \/ n >= 2
      OBVIOUS
    <3> QED BY <3>2, <3>3, Zenon
  <2>3. RxTypes' /\ Places'
    BY <1>1, <1>3, <2>2, Zenon DEF RxInv, RxTypes, Places
  <2>4. Consecutive' /\ Whole' /\ PresentedInOrder'
    BY <1>3, <2>1 DEF RxInv, Consecutive, Whole, PresentedInOrder
  <2>5. npc' \in {"loaded", "lastLoaded"}
    BY <1>3
  <2>6. Refs' /\ Presented'
    BY <1>1, <1>3, <2>1, <2>5 DEF RxInv, Refs, Presented
  <2> QED BY <2>3, <2>4, <2>6 DEF RxInv
<1> QED BY <1>2, <1>3 DEF ParsePacket

\* _rx_buf = next: the head, and what was chained to a last one, become old.
LEMMA StoreRx ==
  ASSUME RxInv, NextStore, dpc = "parse", dpc' = dpc
  PROVE  RxInv'
<1> USE DEF NextStore
<1>1. /\ arrived \in Nat /\ Len(rx) \in Nat /\ first \in Nat /\ first = arrived - Len(rx) + 1
      /\ Len(rx) <= arrived
      /\ rx # <<>> /\ Len(rx) >= 1 /\ first <= arrived /\ rx[1] = first /\ old = <<>> /\ Len(old) = 0
      /\ rx \in Seq(Nat) /\ gram[first].len \in Nat
  <2>1. Len(rx) \in Nat /\ Len(old) \in Nat /\ Len(rx) + Len(old) <= arrived /\ arrived \in Nat
    BY RxNumbers DEF RxInv, Consecutive
  <2>2. Len(rx) <= arrived
    BY <2>1
  <2> QED BY <2>2, RxNumbers, Zenon DEF RxInv, RxTypes, Places
<1>2. arrived' = arrived /\ off' = 0
  BY DEF arrived
<1>3. \A i \in 1..Len(rx) : rx[i] = first + i - 1
  BY DEF RxInv, Consecutive
<1>4. /\ rx' \in Seq(Nat) /\ old' \in Seq(Nat) /\ Consecutive' /\ Held' = Held /\ first' > first /\ first' <= arrived + 1
      /\ (npc' = "stored" => Len(old') = 1 /\ rx' # <<>> /\ Len(rx') = Len(rx) - 1 /\ first' = first + 1)
      /\ (npc' = "lastStored" => rx' = <<>>)
  <2>1. CASE npc = "lastLoaded"
    <3>1. old' = rx /\ rx' = <<>> /\ npc' = "lastStored"
      BY <2>1
    <3>2. Len(rx') = 0 /\ first' = arrived + 1 /\ Len(old') = Len(rx)
      BY <1>1, <1>2, <3>1 DEF first
    <3>3. Held' = Held
      BY <1>1, <1>2, <3>2 DEF Held
    <3>4. Consecutive'
      <4>1. Len(rx') + Len(old') <= arrived'
        BY <1>1, <1>2, <3>2
      <4>2. ASSUME NEW i \in 1..Len(rx') PROVE rx'[i] = first' + i - 1
        BY <3>2, <4>2
      <4>3. ASSUME NEW i \in 1..Len(old') PROVE old'[i] = first' - Len(old') + i - 1
        BY <1>1, <1>3, <3>1, <3>2, <4>3
      <4> QED BY <4>1, <4>2, <4>3 DEF Consecutive
    <3> QED BY <1>1, <3>1, <3>2, <3>3, <3>4
  <2>2. CASE npc = "loaded"
    <3>1. old' = <<rx[1]>> /\ rx' = Tail(rx) /\ npc' = "stored"
      BY <2>2
    <3>2. /\ rx' \in Seq(Nat) /\ Len(rx') = Len(rx) - 1 /\ old' \in Seq(Nat) /\ Len(old') = 1 /\ old'[1] = first
          /\ \A i \in 1..Len(rx') : rx'[i] = rx[i + 1]
      BY <1>1, <3>1
    <3>3. first' = first + 1
      BY <1>1, <1>2, <3>2 DEF first
    <3>4. Held' = Held
      BY <1>1, <1>2, <3>2, <3>3 DEF Held
    <3>5. Consecutive'
      <4>1. ASSUME NEW i \in 1..Len(rx') PROVE rx'[i] = first' + i - 1
        <5>1. i \in Nat /\ i + 1 \in 1..Len(rx)
          BY <1>1, <3>2, <4>1
        <5>2. rx'[i] = rx[i + 1] /\ rx[i + 1] = first + (i + 1) - 1
          BY <1>3, <3>2, <4>1, <5>1
        <5> QED BY <1>1, <3>3, <5>1, <5>2
      <4>2. ASSUME NEW i \in 1..Len(old') PROVE old'[i] = first' - Len(old') + i - 1
        BY <1>1, <3>2, <3>3, <4>2
      <4>3. Len(rx') + Len(old') <= arrived'
        BY <1>1, <1>2, <3>2, <3>3
      <4> QED BY <4>1, <4>2, <4>3 DEF Consecutive
    <3>6. rx' # <<>>
      <4>1. Len(rx) >= 2
        BY <2>2 DEF RxInv, Places
      <4> QED BY <1>1, <3>2, <4>1
    <3> QED BY <1>1, <3>1, <3>2, <3>3, <3>4, <3>5, <3>6
  <2> QED BY <2>1, <2>2
<1>5. npc' \in {"stored", "lastStored"} /\ (npc' = "stored" => npc = "loaded")
  OBVIOUS
<1>6. /\ raced' = raced /\ taken' = taken /\ seen' = seen /\ ref' = ref /\ gram' = gram /\ ctx' = ctx
      /\ npc # "reffed" /\ npc \in {"loaded", "lastLoaded"}
  OBVIOUS
<1>7. RxTypes'
  <2>1. off' \in Nat
    BY <1>2
  <2> QED BY <1>4, <1>5, <1>6, <2>1, Zenon DEF RxInv, RxTypes
<1>8. Places'
  <2>1. taken
    BY <1>6, Zenon DEF RxInv, Places
  <2>2. CASE npc' = "stored"
    <3>1. Len(old') = 1 /\ rx' # <<>> /\ taken'
      BY <1>4, <1>6, <2>1, <2>2, Zenon
    <3> QED BY <2>2, <3>1 DEF Places
  <2>3. CASE npc' = "lastStored"
    <3>1. rx' = <<>>
      BY <1>4, <2>3
    <3> QED BY <2>3, <3>1 DEF Places
  <2> QED BY <1>5, <2>2, <2>3
<1>9. Refs'
  BY <1>2, <1>4, <1>5, <1>6 DEF RxInv, Refs
<1>10. Presented'
  <2>1. ASSUME NEW i \in DOMAIN seen PROVE seen[i] \in 1..arrived /\ seen[i] < first'
    <3>1. seen[i] \in 1..arrived /\ seen[i] <= first
      BY <2>1 DEF RxInv, Presented
    <3> QED BY <1>1, <1>2, <1>4, <3>1 DEF first
  <2>2. ASSUME NEW i \in DOMAIN seen PROVE seen[i] <= first'
    BY <1>1, <1>2, <1>4, <2>1 DEF first
  <2> QED BY <1>2, <1>6, <2>1, <2>2 DEF Presented
<1>11. Whole' /\ PresentedInOrder'
  BY <1>2, <1>6 DEF Whole, RxInv, PresentedInOrder
<1> QED BY <1>4, <1>7, <1>8, <1>9, <1>10, <1>11 DEF RxInv
\* What pbuf_free leaves: positive counts, what is not in the chain, and
\* nothing of a chain nobody else refers to.
LEMMA FreeIs ==
  ASSUME NEW chain \in Seq(Nat), \A d \in DOMAIN ref : ref[d] \in Nat \ {0},
         Range(chain) \subseteq DOMAIN ref
  PROVE  LET r == pbuf_free(chain)
         IN  /\ DOMAIN r \subseteq DOMAIN ref /\ \A d \in DOMAIN r : r[d] \in Nat \ {0}
             /\ DOMAIN ref \ Range(chain) \subseteq DOMAIN r
             /\ \A d \in DOMAIN ref \ Range(chain) : r[d] = ref[d]
             /\ (\A d \in Range(chain) : ref[d] = 1) => DOMAIN r = DOMAIN ref \ Range(chain)
<1> DEFINE gone == {chain[k] : k \in {i \in DOMAIN chain : \A j \in 1..i : ref[chain[j]] = 1}}
           kept(d) == \E k \in DOMAIN chain : /\ chain[k] = d /\ ref[d] > 1
                                              /\ \A j \in 1..k - 1 : ref[chain[j]] = 1
           r == [d \in DOMAIN ref \ gone |-> IF kept(d) THEN ref[d] - 1 ELSE ref[d]]
<1>1. pbuf_free(chain) = r
  BY DEF pbuf_free
<1>2. DOMAIN chain = 1..Len(chain) /\ Len(chain) \in Nat
  OBVIOUS
<1>3. gone \subseteq Range(chain)
  BY DEF Range
<1>4. ASSUME NEW d \in DOMAIN r PROVE r[d] \in Nat \ {0}
  <2>1. ref[d] \in Nat \ {0} /\ (kept(d) => ref[d] > 1)
    OBVIOUS
  <2>2. r[d] = IF kept(d) THEN ref[d] - 1 ELSE ref[d]
    OBVIOUS
  <2> HIDE DEF kept, r
  <2> QED BY <2>1, <2>2
<1>5. ASSUME NEW d \in DOMAIN ref \ Range(chain) PROVE r[d] = ref[d]
  <2>1. d \notin gone
    BY <1>3
  <2>2. ~kept(d)
    BY DEF Range
  <2> QED BY <2>1, <2>2
<1>6. ASSUME \A d \in Range(chain) : ref[d] = 1 PROVE gone = Range(chain)
  <2>1. ASSUME NEW k \in DOMAIN chain PROVE \A j \in 1..k : ref[chain[j]] = 1
    <3>1. \A j \in 1..k : j \in DOMAIN chain
      BY <1>2, <2>1
    <3> QED BY <1>6, <3>1 DEF Range
  <2> QED BY <2>1 DEF Range
<1> HIDE DEF gone, kept
<1>7. DOMAIN r = DOMAIN ref \ gone
  OBVIOUS
<1> HIDE DEF r
<1> QED BY <1>1, <1>3, <1>4, <1>5, <1>6, <1>7, Zenon

\* The reference to the successor.
LEMMA RefRx ==
  ASSUME RxInv, NextRef, dpc = "parse", dpc' = dpc
  PROVE  RxInv'
<1> USE DEF NextRef
<1>1. arrived' = arrived /\ first' = first /\ Held' = Held
  BY DEF arrived, first, Held
<1>2. arrived \in Nat /\ first \in Nat /\ Len(old) \in Nat /\ (rx # <<>> => rx[1] = first /\ first <= arrived)
  BY RxNumbers
<1>3. /\ (npc = "stored" /\ npc' = "reffed") \/ (npc = "lastStored" /\ npc' = "lastReffed")
      /\ raced' = raced /\ taken' = taken /\ seen' = seen /\ gram' = gram /\ ctx' = ctx
      /\ rx' = rx /\ old' = old /\ off' = off
  OBVIOUS
<1>4. RxTypes' /\ Places'
  <2>1. RxTypes'
    BY <1>3, Zenon DEF RxInv, RxTypes
  <2>2. CASE npc = "stored"
    <3>1. npc' = "reffed" /\ Len(old') = 1 /\ rx' # <<>> /\ taken'
      BY <1>3, <2>2 DEF RxInv, Places
    <3> QED BY <2>1, <3>1 DEF Places
  <2>3. CASE npc = "lastStored"
    <3>1. npc' = "lastReffed" /\ (~raced' => rx' = <<>>)
      BY <1>3, <2>3 DEF RxInv, Places
    <3> QED BY <2>1, <3>1 DEF Places
  <2> QED BY <1>3, <2>1, <2>2, <2>3
<1>5. Consecutive' /\ Whole' /\ PresentedInOrder'
  BY <1>1, <1>3 DEF RxInv, Consecutive, Whole, PresentedInOrder
<1>6. Presented'
  <2>1. npc \notin {"stored", "reffed"} => npc' \notin {"stored", "reffed"}
    BY <1>3
  <2> QED BY <1>1, <1>3, <2>1 DEF RxInv, Presented
<1>7. Refs'
  <2>1. CASE rx = <<>>
    <3>1. ref' = ref
      BY <2>1
    <3>2. npc' # "reffed" /\ npc # "reffed"
      BY <1>3, <2>1 DEF RxInv, Places
    <3> QED BY <1>1, <1>3, <3>1, <3>2 DEF RxInv, Refs
  <2>2. CASE rx # <<>>
    <3>1. ref' = [ref EXCEPT ![first] = @ + 1]
      BY <1>2, <2>2 DEF pbuf_ref
    <3>2. first \in Held /\ first \in DOMAIN ref
      BY <1>2, <2>2 DEF Held, RxInv, Refs
    <3>3. DOMAIN ref' = DOMAIN ref /\ ref'[first] = ref[first] + 1 /\ \A d \in DOMAIN ref : d # first => ref'[d] = ref[d]
      BY <3>1, <3>2
    <3>4. ref[first] \in Nat \ {0} /\ npc # "reffed"
      BY <1>3, <3>2 DEF RxInv, Refs
    <3>5. \A d \in DOMAIN ref : ref'[d] \in Nat \ {0}
      BY <3>3, <3>4 DEF RxInv, Refs
    <3>6. ASSUME ~raced PROVE \A d \in Held : ref'[d] = IF npc' = "reffed" /\ d = first THEN 2 ELSE 1
      <4>1. npc' = "reffed"
        BY <1>3, <2>2, <3>6 DEF RxInv, Places
      <4>2. DOMAIN ref = Held /\ \A d \in Held : ref[d] = 1
        BY <3>4, <3>6, Zenon DEF RxInv, Refs
      <4> QED BY <3>2, <3>3, <4>1, <4>2
    <3> QED BY <1>1, <1>3, <3>3, <3>4, <3>5, <3>6 DEF RxInv, Refs
  <2> QED BY <2>1, <2>2
<1> QED BY <1>4, <1>5, <1>6, <1>7 DEF RxInv

\* pbuf_free of a head with a successor: the reference stops it there.
LEMMA FreeHeadRefs ==
  ASSUME RxInv, npc = "reffed"
  PROVE  LET r == pbuf_free(old \o rx)
         IN  /\ DOMAIN r \subseteq DOMAIN ref /\ \A d \in DOMAIN r : r[d] \in Nat \ {0}
             /\ first..arrived \subseteq DOMAIN r
             /\ ~raced => DOMAIN r = first..arrived /\ \A d \in first..arrived : r[d] = 1
<1> DEFINE chain == old \o rx
           r == pbuf_free(chain)
<1>1. /\ arrived \in Nat /\ first \in Nat /\ Len(old) = 1 /\ Len(rx) \in Nat /\ Len(rx) >= 1
      /\ first = arrived - Len(rx) + 1 /\ first >= 2 /\ first <= arrived /\ rx[1] = first
  <2>1. Len(old) = 1 /\ rx # <<>>
    BY DEF RxInv, Places
  <2> QED BY <2>1, RxNumbers
<1>2. old[1] = first - 1
  BY <1>1 DEF RxInv, Consecutive
<1>3. /\ chain \in Seq(Nat) /\ Len(chain) = 1 + Len(rx) /\ chain[1] = first - 1 /\ chain[2] = first
      /\ \A k \in 1..Len(chain) : chain[k] = first + k - 2
  <2>1. old \in Seq(Nat) /\ rx \in Seq(Nat)
    BY DEF RxInv, RxTypes
  <2>2. chain \in Seq(Nat) /\ Len(chain) = 1 + Len(rx) /\ chain[1] = old[1]
    <3>1. /\ chain \in Seq(Nat) /\ Len(chain) = Len(old) + Len(rx)
          /\ \A i \in 1..Len(old) + Len(rx) : chain[i] = IF i <= Len(old) THEN old[i] ELSE rx[i - Len(old)]
      BY <2>1, ConcatProperties
    <3>2. 1 \in 1..Len(old) + Len(rx) /\ 1 <= Len(old)
      BY <1>1
    <3> HIDE DEF chain
    <3> QED BY <1>1, <3>1, <3>2
  <2>3. ASSUME NEW k \in 2..Len(chain) PROVE chain[k] = rx[k - 1] /\ rx[k - 1] = first + (k - 1) - 1
    <3>1. k - 1 \in 1..Len(rx)
      BY <1>1, <2>2, <2>3
    <3>2. rx[k - 1] = first + (k - 1) - 1
      BY <3>1 DEF RxInv, Consecutive
    <3>3. k \in 1..Len(old) + Len(rx) /\ ~(k <= Len(old)) /\ k - Len(old) = k - 1
      BY <1>1, <2>2, <2>3
    <3>4. chain[k] = rx[k - 1]
      BY <2>1, <3>3, ConcatProperties
    <3> QED BY <3>2, <3>4
  <2>4. ASSUME NEW k \in 1..Len(chain) PROVE chain[k] = first + k - 2
    <3>1. CASE k = 1
      BY <1>1, <1>2, <2>2, <3>1
    <3>2. CASE k \in 2..Len(chain)
      BY <1>1, <2>3, <3>2
    <3> QED BY <1>1, <2>2, <3>1, <3>2
  <2>5. 2 \in 1..Len(chain)
    BY <1>1, <2>2
  <2>6. chain[2] = first
    BY <1>1, <2>4, <2>5
  <2> HIDE DEF chain
  <2> QED BY <1>2, <2>2, <2>4, <2>6
<1> HIDE DEF chain
<1>4. ref[first] \in Nat /\ ref[first] >= 2 /\ first - 1 \in DOMAIN ref /\ first \in DOMAIN ref /\ ref[first - 1] \in Nat \ {0}
  <2>1. first - 1 \in Held /\ first \in Held
    BY <1>1 DEF Held
  <2> QED BY <2>1 DEF RxInv, Refs
<1> DEFINE gone == {chain[k] : k \in {i \in DOMAIN chain : \A j \in 1..i : ref[chain[j]] = 1}}
           kept(d) == \E k \in DOMAIN chain : /\ chain[k] = d /\ ref[d] > 1
                                              /\ \A j \in 1..k - 1 : ref[chain[j]] = 1
<1>5. r = [d \in DOMAIN ref \ gone |-> IF kept(d) THEN ref[d] - 1 ELSE ref[d]]
  BY DEF pbuf_free
<1>6. DOMAIN chain = 1..Len(chain)
  BY <1>3
<1>7. ASSUME NEW k \in DOMAIN chain, \A j \in 1..k : ref[chain[j]] = 1 PROVE k = 1
  <2>1. CASE k >= 2
    <3>1. 2 \in 1..k
      BY <1>1, <1>3, <1>6, <1>7, <2>1
    <3> QED BY <1>3, <1>4, <1>7, <3>1
  <2> QED BY <1>1, <1>3, <1>6, <1>7, <2>1
<1>8. gone = IF ref[first - 1] = 1 THEN {first - 1} ELSE {}
  <2>1. 1 \in DOMAIN chain /\ \A j \in 1..1 : j = 1
    BY <1>1, <1>3, <1>6
  <2>2. CASE ref[first - 1] = 1
    <3>1. \A j \in 1..1 : ref[chain[j]] = 1
      BY <1>3, <2>1, <2>2
    <3>2. first - 1 \in gone
      BY <1>3, <2>1, <3>1
    <3>3. \A d \in gone : d = first - 1
      BY <1>3, <1>7
    <3> HIDE DEF gone
    <3> QED BY <2>2, <3>2, <3>3
  <2>3. CASE ref[first - 1] # 1
    <3>1. ~ \A j \in 1..1 : ref[chain[j]] = 1
      BY <1>3, <2>1, <2>3
    <3>2. \A k \in DOMAIN chain : ~ \A j \in 1..k : ref[chain[j]] = 1
      BY <1>7, <3>1
    <3> QED BY <2>3, <3>2, Zenon
  <2> QED BY <2>2, <2>3
<1>9. \A d \in DOMAIN ref : kept(d) => ref[d] > 1
  OBVIOUS
<1>10. ref[first - 1] = 1 => kept(first)
  <2>1. 2 \in DOMAIN chain /\ chain[2] = first /\ \A j \in 1..2 - 1 : j = 1
    BY <1>1, <1>3, <1>6
  <2>2. ref[first] > 1
    BY <1>4
  <2> QED BY <1>3, <2>1, <2>2
<1> HIDE DEF gone, kept, r
<1>11. \A d \in DOMAIN ref \ gone : ref[d] \in Nat \ {0}
  BY DEF RxInv, Refs
<1>12. DOMAIN r \subseteq DOMAIN ref /\ \A d \in DOMAIN r : r[d] \in Nat \ {0}
  BY <1>5, <1>9, <1>11
<1>13. first..arrived \subseteq DOMAIN r
  <2>1. first..arrived \subseteq DOMAIN ref
    BY <1>1 DEF RxInv, Refs, Held
  <2> QED BY <1>1, <1>5, <1>8, <2>1
<1>14. ASSUME ~raced PROVE DOMAIN r = first..arrived /\ \A d \in first..arrived : r[d] = 1
  <2>1. DOMAIN ref = Held /\ \A d \in Held : ref[d] = IF d = first THEN 2 ELSE 1
    BY <1>14, Zenon DEF RxInv, Refs
  <2>2. Held = (first - 1)..arrived
    BY <1>1 DEF Held
  <2>3. ref[first - 1] = 1 /\ ref[first] = 2
    BY <1>1, <2>1, <2>2
  <2>4. DOMAIN r = first..arrived
    BY <1>1, <1>5, <1>8, <2>1, <2>2, <2>3
  <2>5. ASSUME NEW d \in first..arrived PROVE r[d] = 1
    <3>1. d \in DOMAIN ref \ gone /\ (d # first => ref[d] = 1)
      BY <1>1, <1>8, <2>1, <2>2, <2>5
    <3>2. r[d] = IF kept(d) THEN ref[d] - 1 ELSE ref[d]
      BY <1>5, <3>1
    <3>3. CASE d = first
      BY <1>10, <2>3, <3>2, <3>3
    <3>4. CASE d # first
      BY <1>9, <3>1, <3>2, <3>4
    <3> QED BY <3>3, <3>4
  <2> QED BY <2>4, <2>5
<1> QED BY <1>12, <1>13, <1>14 DEF chain, r
\* pbuf_free of a last head, with what was chained to it since: none of that
\* can be reached from the chain.
LEMMA FreeLastRefs ==
  ASSUME RxInv, npc = "lastReffed"
  PROVE  LET r == pbuf_free(old)
         IN  /\ DOMAIN r \subseteq DOMAIN ref /\ \A d \in DOMAIN r : r[d] \in Nat \ {0}
             /\ first..arrived \subseteq DOMAIN r
             /\ ~raced => DOMAIN r = {}
<1> DEFINE r == pbuf_free(old)
<1>1. arrived \in Nat /\ first \in Nat /\ Len(old) \in Nat /\ old \in Seq(Nat)
  BY RxNumbers DEF RxInv, RxTypes
<1>2. DOMAIN old = 1..Len(old)
  BY <1>1
<1>3. ASSUME NEW d \in Range(old) PROVE d < first
  <2>1. PICK i \in 1..Len(old) : d = old[i]
    BY <1>2 DEF Range
  <2>2. old[i] = first - Len(old) + i - 1
    BY DEF RxInv, Consecutive
  <2> QED BY <1>1, <2>1, <2>2
<1>4. Range(old) \subseteq DOMAIN ref /\ \A d \in DOMAIN ref : ref[d] \in Nat \ {0}
  BY HeldIs DEF RxInv, Refs
<1>5. /\ DOMAIN r \subseteq DOMAIN ref /\ \A d \in DOMAIN r : r[d] \in Nat \ {0}
      /\ DOMAIN ref \ Range(old) \subseteq DOMAIN r
      /\ (\A d \in Range(old) : ref[d] = 1) => DOMAIN r = DOMAIN ref \ Range(old)
  BY <1>1, <1>4, FreeIs
<1> HIDE DEF r
<1>6. first..arrived \subseteq DOMAIN r
  <2>1. ASSUME NEW d \in first..arrived PROVE d \in DOMAIN ref \ Range(old)
    <3>1. d \in Held
      BY <1>1 DEF Held
    <3>2. d \notin Range(old)
      BY <1>1, <1>3
    <3> QED BY <3>1, <3>2 DEF RxInv, Refs
  <2> QED BY <1>5, <2>1
<1>7. ASSUME ~raced PROVE DOMAIN r = {}
  <2>1. rx = <<>>
    BY <1>7 DEF RxInv, Places
  <2>2. Range(rx) = {}
    BY <2>1 DEF Range
  <2>3. DOMAIN ref = Range(old) /\ \A d \in Range(old) : ref[d] = 1
    BY <1>7, <2>2, HeldIs DEF RxInv, Refs
  <2> QED BY <1>5, <2>3
<1> QED BY <1>5, <1>6, <1>7 DEF r

\* The head is freed and the successor presented.
LEMMA FreeRx ==
  ASSUME RxInv, NextFree, dpc = "parse", dpc' = IF rx = <<>> THEN "out" ELSE "got"
  PROVE  RxInv'
<1> USE DEF NextFree
<1>1. /\ npc \in {"lastReffed", "reffed"} /\ npc' = "idle" /\ old' = <<>>
      /\ ctx' = ctx /\ rx' = rx /\ off' = off /\ taken' = taken /\ gram' = gram /\ raced' = raced
  OBVIOUS
<1>2. /\ arrived \in Nat /\ first \in Nat /\ Len(rx) \in Nat /\ Len(old) \in Nat /\ first = arrived - Len(rx) + 1
      /\ Len(old) < first /\ (rx = <<>> => first = arrived + 1) /\ (rx # <<>> => rx[1] = first)
  BY RxNumbers
<1>3. arrived' = arrived /\ first' = first /\ Len(old') = 0 /\ Held' = first..arrived
  <2>1. arrived' = arrived /\ first' = first /\ Len(old') = 0
    BY <1>1 DEF arrived, first
  <2> QED BY <1>2, <2>1 DEF Held
<1>4. /\ seen' \in Seq(Nat) /\ PresentedInOrder'
      /\ \A i \in DOMAIN seen' : seen'[i] \in 1..arrived /\ seen'[i] <= first
  <2>1. CASE rx = <<>>
    <3>1. seen' = seen
      BY <2>1
    <3> QED BY <1>1, <3>1 DEF RxInv, RxTypes, Presented, PresentedInOrder
  <2>2. CASE rx # <<>>
    <3>1. seen' = Append(seen, first)
      BY <1>2, <2>2
    <3>2. ASSUME NEW i \in DOMAIN seen, ~raced PROVE seen[i] < first
      <4>1. npc = "reffed"
        BY <1>1, <2>2, <3>2 DEF RxInv, Places
      <4> QED BY <3>2, <4>1 DEF RxInv, Presented
    <3> QED BY <1>1, <2>2, <3>1, <3>2, PresentOne
  <2> QED BY <2>1, <2>2
<1>5. RxTypes'
  <2>1. old' \in Seq(Nat)
    BY <1>1
  <2> QED BY <1>1, <1>4, <2>1, Zenon DEF RxInv, RxTypes
<1>6. Places'
  <2>1. dpc' # "parse" /\ (dpc' \in {"got", "begin", "write"} => rx' # <<>>)
    BY <1>1
  <2> QED BY <1>1, <2>1 DEF Places
<1>7. Consecutive'
  <2>1. Len(rx) <= arrived
    BY <1>2
  <2>2. \A i \in 1..Len(rx') : rx'[i] = first' + i - 1
    BY <1>1, <1>3 DEF RxInv, Consecutive
  <2>3. \A i \in 1..Len(old') : old'[i] = first' - Len(old') + i - 1
    BY <1>3
  <2>4. Len(rx') + Len(old') <= arrived'
    BY <1>1, <1>2, <1>3, <2>1
  <2> QED BY <2>2, <2>3, <2>4 DEF Consecutive
<1>8. Refs'
  <2>1. /\ DOMAIN ref' \subseteq DOMAIN ref /\ \A d \in DOMAIN ref' : ref'[d] \in Nat \ {0}
        /\ first..arrived \subseteq DOMAIN ref'
        /\ ~raced => DOMAIN ref' = first..arrived /\ \A d \in first..arrived : ref'[d] = 1
    <3>1. CASE npc = "reffed"
      <4>1. ref' = pbuf_free(old \o rx)
        BY <3>1
      <4> QED BY <3>1, <4>1, FreeHeadRefs
    <3>2. CASE npc = "lastReffed"
      <4>1. ref' = pbuf_free(old)
        BY <3>2
      <4>2. ~raced => first..arrived = {}
        <5>1. ~raced => rx = <<>>
          BY <3>2 DEF RxInv, Places
        <5> QED BY <1>2, <5>1
      <4> QED BY <3>2, <4>1, <4>2, FreeLastRefs
    <3> QED BY <1>1, <3>1, <3>2
  <2>2. DOMAIN ref \subseteq 1..arrived
    BY DEF RxInv, Refs
  <2> QED BY <1>1, <1>3, <2>1, <2>2 DEF Refs
<1>9. Presented'
  <2>1. ASSUME ~raced', ~taken', NEW i \in DOMAIN seen' PROVE seen'[i] < first
    <3>1. npc # "reffed"
      BY <1>1, <2>1 DEF RxInv, Places
    <3>2. rx = <<>>
      BY <1>1, <2>1, <3>1 DEF RxInv, Places
    <3> QED BY <1>2, <1>4, <2>1, <3>2
  <2> QED BY <1>1, <1>3, <1>4, <2>1 DEF Presented
<1>10. Whole'
  BY <1>1, <1>3 DEF RxInv, Whole
<1> QED BY <1>4, <1>5, <1>6, <1>7, <1>8, <1>9, <1>10 DEF RxInv

\* read() takes what is left of the datagram.
LEMMA ReadRx ==
  ASSUME RxInv, ReadRequest
  PROVE  RxInv' /\ off' = gram[first].len /\ off' # 0 /\ off = 0 /\ rx # <<>> /\ Size = gram[first].len
<1>1. /\ dpc = "got" /\ Size # 0 /\ off' = off + Size /\ dpc' \in {"out", "begin"}
      /\ UNCHANGED <<ctx, rx, taken, ref, npc, old, gram, seen, raced>>
  BY DEF ReadRequest, ReadBytes
<1>2. rx # <<>>
  BY <1>1 DEF RxInv, Places
<1>3. rx[1] = first /\ gram[first].len \in Nat /\ off \in Nat /\ off \in {0, gram[first].len}
  BY <1>2, RxNumbers DEF RxInv, RxTypes, Whole
<1>4. off' = gram[first].len /\ off' # 0 /\ off = 0 /\ Size = gram[first].len
  BY <1>1, <1>2, <1>3 DEF Size
<1>5. arrived' = arrived /\ first' = first /\ Held' = Held
  BY <1>1 DEF arrived, first, Held
<1>6. off' \in Nat
  BY <1>3, <1>4
<1>7. RxTypes' /\ Places'
  <2>1. npc = "idle"
    BY <1>1 DEF RxInv, Places
  <2> QED BY <1>1, <1>2, <1>6, <2>1, Zenon DEF RxInv, RxTypes, Places
<1>8. Consecutive' /\ Refs' /\ Presented' /\ PresentedInOrder'
  BY <1>1, <1>5 DEF RxInv, Consecutive, Refs, Presented, PresentedInOrder
<1>9. Whole'
  BY <1>1, <1>4, <1>5 DEF Whole
<1> QED BY <1>2, <1>4, <1>7, <1>8, <1>9 DEF RxInv

\* ~UdpContext, and a new context or none.
LEMMA DeleteRx ==
  ASSUME RxInv, dpc = "out", dpc' = dpc, Delete, Fresh, ctx' \in {"none", "open", "bound"},
         UNCHANGED <<npc, old, gram, seen, raced>>
  PROVE  RxInv'
<1>1. npc = "idle" /\ old = <<>> /\ rx' = <<>> /\ off' = 0 /\ taken' = FALSE
  BY DEF RxInv, Places, RxTypes, Fresh
<1>2. arrived \in Nat /\ first \in Nat /\ Len(rx) \in Nat /\ first <= arrived + 1 /\ first = arrived - Len(rx) + 1
  BY RxNumbers
<1>3. arrived' = arrived /\ Len(rx') = 0 /\ Len(old') = 0 /\ first' = arrived + 1 /\ Held' = {}
  <2>1. arrived' = arrived /\ Len(rx') = 0 /\ Len(old') = 0
    BY <1>1 DEF arrived
  <2>2. first' = arrived + 1
    BY <1>2, <2>1 DEF first
  <2> QED BY <1>2, <2>1, <2>2 DEF Held
<1>4. RxTypes'
  <2>1. rx' \in Seq(Nat) /\ off' \in Nat
    BY <1>1
  <2> QED BY <1>1, <2>1, Zenon DEF RxInv, RxTypes
<1>5. Places' /\ Whole'
  BY <1>1 DEF Places, Whole
<1>6. Consecutive'
  BY <1>2, <1>3 DEF Consecutive
<1>7. Refs'
  <2>1. Range(rx) \subseteq DOMAIN ref /\ \A d \in DOMAIN ref : ref[d] \in Nat \ {0}
    BY HeldIs DEF RxInv, Refs
  <2>2. rx \in Seq(Nat) /\ Range(old) = {}
    BY <1>1 DEF RxInv, RxTypes, Range
  <2>3. CASE rx = <<>>
    <3>1. ref' = ref /\ Range(rx) = {}
      BY <2>3 DEF Delete, Range
    <3>2. ~raced => DOMAIN ref = {}
      BY <2>2, <3>1, HeldIs DEF RxInv, Refs
    <3> QED BY <1>1, <1>3, <3>1, <3>2 DEF RxInv, Refs
  <2>4. CASE rx # <<>>
    <3>1. ref' = pbuf_free(rx)
      BY <2>4 DEF Delete
    <3>2. /\ DOMAIN ref' \subseteq DOMAIN ref /\ \A d \in DOMAIN ref' : ref'[d] \in Nat \ {0}
          /\ (\A d \in Range(rx) : ref[d] = 1) => DOMAIN ref' = DOMAIN ref \ Range(rx)
      BY <2>1, <2>2, <3>1, FreeIs
    <3>3. ~raced => DOMAIN ref = Range(rx) /\ \A d \in Range(rx) : ref[d] = 1
      BY <1>1, <2>2, HeldIs DEF RxInv, Refs
    <3>4. ~raced => DOMAIN ref' = {}
      BY <3>2, <3>3
    <3> QED BY <1>1, <1>3, <3>2, <3>4 DEF RxInv, Refs
  <2> QED BY <2>3, <2>4
<1>8. Presented'
  <2>1. ASSUME NEW i \in DOMAIN seen PROVE seen[i] \in 1..arrived /\ seen[i] < arrived + 1 /\ seen[i] <= arrived + 1
    BY <1>2 DEF RxInv, Presented
  <2> QED BY <1>3, <2>1 DEF Presented
<1>9. PresentedInOrder'
  BY DEF RxInv, PresentedInOrder
<1> QED BY <1>4, <1>5, <1>6, <1>7, <1>8, <1>9 DEF RxInv

\* A restart forgets the chain.
LEMMA CrashRx ==
  ASSUME RxInv, Crash
  PROVE  RxInv'
<1>1. /\ ctx' = "none" /\ npc' = "idle" /\ old' = <<>> /\ rx' = <<>> /\ off' = 0 /\ taken' = FALSE
      /\ DOMAIN ref' = {} /\ dpc' = "out" /\ UNCHANGED <<gram, seen, raced>>
  BY DEF Crash, Restart, Fresh
<1>2. arrived \in Nat /\ first <= arrived + 1 /\ first \in Nat
  BY RxNumbers
<1>3. arrived' = arrived /\ Len(rx') = 0 /\ Len(old') = 0 /\ first' = arrived + 1 /\ Held' = {}
  <2>1. arrived' = arrived /\ Len(rx') = 0 /\ Len(old') = 0
    BY <1>1 DEF arrived
  <2>2. first' = arrived + 1
    BY <1>2, <2>1 DEF first
  <2> QED BY <1>2, <2>1, <2>2 DEF Held
<1>4. RxTypes'
  <2>1. rx' \in Seq(Nat) /\ old' \in Seq(Nat) /\ off' \in Nat
    BY <1>1
  <2> QED BY <1>1, <2>1, Zenon DEF RxInv, RxTypes
<1>5. Places' /\ Whole'
  BY <1>1 DEF Places, Whole
<1>6. Consecutive' /\ Refs'
  BY <1>1, <1>2, <1>3 DEF Consecutive, Refs
<1>7. Presented'
  <2>1. ASSUME NEW i \in DOMAIN seen PROVE seen[i] \in 1..arrived /\ seen[i] < arrived + 1 /\ seen[i] <= arrived + 1
    BY <1>2 DEF RxInv, Presented
  <2> QED BY <1>1, <1>3, <2>1 DEF Presented
<1>8. PresentedInOrder'
  BY <1>1 DEF RxInv, PresentedInOrder
<1> QED BY <1>4, <1>5, <1>6, <1>7, <1>8 DEF RxInv

LEMMA RxStep ==
  ASSUME RxInv, Next
  PROVE  RxInv'
<1>1. CASE Start \/ Stop
  BY <1>1, DeleteRx DEF Start, Stop, BeginUdp, StopUdp
<1>2. CASE Arrive
  BY <1>2, ArriveRx
<1>3. CASE ParsePacket
  BY <1>3, ParsePacketRx
<1>4. CASE ParseStep
  BY <1>4, StoreRx, RefRx, FreeRx DEF ParseStep
<1>5. CASE ReadRequest
  BY <1>5, ReadRx
<1>6. CASE GiveUp
  BY <1>6, RxUntouched DEF GiveUp, RxInv, RxTypes, Places, udpvars, rxvars
<1>7. CASE BeginReply
  BY <1>7, RxUntouched DEF BeginReply, BeginPacket, RxInv, RxTypes, Places
<1>8. CASE WriteReply
  BY <1>8, RxUntouched DEF WriteReply, AppendStep, Write, RxInv, RxTypes, Places
<1>9. CASE EndReply
  BY <1>9, RxUntouched DEF EndReply, EndPacket, RxInv, RxTypes, Places
<1>10. CASE Crash
  BY <1>10, CrashRx
<1> QED BY <1>1, <1>2, <1>3, <1>4, <1>5, <1>6, <1>7, <1>8, <1>9, <1>10 DEF Next, ProcessNextRequest
-------------------------------------------------------------------------------
(* The transmit chain: bytes written are copied in order and none is lost.  *)

LEMMA Times ==
  ASSUME NEW a \in Int, NEW b \in Int
  PROVE  /\ a * Unit \in Int /\ (a <= b => a * Unit <= b * Unit) /\ (a < b => a * Unit + Unit <= b * Unit)
         /\ (a + 1) * Unit = a * Unit + Unit
<1>1. Unit \in Nat /\ Unit > 0
  BY UdpAssumption
<1>2. a * Unit \in Int /\ (a + 1) * Unit = a * Unit + Unit
  BY <1>1
<1>3. \A c \in Int : c <= b => c * Unit <= b * Unit
  BY <1>1
<1> QED BY <1>2, <1>3

\* _reserve makes room.
LEMMA GrownIs ==
  ASSUME NEW n \in Nat, NEW size \in Nat
  PROVE  Grown(n, size) \in Nat /\ size <= (n + Grown(n, size)) * Unit
<1> DEFINE a == size - n * Unit
           g == (a + Unit - 1) \div Unit
<1>1. Unit \in Nat \ {0} /\ n * Unit \in Nat
  BY UdpAssumption
<1>2. CASE size < n * Unit
  BY <1>1, <1>2 DEF Grown
<1>3. CASE ~(size < n * Unit)
  <2>1. a \in Nat /\ a + Unit - 1 \in Nat
    BY <1>1, <1>3
  <2>2. g \in Nat /\ a + Unit - 1 = Unit * g + ((a + Unit - 1) % Unit) /\ (a + Unit - 1) % Unit <= Unit - 1
    <3> HIDE DEF a
    <3> QED BY <1>1, <2>1
  <2>3. (a + Unit - 1) % Unit \in Int
    BY <1>1, <2>1
  <2>4. Grown(n, size) = g
    BY <1>1, <1>3 DEF Grown
  <2>5. Unit * g \in Int /\ a <= Unit * g
    <3> HIDE DEF a, g
    <3> QED BY <1>1, <2>1, <2>2, <2>3
  <2>6. (n + g) * Unit = n * Unit + Unit * g
    <3> HIDE DEF g
    <3> QED BY <1>1, <2>2
  <2>7. size = a + n * Unit
    BY <1>1
  <2> HIDE DEF a, g
  <2> QED BY <1>1, <2>1, <2>2, <2>4, <2>5, <2>6, <2>7
<1> QED BY <1>2, <1>3

LEMMA TxUntouched ==
  ASSUME TxInv, UNCHANGED <<txbuf, cur, txoff, left, written, sent>>,
         dpc' # "write" => txbuf = <<>>
  PROVE  TxInv'
<1>1. TxTypes'
  BY DEF TxInv, TxTypes
<1>2. TxPlace' /\ TxContents'
  BY DEF TxInv, TxPlace, TxContents
<1> QED BY <1>1, <1>2 DEF TxInv, SentIsWritten

\* A context without a chain.
LEMMA TxEmpty ==
  ASSUME txbuf = <<>>, cur = 0, txoff = 0, left = <<>>, written = <<>>,
         sent \in Seq([to : {remoteIP(d) : d \in Datagrams}, data : Seq(Bytes), asked : Seq(Bytes)]), SentIsWritten
  PROVE  TxInv
<1>1. Len(txbuf) = 0 /\ Len(left) = 0 /\ Len(written) = 0 /\ Unit \in Nat
  BY UdpAssumption
<1>2. TxTypes
  BY DEF TxTypes
<1>3. TxPlace /\ TxContents
  BY <1>1 DEF TxPlace, TxContents
<1> QED BY <1>2, <1>3 DEF TxInv

\* append() up to its loop.
LEMMA WriteTx ==
  ASSUME TxInv, NEW data \in Seq(Bytes), left = <<>>, Write(data), dpc' = "write"
  PROVE  TxInv'
<1> DEFINE G(n) == [i \in 1..n |-> NewPbuf]
           chain == IF txbuf = <<>> THEN <<NewPbuf>> ELSE txbuf
           size == txoff + Len(data)
<1>1. /\ txbuf \in Seq([1..Unit -> Bytes]) /\ written \in Seq(Bytes) /\ txoff \in Nat /\ cur \in Nat
      /\ Len(written) = txoff /\ Len(txbuf) \in Nat /\ Len(data) \in Nat /\ txoff <= Len(txbuf) * Unit /\ Unit \in Nat \ {0}
      /\ (txbuf = <<>> => cur = 0 /\ txoff = 0 /\ Len(txbuf) = 0)
      /\ (txbuf # <<>> => Len(txbuf) >= 1)
  <2>1. Len(left) = 0
    OBVIOUS
  <2>2. /\ txbuf \in Seq([1..Unit -> Bytes]) /\ written \in Seq(Bytes) /\ txoff \in Nat /\ cur \in Nat
        /\ Len(txbuf) \in Nat /\ Len(data) \in Nat /\ Unit \in Nat \ {0}
    BY UdpAssumption DEF TxInv, TxTypes
  <2>3. Len(written) = txoff
    BY <2>1, <2>2 DEF TxInv, TxContents
  <2>4. txoff <= Len(txbuf) * Unit
    BY <2>1, <2>2 DEF TxInv, TxPlace
  <2> QED BY <2>2, <2>3, <2>4, EmptySeq DEF TxInv, TxPlace
<1>2. left' = data /\ written' = written \o data /\ sent' = sent
  BY DEF Write
<1>3. /\ written' \in Seq(Bytes) /\ Len(written') = txoff + Len(data)
      /\ \A p \in 1..txoff : written'[p] = written[p]
      /\ \A q \in 1..Len(data) : written'[txoff + q] = data[q]
  <2>1. /\ written' \in Seq(Bytes) /\ Len(written') = Len(written) + Len(data)
        /\ \A p \in 1..Len(written) + Len(data) :
             written'[p] = IF p <= Len(written) THEN written[p] ELSE data[p - Len(written)]
    BY <1>1, <1>2, ConcatProperties
  <2>2. ASSUME NEW p \in 1..txoff PROVE written'[p] = written[p]
    BY <1>1, <2>1, <2>2
  <2>3. ASSUME NEW q \in 1..Len(data) PROVE written'[txoff + q] = data[q]
    <3> DEFINE p == txoff + q
    <3>1. p = txoff + q /\ q \in Nat /\ q >= 1 /\ q <= Len(data)
      BY <1>1, <2>3
    <3> HIDE DEF p
    <3>2. p \in 1..Len(written) + Len(data) /\ ~(p <= Len(written)) /\ p - Len(written) = q
      BY <1>1, <3>1
    <3> HIDE DEF p
    <3>3. written'[p] = data[q]
      BY <2>1, <3>2
    <3> QED BY <3>3 DEF p
  <2> QED BY <1>1, <2>1, <2>2, <2>3
<1>4. chain \in Seq([1..Unit -> Bytes]) /\ Len(chain) \in Nat /\ Len(chain) >= 1 /\ Len(chain) >= Len(txbuf)
      /\ \A k \in 1..Len(txbuf) : chain[k] = txbuf[k]
  <2>1. NewPbuf \in [1..Unit -> Bytes]
    BY DEF NewPbuf, Bytes
  <2>2. CASE txbuf = <<>>
    <3>1. chain = <<NewPbuf>> /\ Len(txbuf) = 0
      BY <1>1, <2>2
    <3>2. chain \in Seq([1..Unit -> Bytes]) /\ Len(chain) = 1
      BY <2>1, <3>1
    <3> HIDE DEF chain
    <3> QED BY <3>1, <3>2
  <2>3. CASE txbuf # <<>>
    BY <1>1, <2>3
  <2> QED BY <2>2, <2>3
<1> HIDE DEF chain
<1>5. /\ txbuf' \in Seq([1..Unit -> Bytes]) /\ Len(txbuf') >= Len(chain) /\ Len(txbuf') \in Nat
      /\ \A k \in 1..Len(chain) : txbuf'[k] = chain[k]
      /\ size <= Len(txbuf') * Unit
      /\ txoff' = txoff /\ cur' = IF txbuf = <<>> THEN 1 ELSE cur
  <2>1. CASE txbuf = <<>> \/ Len(txbuf) * Unit < size
    <3> DEFINE g == Grown(Len(chain), size)
    <3>1. txbuf' = chain \o G(g)
      BY <2>1 DEF Write, chain
    <3>2. g \in Nat /\ size <= (Len(chain) + g) * Unit
      <4>1. size \in Nat
        BY <1>1
      <4> HIDE DEF size
      <4> QED BY <1>4, <4>1, GrownIs
    <3> HIDE DEF g
    <3>3. G(g) \in Seq([1..Unit -> Bytes]) /\ Len(G(g)) = g
      BY <3>2 DEF NewPbuf, Bytes
    <3> DEFINE more == G(g)
    <3>4. /\ txbuf' \in Seq([1..Unit -> Bytes]) /\ Len(txbuf') = Len(chain) + g
          /\ \A k \in 1..Len(chain) + g : txbuf'[k] = IF k <= Len(chain) THEN chain[k] ELSE more[k - Len(chain)]
      <4>1. more \in Seq([1..Unit -> Bytes]) /\ Len(more) = g /\ txbuf' = chain \o more
        BY <3>1, <3>3
      <4> HIDE DEF more, G, size
      <4>2. chain \in Seq([1..Unit -> Bytes]) /\ Len(chain) \in Nat
        BY <1>4
      <4>3. /\ chain \o more \in Seq([1..Unit -> Bytes]) /\ Len(chain \o more) = Len(chain) + Len(more)
            /\ \A k \in 1..Len(chain) + Len(more) : (chain \o more)[k] = IF k <= Len(chain) THEN chain[k] ELSE more[k - Len(chain)]
        BY <4>1, <4>2, ConcatProperties
      <4> QED BY <4>1, <4>3
    <3> HIDE DEF more, G
    <3>5. \A k \in 1..Len(chain) : txbuf'[k] = chain[k]
      BY <1>4, <3>2, <3>4
    <3>6. txoff' = txoff /\ cur' = IF txbuf = <<>> THEN 1 ELSE cur
      BY <1>1, <2>1 DEF Write
    <3> QED BY <1>4, <3>2, <3>4, <3>5, <3>6
  <2>2. CASE ~(txbuf = <<>> \/ Len(txbuf) * Unit < size)
    <3>1. txbuf' = txbuf /\ cur' = cur /\ txoff' = txoff /\ chain = txbuf
      BY <2>2 DEF Write, chain
    <3>2. size <= Len(txbuf) * Unit
      BY <1>1, <2>2
    <3> QED BY <1>1, <2>2, <3>1, <3>2
  <2> QED BY <2>1, <2>2
<1>6. TxTypes'
  BY <1>1, <1>2, <1>3, <1>5 DEF TxInv, TxTypes
<1>7. TxPlace'
  <2>1. txbuf' # <<>>
    <3>1. Len(txbuf') >= 1
      BY <1>4, <1>5
    <3> QED BY <3>1, EmptySeq
  <2>2. cur' \in 1..Len(txbuf') /\ (cur' - 1) * Unit <= txoff' /\ txoff' <= cur' * Unit
    <3>1. CASE txbuf = <<>>
      <4>1. cur' = 1 /\ txoff' = 0
        BY <1>1, <1>5, <3>1
      <4> QED BY <1>1, <1>4, <1>5, <4>1
    <3>2. CASE txbuf # <<>>
      <4>1. cur' = cur /\ txoff' = txoff
        BY <1>5, <3>2
      <4>2. cur \in 1..Len(txbuf) /\ (cur - 1) * Unit <= txoff /\ txoff <= cur * Unit
        BY <3>2 DEF TxInv, TxPlace
      <4>3. cur \in 1..Len(txbuf')
        BY <1>1, <1>4, <1>5, <4>2
      <4> QED BY <4>1, <4>2, <4>3
    <3> QED BY <3>1, <3>2
  <2> QED BY <1>2, <1>5, <2>1, <2>2 DEF TxPlace
<1>8. TxContents'
  <2>1. Len(written') = txoff' + Len(left')
    BY <1>2, <1>3, <1>5
  <2>2. \A q \in 1..Len(left') : left'[q] = written'[txoff' + q]
    BY <1>2, <1>3, <1>5
  <2>3. ASSUME NEW k \in 1..Len(txbuf'), NEW i \in 1..Unit, (k - 1) * Unit + i <= txoff'
        PROVE  txbuf'[k][i] = written'[(k - 1) * Unit + i]
    <3> DEFINE x == (k - 1) * Unit
    <3>1. k \in Int /\ k - 1 \in Int /\ i \in Int /\ i >= 1 /\ k >= 1 /\ x \in Int /\ x >= 0
      BY <1>1, <1>5, <2>3, Times
    <3>2. k <= Len(txbuf)
      <4>1. CASE Len(txbuf) <= k - 1
        <5>1. Len(txbuf) \in Int
          BY <1>1
        <5>2. Len(txbuf) * Unit <= x /\ Len(txbuf) * Unit \in Int
          BY <3>1, <4>1, <5>1, Times
        <5>3. txoff < x + i
          <6> HIDE DEF x
          <6> QED BY <1>1, <3>1, <5>2
        <5>4. x + i <= txoff
          BY <1>5, <2>3
        <5> HIDE DEF x
        <5> QED BY <1>1, <3>1, <5>3, <5>4
      <4> QED BY <1>1, <3>1, <4>1
    <3>3. k \in 1..Len(txbuf)
      BY <1>1, <3>1, <3>2
    <3>4. txbuf'[k] = txbuf[k]
      <4>1. k \in 1..Len(chain)
        BY <1>1, <1>4, <3>3
      <4> QED BY <1>4, <1>5, <3>3, <4>1
    <3>5. x + i \in 1..txoff
      <4>1. x + i <= txoff
        BY <1>5, <2>3
      <4> HIDE DEF x
      <4> QED BY <1>1, <3>1, <4>1
    <3>6. txbuf[k][i] = written[(k - 1) * Unit + i]
      BY <1>5, <2>3, <3>3 DEF TxInv, TxContents
    <3> QED BY <1>3, <3>4, <3>5, <3>6
  <2> QED BY <2>1, <2>2, <2>3 DEF TxContents
<1> QED BY <1>2, <1>6, <1>7, <1>8 DEF TxInv, SentIsWritten
LEMMA UnitDivMod ==
  ASSUME NEW n \in Nat, NEW w \in Nat \ {0}
  PROVE  n \div w \in Nat /\ n % w \in 0..w - 1 /\ n = w * (n \div w) + (n % w)
OBVIOUS

\* A sequence without its first n elements.
LEMMA Dropped ==
  ASSUME NEW S, NEW s \in Seq(S), NEW n \in Nat, n <= Len(s)
  PROVE  LET t == SubSeq(s, n + 1, Len(s))
         IN  t \in Seq(S) /\ Len(t) = Len(s) - n /\ \A q \in 1..Len(s) - n : t[q] = s[n + q]
<1> DEFINE t == SubSeq(s, n + 1, Len(s))
<1>1. \A i \in n + 1..Len(s) : s[i] \in S
  OBVIOUS
<1>2. Len(s) \in Nat /\ n + 1 \in Int
  OBVIOUS
<1>3. /\ t \in Seq(S) /\ Len(t) = IF n + 1 <= Len(s) THEN Len(s) - (n + 1) + 1 ELSE 0
      /\ \A i \in 1..Len(s) - (n + 1) + 1 : t[i] = s[(n + 1) + i - 1]
  BY <1>1, <1>2, SubSeqProperties
<1> HIDE DEF t
<1>4. Len(t) = Len(s) - n /\ Len(s) - (n + 1) + 1 = Len(s) - n
  BY <1>2, <1>3
<1>5. ASSUME NEW q \in 1..Len(s) - n PROVE t[q] = s[n + q]
  <2>1. (n + 1) + q - 1 = n + q
    BY <1>2, <1>5
  <2> QED BY <1>3, <1>4, <2>1
<1> QED BY <1>3, <1>4, <1>5 DEF t

\* append()'s loop: on to the next pbuf, or a copy to the end of this one.
LEMMA AppendTx ==
  ASSUME TxInv, AppendStep, dpc = "write", dpc' = dpc
  PROVE  TxInv'
<1> DEFINE base == (cur - 1) * Unit
<1>1. /\ txbuf \in Seq([1..Unit -> Bytes]) /\ written \in Seq(Bytes) /\ left \in Seq(Bytes)
      /\ txoff \in Nat /\ cur \in Nat /\ Len(txbuf) \in Nat /\ Len(left) \in Nat /\ Unit \in Nat \ {0}
      /\ Len(written) = txoff + Len(left)
  BY UdpAssumption DEF TxInv, TxTypes, TxContents
<1>2. left # <<>> /\ Len(left) >= 1 /\ sent' = sent /\ written' = written
  <2>1. left # <<>> /\ sent' = sent /\ written' = written
    BY DEF AppendStep
  <2> QED BY <1>1, <2>1, EmptySeq
<1>3. txoff + Len(left) <= Len(txbuf) * Unit /\ Len(txbuf) * Unit \in Int
  BY <1>1, Times DEF TxInv, TxPlace
<1>4. txbuf # <<>> /\ Len(txbuf) >= 1
  <2>1. CASE txbuf = <<>>
    <3>1. Len(txbuf) * Unit = 0
      BY <1>1, <2>1
    <3> QED BY <1>1, <1>2, <1>3, <3>1
  <2> QED BY <1>1, <2>1, EmptySeq
<1>5. cur \in 1..Len(txbuf) /\ base <= txoff /\ txoff <= base + Unit /\ base \in Int /\ cur * Unit = base + Unit /\ base >= 0
  <2>1. cur \in 1..Len(txbuf) /\ (cur - 1) * Unit <= txoff /\ txoff <= cur * Unit
    BY <1>4 DEF TxInv, TxPlace
  <2>2. cur - 1 \in Int /\ (cur - 1) + 1 = cur /\ cur - 1 >= 0
    BY <1>1, <2>1
  <2>3. base \in Int /\ ((cur - 1) + 1) * Unit = base + Unit /\ 0 * Unit <= base /\ 0 * Unit = 0
    BY <1>1, <2>2, Times
  <2>4. cur * Unit = base + Unit
    BY <2>2, <2>3, Zenon
  <2> HIDE DEF base
  <2>5. txoff <= base + Unit
    BY <2>1, <2>4
  <2>6. base >= 0
    BY <2>3
  <2> QED BY <2>1, <2>3, <2>4, <2>5, <2>6 DEF base
<1>6. used_cur = txoff - base /\ free_cur = Unit - (txoff - base)
  BY DEF used_cur, free_cur
<1> HIDE DEF base
<1>7. CASE free_cur = 0
  <2>1. cur' = cur + 1 /\ txbuf' = txbuf /\ txoff' = txoff /\ left' = left
    BY <1>7 DEF AppendStep
  <2>2. txoff = base + Unit
    BY <1>1, <1>5, <1>6, <1>7
  <2>3. cur < Len(txbuf)
    <3>1. CASE cur = Len(txbuf)
      <4>1. Len(txbuf) * Unit = base + Unit
        BY <1>5, <3>1
      <4> QED BY <1>1, <1>2, <1>3, <1>5, <2>2, <4>1
    <3> QED BY <1>1, <1>5, <3>1
  <2>4. (cur' - 1) * Unit = txoff /\ cur' * Unit = txoff + Unit
    <3>1. cur' - 1 = cur /\ cur \in Int
      BY <1>1, <2>1
    <3>2. (cur' - 1) * Unit = txoff
      BY <1>5, <2>2, <3>1
    <3>3. (cur + 1) * Unit = cur * Unit + Unit
      BY <3>1, Times
    <3>4. cur' * Unit = cur * Unit + Unit
      BY <2>1, <3>3
    <3>5. cur * Unit = txoff
      BY <1>5, <2>2
    <3> QED BY <3>2, <3>4, <3>5
  <2>5. TxTypes' /\ TxContents'
    BY <1>1, <1>2, <2>1 DEF TxInv, TxTypes, TxContents
  <2>6. TxPlace'
    <3>1. cur' \in 1..Len(txbuf) /\ txoff <= txoff + Unit
      BY <1>1, <1>5, <2>1, <2>3
    <3>2. (cur' - 1) * Unit <= txoff' /\ txoff' <= cur' * Unit
      BY <1>1, <2>1, <2>4, <3>1
    <3> QED BY <1>3, <1>4, <2>1, <3>1, <3>2 DEF TxPlace
  <2> QED BY <1>2, <2>5, <2>6 DEF TxInv, SentIsWritten
<1>8. CASE free_cur # 0
  <2> DEFINE n == IF Len(left) < free_cur THEN Len(left) ELSE free_cur
             u == used_cur
             filled == [i \in 1..Unit |-> IF i > u /\ i <= u + n THEN left[i - u] ELSE txbuf[cur][i]]
  <2>1. txbuf' = [txbuf EXCEPT ![cur] = filled] /\ txoff' = txoff + n /\ left' = SubSeq(left, n + 1, Len(left)) /\ cur' = cur
    BY <1>8 DEF AppendStep
  <2>2. u \in Nat /\ u = txoff - base /\ n \in Nat /\ n >= 1 /\ n <= Len(left) /\ u + n <= Unit
    BY <1>1, <1>2, <1>5, <1>6, <1>8
  <2> HIDE DEF n, u
  <2>3. /\ left' \in Seq(Bytes) /\ Len(left') = Len(left) - n
        /\ \A q \in 1..Len(left) - n : left'[q] = left[n + q]
    BY <1>1, <2>1, <2>2, Dropped
  <2>31. txoff' = txoff + n /\ cur' = cur
    BY <2>1
  <2>4. filled \in [1..Unit -> Bytes]
    <3>1. txbuf[cur] \in [1..Unit -> Bytes]
      BY <1>1, <1>5
    <3>2. ASSUME NEW i \in 1..Unit, i > u, i <= u + n PROVE left[i - u] \in Bytes
      <4>1. i - u \in 1..Len(left)
        BY <1>1, <2>2, <3>2
      <4> QED BY <1>1, <4>1
    <3> QED BY <3>1, <3>2
  <2>5. /\ txbuf' \in Seq([1..Unit -> Bytes]) /\ Len(txbuf') = Len(txbuf) /\ txbuf'[cur] = filled
        /\ \A k \in 1..Len(txbuf) : k # cur => txbuf'[k] = txbuf[k]
    <3> HIDE DEF filled
    <3> QED BY <1>1, <1>5, <2>1, <2>4
  <2>6. TxTypes'
    <3>1. txoff' \in Nat
      BY <1>1, <2>2, <2>31
    <3> QED BY <1>1, <1>2, <2>3, <2>31, <2>5, <3>1 DEF TxInv, TxTypes
  <2>7. TxPlace'
    <3>1. txbuf' # <<>>
      BY <1>4, <2>5
    <3>2. txoff' + Len(left') = txoff + Len(left)
      BY <1>1, <2>2, <2>3, <2>31
    <3>3. base <= txoff' /\ txoff' <= base + Unit
      BY <1>1, <1>5, <2>1, <2>2
    <3>4. (cur' - 1) * Unit <= txoff' /\ txoff' <= cur' * Unit
      BY <1>5, <2>1, <3>3 DEF base
    <3> QED BY <1>3, <1>5, <2>1, <2>5, <3>1, <3>2, <3>4 DEF TxPlace
  <2>8. TxContents'
    <3>1. Len(written') = txoff' + Len(left')
      <4>1. Len(written') = txoff + Len(left) /\ Len(left') = Len(left) - n
        BY <1>1, <1>2, <2>3
      <4> QED BY <1>1, <2>2, <2>31, <4>1
    <3>2. ASSUME NEW q \in 1..Len(left') PROVE left'[q] = written'[txoff' + q]
      <4>1. q \in 1..Len(left) - n /\ n + q \in 1..Len(left) /\ txoff + (n + q) = txoff' + q
        BY <1>1, <2>2, <2>3, <2>31, <3>2
      <4>2. left[n + q] = written[txoff + (n + q)]
        BY <4>1 DEF TxInv, TxContents
      <4> QED BY <1>2, <2>3, <4>1, <4>2
    <3>3. ASSUME NEW k \in 1..Len(txbuf'), NEW i \in 1..Unit, (k - 1) * Unit + i <= txoff'
          PROVE  txbuf'[k][i] = written'[(k - 1) * Unit + i]
      <4> DEFINE x == (k - 1) * Unit
      <4>1. k \in Int /\ k \in 1..Len(txbuf) /\ k - 1 \in Int /\ i \in Nat /\ i >= 1 /\ i <= Unit /\ x \in Int /\ cur - 1 \in Int
        BY <1>1, <2>5, <3>3, Times
      <4>2. x + i <= txoff => txbuf[k][i] = written[x + i]
        BY <3>3, <4>1 DEF TxInv, TxContents
      <4>3. CASE k = cur
        <5>1. x = base
          BY <4>3 DEF base
        <5>2. txbuf'[k][i] = IF i > u /\ i <= u + n THEN left[i - u] ELSE txbuf[cur][i]
          BY <2>5, <4>3
        <5>3. x + i <= txoff'
          BY <3>3
        <5> HIDE DEF x
        <5>4. CASE i > u
          <6>1. i <= u + n /\ i - u \in 1..Len(left) /\ txoff + (i - u) = x + i
            BY <1>1, <1>5, <2>1, <2>2, <4>1, <5>1, <5>3, <5>4
          <6>2. left[i - u] = written[txoff + (i - u)]
            BY <6>1 DEF TxInv, TxContents
          <6> QED BY <1>2, <5>2, <5>4, <6>1, <6>2 DEF x
        <5>5. CASE ~(i > u)
          <6>1. x + i <= txoff
            BY <1>1, <1>5, <2>2, <4>1, <5>1, <5>5
          <6> QED BY <1>2, <4>2, <4>3, <5>2, <5>5, <6>1 DEF x
        <5> QED BY <5>4, <5>5
      <4>4. CASE k < cur
        <5>1. k - 1 < cur - 1
          BY <1>1, <4>1, <4>4
        <5>2. x + Unit <= base
          BY <4>1, <5>1, Times DEF base
        <5> HIDE DEF x
        <5>3. x + i <= txoff
          BY <1>1, <1>5, <4>1, <5>2
        <5>4. k # cur
          BY <1>1, <4>1, <4>4
        <5>5. txbuf'[k] = txbuf[k]
          BY <2>5, <4>1, <5>4
        <5>6. txbuf'[k][i] = written'[x + i]
          BY <1>2, <4>2, <5>3, <5>5
        <5> QED BY <5>6 DEF x
      <4>5. CASE k > cur
        <5>1. cur - 1 < k - 1
          BY <1>1, <4>1, <4>5
        <5>2. base + Unit <= x
          BY <4>1, <5>1, Times DEF base
        <5>3. x + i <= txoff'
          BY <3>3
        <5> HIDE DEF x
        <5> QED BY <1>1, <1>5, <2>1, <2>2, <4>1, <5>2, <5>3
      <4> QED BY <1>1, <4>1, <4>3, <4>4, <4>5
    <3> QED BY <3>1, <3>2, <3>3 DEF TxContents
  <2> QED BY <1>2, <2>6, <2>7, <2>8 DEF TxInv, SentIsWritten
<1> QED BY <1>7, <1>8

\* send() copies exactly what was written.
LEMMA CopyIsWritten ==
  ASSUME TxInv, left = <<>>
  PROVE  tx_copy = written
<1>1. /\ txbuf \in Seq([1..Unit -> Bytes]) /\ written \in Seq(Bytes) /\ txoff \in Nat
      /\ Len(txbuf) \in Nat /\ Unit \in Nat \ {0} /\ Len(written) = txoff /\ txoff <= Len(txbuf) * Unit
      /\ Len(txbuf) * Unit \in Int
  <2>1. Len(left) = 0
    OBVIOUS
  <2>2. /\ txbuf \in Seq([1..Unit -> Bytes]) /\ written \in Seq(Bytes) /\ txoff \in Nat
        /\ Len(txbuf) \in Nat /\ Unit \in Nat \ {0}
    BY UdpAssumption DEF TxInv, TxTypes
  <2>3. Len(written) = txoff /\ txoff <= Len(txbuf) * Unit /\ Len(txbuf) * Unit \in Int
    BY <2>1, <2>2, Times DEF TxInv, TxContents, TxPlace
  <2> QED BY <2>2, <2>3
<1>2. ASSUME NEW p \in 1..txoff
      PROVE  txbuf[(p - 1) \div Unit + 1][((p - 1) % Unit) + 1] = written[p]
  <2> DEFINE q == (p - 1) \div Unit
             m == (p - 1) % Unit
  <2>1. p - 1 \in Nat
    BY <1>2
  <2>2. q \in Nat /\ m \in 0..Unit - 1 /\ p - 1 = Unit * q + m
    BY <1>1, <2>1, UnitDivMod
  <2> HIDE DEF q, m
  <2>3. q + 1 \in Nat /\ m + 1 \in 1..Unit /\ (q + 1) - 1 = q /\ q * Unit \in Int /\ p = q * Unit + (m + 1)
    BY <1>1, <1>2, <2>2
  <2>4. q + 1 \in 1..Len(txbuf)
    <3>1. CASE Len(txbuf) <= q
      <4>1. Len(txbuf) * Unit <= q * Unit
        <5>1. Len(txbuf) \in Int /\ q \in Int
          BY <1>1, <2>2
        <5> QED BY <3>1, <5>1, Times
      <4> DEFINE x == q * Unit
      <4>2. x \in Int /\ Len(txbuf) * Unit <= x /\ p = x + (m + 1)
        BY <2>3, <4>1
      <4> HIDE DEF x
      <4> QED BY <1>1, <1>2, <2>3, <2>2, <4>2
    <3> QED BY <1>1, <2>2, <3>1
  <2>5. ((q + 1) - 1) * Unit + (m + 1) = p
    BY <2>3
  <2>6. ((q + 1) - 1) * Unit + (m + 1) <= txoff
    BY <1>2, <2>5
  <2>7. txbuf[q + 1][m + 1] = written[((q + 1) - 1) * Unit + (m + 1)]
    BY <2>3, <2>4, <2>6 DEF TxInv, TxContents
  <2> QED BY <2>5, <2>7 DEF q, m
<1>3. tx_copy = [p \in 1..txoff |-> written[p]]
  BY <1>2 DEF tx_copy
<1>4. [p \in 1..txoff |-> written[p]] = written
  BY <1>1
<1> QED BY <1>3, <1>4

LEMMA EndPacketTx ==
  ASSUME TxInv, left = <<>>, EndPacket, dest \in {remoteIP(d) : d \in Datagrams}
  PROVE  TxInv'
<1>1. sent' = Append(sent, [to |-> dest, data |-> written, asked |-> written])
  BY CopyIsWritten DEF EndPacket
<1>2. written \in Seq(Bytes) /\ sent \in Seq([to : {remoteIP(d) : d \in Datagrams}, data : Seq(Bytes), asked : Seq(Bytes)])
  BY DEF TxInv, TxTypes
<1>3. sent' \in Seq([to : {remoteIP(d) : d \in Datagrams}, data : Seq(Bytes), asked : Seq(Bytes)])
  BY <1>1, <1>2
<1>4. SentIsWritten'
  BY <1>1, <1>2 DEF SentIsWritten, TxInv
<1>5. txbuf' = <<>> /\ cur' = 0 /\ txoff' = 0 /\ left' = <<>> /\ written' = <<>>
  BY DEF EndPacket
<1>6. TxTypes' /\ TxPlace' /\ TxContents'
  <2>1. Len(txbuf') = 0 /\ Len(left') = 0 /\ Len(written') = 0 /\ Unit \in Nat
    BY <1>5, UdpAssumption
  <2>2. TxTypes'
    BY <1>3, <1>5 DEF TxTypes
  <2>3. TxPlace' /\ TxContents'
    BY <1>5, <2>1 DEF TxPlace, TxContents
  <2> QED BY <2>2, <2>3
<1> QED BY <1>4, <1>6 DEF TxInv
LEMMA TxStep ==
  ASSUME RxInv, TxInv, ReplyInv, Next
  PROVE  TxInv'
<1>1. CASE Start \/ Stop \/ Crash
  <2>1. txbuf' = <<>> /\ cur' = 0 /\ txoff' = 0 /\ left' = <<>> /\ written' = <<>> /\ sent' = sent
    BY <1>1 DEF Start, Stop, BeginUdp, StopUdp, Crash, Restart, Fresh
  <2>2. sent \in Seq([to : {remoteIP(d) : d \in Datagrams}, data : Seq(Bytes), asked : Seq(Bytes)]) /\ SentIsWritten
    BY DEF TxInv, TxTypes
  <2>3. Len(txbuf') = 0 /\ Len(left') = 0 /\ Len(written') = 0 /\ Unit \in Nat
    BY <2>1, UdpAssumption
  <2>4. TxTypes'
    BY <2>1, <2>2 DEF TxTypes
  <2>5. TxPlace' /\ TxContents'
    BY <2>1, <2>3 DEF TxPlace, TxContents
  <2> QED BY <2>1, <2>2, <2>4, <2>5 DEF TxInv, SentIsWritten
<1>2. CASE Arrive \/ ParsePacket \/ ParseStep \/ GiveUp \/ ReadRequest
  <2>1. UNCHANGED txvars
    BY <1>2 DEF Arrive, Recv, ParsePacket, NextFirst, NextLoad, ParseStep, NextStore, NextRef, NextFree,
                GiveUp, udpvars, ReadRequest, ReadBytes
  <2>2. (Arrive /\ dpc' = dpc) \/ dpc # "write"
    BY <1>2 DEF Arrive, dnsvars, ParsePacket, ParseStep, GiveUp, ReadRequest
  <2>3. dpc' # "write" => txbuf = <<>>
    BY <2>2 DEF TxInv, TxPlace
  <2> QED BY <2>1, <2>3, TxUntouched DEF txvars
<1>3. CASE BeginReply
  <2>1. UNCHANGED <<txbuf, cur, txoff, left, written, sent>> /\ dpc' = "write"
    BY <1>3 DEF BeginReply, BeginPacket
  <2> QED BY <2>1, TxUntouched
<1>4. CASE WriteReply
  <2>1. CASE AppendStep
    BY <1>4, <2>1, AppendTx DEF WriteReply
  <2>2. CASE left = <<>> /\ todo # <<>> /\ Write(Head(todo))
    <3>1. Head(todo) \in Seq(Bytes)
      BY <2>2, HeadTailProperties DEF ReplyInv
    <3> QED BY <1>4, <2>2, <3>1, WriteTx DEF WriteReply
  <2> QED BY <1>4, <2>1, <2>2 DEF WriteReply
<1>5. CASE EndReply
  <2>1. rx # <<>>
    BY <1>5 DEF EndReply, RxInv, Places
  <2>2. dest \in {remoteIP(d) : d \in Datagrams}
    BY <1>5, <2>1, RxNumbers DEF EndReply, ReplyInv
  <2> QED BY <1>5, <2>2, EndPacketTx DEF EndReply
<1> QED BY <1>1, <1>2, <1>3, <1>4, <1>5 DEF Next, ProcessNextRequest

-------------------------------------------------------------------------------
(* The replies.                                                            *)

\* A reply is right: Replies but for its uniqueness.
Right(r) ==
  LET d    == Of(r)
      data == r.data
  IN  /\ ~gram[d].options => r.to = gram[d].from
      /\ data[1] = <<d, 1>>
      /\ Len(data) \in {Header, gram[d].len + AnswerLen}
      /\ gram[d].len >= 2 =>
           \/ data[2] = "ok" /\ Len(data) = gram[d].len + AnswerLen
           \/ data[2] = "error" /\ Len(data) = Header
      /\ gram[d].len >= Header => (data[2] = "ok" <=> gram[d].body = "match")

LEMMA RepliesIs ==
  Replies <=> \A i \in DOMAIN sent : /\ Right(sent[i])
                                     /\ \A j \in DOMAIN sent : Of(sent[j]) = Of(sent[i]) => i = j
BY Zenon DEF Replies, Right

\* What was sent answers datagrams that arrived.
LEMMA AnsweredArrived ==
  ASSUME RxInv, Answered, NEW i \in DOMAIN sent
  PROVE  Of(sent[i]) \in 1..arrived
<1>1. arrived \in Nat /\ first \in Nat /\ first <= arrived + 1 /\ (rx # <<>> => first \in 1..arrived)
  BY RxNumbers
<1> QED BY <1>1 DEF Answered

\* Nothing is sent, and the datagrams that arrived stay what they are.
LEMMA SameReplies ==
  ASSUME RxInv, Answered, Replies, sent' = sent, \A i \in 1..arrived : gram'[i] = gram[i]
  PROVE  Replies'
<1>1. ASSUME NEW i \in DOMAIN sent PROVE Right(sent[i])'
  <2>1. gram'[Of(sent[i])] = gram[Of(sent[i])]
    BY AnsweredArrived
  <2>2. Right(sent[i])
    BY RepliesIs
  <2> QED BY <2>1, <2>2 DEF Right, Of
<1>2. ASSUME NEW i \in DOMAIN sent, NEW j \in DOMAIN sent, Of(sent[j]) = Of(sent[i]) PROVE i = j
  BY <1>2, RepliesIs
<1> QED BY <1>1, <1>2 DEF Replies, Right, Of

LEMMA AnswerIs ==
  /\ AnswerLen = 6 /\ \A i \in 1..4 : Answer[i] \in Seq(Bytes)
  /\ \A m \in 1..4 : Len(Answer[5 - m]) = AnswerLeft(m) - AnswerLeft(m - 1)
  /\ AnswerLeft(4) = 6 /\ AnswerLeft(0) = 0 /\ \A m \in 0..4 : AnswerLeft(m) \in 0..6
<1>1. /\ Answer[1] = <<"name">> /\ Answer[2] = <<"type">>
      /\ Answer[3] = <<"ttl", "ttl">> /\ Answer[4] = <<"ip", "ip">>
  BY DEF Answer
<1>2. Len(Answer[1]) = 1 /\ Len(Answer[2]) = 1 /\ Len(Answer[3]) = 2 /\ Len(Answer[4]) = 2
  BY <1>1
<1>3. AnswerLen = 6
  BY <1>2 DEF AnswerLen
<1>4. AnswerLeft(0) = 0 /\ AnswerLeft(1) = 2 /\ AnswerLeft(2) = 4 /\ AnswerLeft(3) = 5 /\ AnswerLeft(4) = 6
  BY DEF AnswerLeft
<1>5. "name" \in Bytes /\ "type" \in Bytes /\ "ttl" \in Bytes /\ "ip" \in Bytes
  BY DEF Bytes
<1>6. Answer[1] \in Seq(Bytes) /\ Answer[2] \in Seq(Bytes) /\ Answer[3] \in Seq(Bytes) /\ Answer[4] \in Seq(Bytes)
  BY <1>1, <1>5
<1>7. \A i \in 1..4 : i = 1 \/ i = 2 \/ i = 3 \/ i = 4
  OBVIOUS
<1>8. ASSUME NEW m \in 1..4 PROVE Len(Answer[5 - m]) = AnswerLeft(m) - AnswerLeft(m - 1)
  <2>1. CASE m = 1
    <3>1. 5 - m = 4 /\ m - 1 = 0
      BY <2>1
    <3>2. Len(Answer[5 - m]) = 2 /\ AnswerLeft(m) = 2 /\ AnswerLeft(m - 1) = 0
      BY <1>2, <1>4, <2>1, <3>1, Zenon
    <3> QED BY <3>2
  <2>2. CASE m = 2
    <3>1. 5 - m = 3 /\ m - 1 = 1
      BY <2>2
    <3>2. Len(Answer[5 - m]) = 2 /\ AnswerLeft(m) = 4 /\ AnswerLeft(m - 1) = 2
      BY <1>2, <1>4, <2>2, <3>1, Zenon
    <3> QED BY <3>2
  <2>3. CASE m = 3
    <3>1. 5 - m = 2 /\ m - 1 = 2
      BY <2>3
    <3>2. Len(Answer[5 - m]) = 1 /\ AnswerLeft(m) = 5 /\ AnswerLeft(m - 1) = 4
      BY <1>2, <1>4, <2>3, <3>1, Zenon
    <3> QED BY <3>2
  <2>4. CASE m = 4
    <3>1. 5 - m = 1 /\ m - 1 = 3
      BY <2>4
    <3>2. Len(Answer[5 - m]) = 1 /\ AnswerLeft(m) = 6 /\ AnswerLeft(m - 1) = 5
      BY <1>2, <1>4, <2>4, <3>1, Zenon
    <3> QED BY <3>2
  <2> QED BY <1>7, <2>1, <2>2, <2>3, <2>4
<1>9. \A m \in 0..4 : AnswerLeft(m) \in 0..6
  BY DEF AnswerLeft
<1> QED BY <1>3, <1>4, <1>6, <1>7, <1>8, <1>9

\* A reply that is being made stays as it is.
LEMMA SameReply ==
  ASSUME RxInv, ReplyInv, rx # <<>>, first' = first, gram'[first] = gram[first],
         UNCHANGED <<dpc, todo, off, written, dest>>
  PROVE  ReplyInv'
<1>1. ASSUME NEW kind, Judged(first, kind) PROVE Judged(first, kind)'
  BY <1>1 DEF Judged
<1>2. ASSUME NEW kind, Unbegun(first, kind) PROVE Unbegun(first, kind)'
  BY <1>2 DEF Unbegun, OpeningLen, Opening
<1>3. ASSUME NEW kind, Underway(first, kind) PROVE Underway(first, kind)'
  BY <1>3 DEF Underway, Opening
<1> QED BY <1>1, <1>2, <1>3 DEF ReplyInv

\* The steps that send nothing and make no reply.
LEMMA QuietServer ==
  ASSUME RxInv, RxInv', ReplyInv, Answered, Replies,
         Start \/ Stop \/ Crash \/ Arrive \/ ParsePacket \/ ParseStep \/ GiveUp
  PROVE  ReplyInv' /\ Answered' /\ Replies'
<1>1. sent' = sent /\ (todo' = todo \/ todo' = <<>>)
  BY DEF Start, Stop, BeginUdp, StopUdp, Crash, Restart, Arrive, Recv, dnsvars, txvars, ParsePacket, NextFirst, NextLoad,
         ParseStep, NextStore, NextRef, NextFree, GiveUp, udpvars
<1>2. \A i \in 1..arrived : gram'[i] = gram[i]
  <2>1. CASE Arrive
    BY <2>1 DEF Arrive, Recv, arrived, RxInv, RxTypes
  <2>2. CASE Start \/ Stop \/ Crash \/ ParsePacket \/ ParseStep \/ GiveUp
    BY <2>2 DEF Start, Stop, BeginUdp, StopUdp, Crash, Restart, ParsePacket, NextFirst, NextLoad,
         ParseStep, NextStore, NextRef, NextFree, GiveUp, udpvars, rxvars
  <2> QED BY <2>1, <2>2
<1>3. Replies'
  BY <1>1, <1>2, SameReplies
<1>4. /\ arrived \in Nat /\ first \in Nat /\ first <= arrived + 1 /\ (rx # <<>> => first \in 1..arrived)
      /\ (rx = <<>> => first = arrived + 1)
  BY RxNumbers
<1>5. CASE Start \/ Stop \/ Crash
  <2>1. dpc' = "out" /\ rx' = <<>> /\ gram' = gram
    BY <1>5 DEF Start, Stop, BeginUdp, StopUdp, Crash, Restart, Fresh
  <2>2. first' = arrived + 1
    BY <1>4, <2>1 DEF first, arrived
  <2>3. Answered'
    <3>1. ASSUME NEW i \in DOMAIN sent PROVE Of(sent[i]) \in 1..first' - 1
      BY <1>4, <2>2, AnsweredArrived
    <3> QED BY <1>1, <3>1 DEF Answered, Of
  <2>4. ReplyInv'
    <3>1. todo \in Seq(Seq(Bytes)) /\ <<>> \in Seq(Seq(Bytes))
      BY DEF ReplyInv
    <3>2. todo' \in Seq(Seq(Bytes))
      BY <1>1, <3>1, Zenon
    <3> QED BY <2>1, <3>2 DEF ReplyInv
  <2> QED BY <1>3, <2>3, <2>4
<1>6. CASE Arrive
  <2>1. /\ first' = first /\ dpc' = dpc /\ rx' # <<>> /\ written' = written /\ dest' = dest
        /\ todo' = todo /\ (rx # <<>> => off' = off)
    <3>1. /\ dpc' = dpc /\ todo' = todo /\ (rx # <<>> => off' = off) /\ rx' = Append(rx, arrived + 1) /\ written' = written /\ dest' = dest
          /\ \E d \in Datagrams : gram' = Append(gram, d)
      BY <1>6 DEF Arrive, Recv, dnsvars, txvars
    <3>2. rx \in Seq(Nat) /\ gram \in Seq(Datagrams)
      BY DEF RxInv, RxTypes
    <3>3. Len(rx') = Len(rx) + 1 /\ Len(gram') = Len(gram) + 1 /\ rx' # <<>>
      BY <1>4, <3>1, <3>2
    <3>4. first' = first
      BY <3>2, <3>3 DEF first, arrived
    <3> QED BY <3>1, <3>3, <3>4
  <2>2. Answered'
    <3>1. ASSUME NEW i \in DOMAIN sent, rx # <<>> PROVE gram'[first] = gram[first]
      BY <1>2, <1>4, <3>1
    <3>2. ASSUME NEW i \in DOMAIN sent, rx = <<>> PROVE Of(sent[i]) \in 1..first - 1
      BY <3>2 DEF Answered
    <3> QED BY <1>1, <2>1, <3>1, <3>2 DEF Answered, Of
  <2>3. ReplyInv'
    <3>1. CASE rx = <<>>
      <4>1. dpc \notin {"begin", "write"}
        BY <3>1 DEF RxInv, Places
      <4> QED BY <1>1, <2>1, <4>1 DEF ReplyInv
    <3>2. CASE rx # <<>>
      BY <1>1, <1>2, <1>4, <2>1, <3>2, SameReply
    <3> QED BY <3>1, <3>2
  <2> QED BY <1>3, <2>2, <2>3
<1>7. CASE ParsePacket \/ ParseStep \/ GiveUp
  <2>1. dpc \notin {"begin", "write"} /\ dpc' \in {"out", "parse", "got"} /\ todo' = todo
    BY <1>7 DEF ParsePacket, ParseStep, GiveUp
  <2>2. ReplyInv'
    BY <1>1, <2>1 DEF ReplyInv
  <2>3. gram' = gram /\ arrived' = arrived
    BY <1>7 DEF ParsePacket, NextFirst, NextLoad, ParseStep, NextStore, NextRef, NextFree, GiveUp, udpvars, rxvars, arrived
  <2>4. CASE rx' = rx /\ off' = off
    <3>1. first' = first
      BY <2>3, <2>4 DEF first
    <3> QED BY <1>1, <1>3, <2>1, <2>2, <2>3, <2>4, <3>1 DEF Answered, Of
  <2>5. CASE NextStore /\ dpc = "parse"
    <3>1. rx # <<>> /\ (rx' = <<>> \/ rx' = Tail(rx)) /\ rx \in Seq(Nat)
      BY <2>5 DEF NextStore, RxInv, Places, RxTypes
    <3>2. Len(rx') \in Nat /\ Len(rx') < Len(rx) /\ Len(rx) \in Nat
      BY <3>1
    <3>3. first' > first /\ first' \in Int
      BY <1>4, <2>3, <3>2 DEF first
    <3>4. ASSUME NEW i \in DOMAIN sent PROVE Of(sent[i]) \in 1..first' - 1
      BY <1>4, <3>3 DEF Answered
    <3> QED BY <1>1, <1>3, <2>2, <3>4 DEF Answered, Of
  <2> QED BY <1>7, <2>4, <2>5 DEF ParsePacket, NextFirst, NextLoad, ParseStep, NextRef, NextFree, GiveUp, udpvars, rxvars
<1> QED BY <1>5, <1>6, <1>7
\* The request is read as a whole, and the reply it gets begins with it.
LEMMA ReadServer ==
  ASSUME RxInv, RxInv', TxInv, ReplyInv, Answered, Replies, ReadRequest
  PROVE  ReplyInv' /\ Answered' /\ Replies'
<1> DEFINE n == gram[first].len
<1>1. off' = n /\ off' # 0 /\ off = 0 /\ rx # <<>> /\ Size = n
  BY ReadRx
<1>2. /\ dpc = "got" /\ gram' = gram /\ rx' = rx /\ sent' = sent /\ written' = written
  BY DEF ReadRequest, ReadBytes, txvars
<1>3. first' = first /\ arrived' = arrived
  BY <1>2 DEF first, arrived
<1>4. rx[1] = first /\ n \in Nat /\ n >= 1 /\ first \in Nat
  BY <1>1, RxNumbers
<1>5. Header \in Nat /\ Header >= 2
  BY HeaderAssumption
<1>6. Replies'
  BY <1>2, SameReplies
<1>7. written = <<>>
  <2>1. txbuf = <<>>
    BY <1>2 DEF TxInv, TxPlace
  <2>2. txoff = 0 /\ left \in Seq(Bytes) /\ written \in Seq(Bytes) /\ Len(txbuf) = 0 /\ Unit \in Nat
    BY <2>1, UdpAssumption DEF TxInv, TxPlace, TxTypes
  <2>3. Len(left) = 0
    <3>1. Len(left) \in Nat /\ txoff + Len(left) <= Len(txbuf) * Unit /\ Len(txbuf) * Unit = 0
      BY <2>2 DEF TxInv, TxPlace
    <3> QED BY <2>2, <3>1
  <2>4. Len(written) = 0
    BY <2>2, <2>3 DEF TxInv, TxContents
  <2> QED BY <2>2, <2>4, EmptySeq
<1> HIDE DEF n
<1>8. Answered'
  <2>1. ASSUME NEW i \in DOMAIN sent PROVE Of(sent[i]) \in 1..first - 1
    BY <1>1 DEF Answered, n
  <2> QED BY <1>2, <1>3, <2>1 DEF Answered, Of
<1>9. PICK kind \in Reading(gram[first]) :
        IF kind = "response"
          THEN dpc' = "out" /\ UNCHANGED <<buffer, todo>>
          ELSE /\ dpc' = "begin"
               /\ todo' = ReplyWrites(Request(first, n), kind, n)
  BY <1>1, <1>4 DEF ReadRequest
<1>10. kind \in Bodies /\ (n >= Header => kind = gram[first].body)
  <2>1. gram[first].body \in Bodies
    BY <1>1, RxNumbers, HeaderAssumption
  <2>2. CASE n < Header
    <3>1. kind \in Bodies
      BY <2>2 DEF Reading, n
    <3> QED BY <1>4, <1>5, <2>2, <3>1
  <2>3. CASE ~(n < Header)
    <3>1. kind = gram[first].body
      BY <2>3 DEF Reading, n
    <3> QED BY <2>1, <3>1
  <2> QED BY <2>2, <2>3
<1>11. CASE kind = "response"
  <2>1. dpc' = "out" /\ todo' = todo
    BY <1>9, <1>11
  <2> QED BY <1>6, <1>8, <2>1 DEF ReplyInv
<1>12. CASE kind # "response"
  <2>1. dpc' = "begin" /\ todo' = ReplyWrites(Request(first, n), kind, n)
    BY <1>9, <1>12
  <2> DEFINE req == Request(first, n)
             len == IF n < Header THEN Header ELSE n
             code == IF kind = "match" THEN "ok" ELSE "error"
             m == IF kind = "match" THEN n ELSE Header
             edited == [req EXCEPT ![2] = code]
             opening == SubSeq(edited, 1, m)
  <2>2. len \in Nat /\ len >= 2 /\ m \in Nat /\ m >= 1 /\ m <= len /\ n <= len
    BY <1>4, <1>5
  <2>3. req = [i \in 1..len |-> IF i <= n THEN <<first, i>> ELSE JUNK]
    <3>1. ASSUME NEW i \in 1..len PROVE off + i = i
      BY <1>1, <2>2, <3>1
    <3> HIDE DEF len
    <3>2. req = [i \in 1..len |-> IF i <= n THEN <<first, off + i>> ELSE JUNK]
      BY DEF Request, len
    <3> QED BY <3>1, <3>2
  <2> HIDE DEF len, m, req
  <2>4. edited \in Seq(Bytes) /\ Len(edited) = len /\ edited[1] = <<first, 1>> /\ edited[2] = code
    <3>1. code \in Bytes /\ JUNK \in Bytes
      BY DEF Bytes
    <3>2. \A i \in 1..len : <<first, i>> \in Bytes
      BY <1>4, <2>2 DEF Bytes
    <3> HIDE DEF code
    <3>3. req \in [1..len -> Bytes] /\ 1 \in 1..len /\ 2 \in 1..len
      BY <2>2, <2>3, <3>1, <3>2
    <3>4. req[1] = <<first, 1>>
      BY <1>4, <2>3, <3>3
    <3>5. edited \in [1..len -> Bytes] /\ edited[1] = req[1] /\ edited[2] = code
      BY <3>1, <3>3
    <3> HIDE DEF edited
    <3>6. edited \in Seq(Bytes) /\ Len(edited) = len
      BY <2>2, <3>5
    <3> QED BY <3>4, <3>5, <3>6
  <2> HIDE DEF edited
  <2>5. /\ opening \in Seq(Bytes) /\ Len(opening) = m /\ opening[1] = <<first, 1>>
        /\ m >= 2 => opening[2] = code
    <3>1. \A i \in 1..m : edited[i] \in Bytes
      BY <2>2, <2>4
    <3>2. /\ opening \in Seq(Bytes) /\ Len(opening) = IF 1 <= m THEN m - 1 + 1 ELSE 0
          /\ \A i \in 1..m - 1 + 1 : opening[i] = edited[1 + i - 1]
      BY <2>2, <3>1, SubSeqProperties
    <3> HIDE DEF opening
    <3>3. Len(opening) = m /\ m - 1 + 1 = m
      BY <2>2, <3>2
    <3>4. 1 \in 1..m - 1 + 1 /\ 1 + 1 - 1 = 1 /\ (m >= 2 => 2 \in 1..m - 1 + 1) /\ 1 + 2 - 1 = 2
      BY <2>2
    <3>5. opening[1] = edited[1] /\ (m >= 2 => opening[2] = edited[2])
      BY <3>2, <3>4
    <3> QED BY <2>4, <3>2, <3>3, <3>5
  <2> HIDE DEF opening
  <2>6. CASE kind = "match"
    <3>1. todo' = <<opening>> \o Answer /\ code = "ok" /\ m = n
      BY <2>1, <2>6 DEF ReplyWrites, Replying, opening, edited, req, m
    <3>2. Answer \in Seq(Seq(Bytes)) /\ Len(Answer) = 4
      <4>1. Len(Answer) = 4 /\ Answer = [i \in 1..4 |-> Answer[i]]
        BY DEF Answer
      <4> QED BY <4>1, AnswerIs
    <3> DEFINE one == <<opening>>
    <3>3. one \in Seq(Seq(Bytes)) /\ Len(one) = 1 /\ one[1] = opening /\ todo' = one \o Answer
      BY <2>5, <3>1
    <3> HIDE DEF one
    <3>4. /\ todo' \in Seq(Seq(Bytes)) /\ Len(todo') = 1 + 4
          /\ \A i \in 1..1 + 4 : todo'[i] = IF i <= 1 THEN one[i] ELSE Answer[i - 1]
      <4>1. /\ todo' \in Seq(Seq(Bytes)) /\ Len(todo') = Len(one) + Len(Answer)
            /\ \A i \in 1..Len(one) + Len(Answer) : todo'[i] = IF i <= Len(one) THEN one[i] ELSE Answer[i - Len(one)]
        <5> HIDE DEF Answer
        <5> QED BY <3>2, <3>3, ConcatProperties
      <4> QED BY <3>2, <3>3, <4>1
    <3>5. Len(todo') = 5 /\ todo'[1] = opening /\ \A i \in 1..4 : todo'[i + 1] = Answer[i]
      <4>1. Len(todo') = 5 /\ todo'[1] = opening
        <5>1. 1 \in 1..1 + 4 /\ 1 <= 1 /\ 1 + 4 = 5
          OBVIOUS
        <5>2. todo'[1] = one[1]
          BY <3>4, <5>1
        <5> QED BY <3>3, <3>4, <5>1, <5>2
      <4>2. ASSUME NEW i \in 1..4 PROVE todo'[i + 1] = Answer[i]
        <5>1. i + 1 \in 1..1 + 4 /\ ~(i + 1 <= 1) /\ (i + 1) - 1 = i
          BY <4>2
        <5> QED BY <3>4, <5>1
      <4> QED BY <4>1, <4>2
    <3>6. Unbegun(first, "match")'
      <4>1. Len(todo'[1]) = n /\ todo'[1][1] = <<first, 1>> /\ (n >= 2 => todo'[1][2] = "ok")
        BY <2>5, <3>1, <3>5
      <4>2. gram'[first'].len = n
        BY <1>2, <1>3 DEF n
      <4> QED BY <1>2, <1>3, <1>7, <3>5, <4>1, <4>2 DEF Unbegun, Opening, OpeningLen
    <3>7. Judged(first, "match")'
      BY <1>2, <1>3, <1>10, <2>6 DEF Judged, Bodies, n
    <3> QED BY <1>1, <1>2, <1>3, <1>6, <1>8, <2>1, <3>4, <3>6, <3>7 DEF ReplyInv, Bodies, n
  <2>7. CASE kind # "match"
    <3>1. todo' = <<opening>> /\ code = "error" /\ m = Header
      BY <2>1, <2>7 DEF ReplyWrites, Replying, opening, edited, req, m
    <3>2. todo' \in Seq(Seq(Bytes)) /\ Len(todo') = 1 /\ todo'[1] = opening
      BY <2>5, <3>1
    <3>3. Len(todo'[1]) = Header /\ todo'[1][1] = <<first, 1>> /\ todo'[1][2] = "error"
      BY <1>5, <2>5, <3>1, <3>2
    <3>4. Unbegun(first, kind)'
      BY <1>2, <1>3, <1>7, <2>7, <3>2, <3>3 DEF Unbegun, Opening, OpeningLen
    <3>5. Judged(first, kind)'
      BY <1>2, <1>3, <1>10, <1>12 DEF Judged, n
    <3> QED BY <1>1, <1>2, <1>3, <1>6, <1>8, <1>10, <2>1, <3>2, <3>4, <3>5 DEF ReplyInv, n
  <2> QED BY <2>6, <2>7
<1> QED BY <1>11, <1>12
\* beginPacket: the reply will go to the one whose request was read.
LEMMA BeginServer ==
  ASSUME RxInv, ReplyInv, Answered, Replies, BeginReply
  PROVE  ReplyInv' /\ Answered' /\ Replies'
<1>1. /\ dpc = "begin" /\ dpc' = "write" /\ todo' = todo /\ dest' = remoteIP(gram[rx[1]]) /\ written' = written
      /\ sent' = sent /\ off' = off /\ gram' = gram /\ rx' = rx
  BY DEF BeginReply, BeginPacket, rxvars
<1>2. rx # <<>> /\ rx[1] = first
  BY <1>1, RxNumbers DEF RxInv, Places
<1>3. first' = first
  BY <1>1 DEF first, arrived
<1>4. ASSUME NEW kind, Judged(first, kind) PROVE Judged(first, kind)'
  BY <1>1, <1>3, <1>4 DEF Judged
<1>5. ASSUME NEW kind, Unbegun(first, kind) PROVE Unbegun(first, kind)'
  BY <1>1, <1>3, <1>5 DEF Unbegun, OpeningLen, Opening
<1>6. ReplyInv'
  BY <1>1, <1>2, <1>3, <1>4, <1>5 DEF ReplyInv
<1>7. Answered'
  BY <1>1, <1>3 DEF Answered, Of
<1>8. Replies'
  BY <1>1, SameReplies
<1> QED BY <1>6, <1>7, <1>8

\* t is what is left of s when its first element is taken.
Rest(s, t) == /\ s \in Seq(Seq(Bytes)) /\ t \in Seq(Seq(Bytes)) /\ Len(s) \in Nat /\ Len(s) >= 1
              /\ Len(t) = Len(s) - 1 /\ \A i \in 1..Len(t) : t[i] = s[i + 1]

\* A write() takes the next piece of the reply.
LEMMA WriteServer ==
  ASSUME RxInv, TxInv, ReplyInv, dpc = "write", dpc' = dpc, Rest(todo, todo'),
         NEW piece \in Seq(Bytes), piece = todo[1], Write(piece)
  PROVE  ReplyInv'
<1> DEFINE n == gram[first].len
<1>1. written' = written \o piece /\ off' = off /\ gram' = gram /\ rx' = rx /\ dest' = dest
  BY DEF Write, rxvars
<1>2. first' = first
  BY <1>1 DEF first, arrived
<1>3. /\ todo \in Seq(Seq(Bytes)) /\ written \in Seq(Bytes) /\ piece \in Seq(Bytes) /\ piece = todo[1]
      /\ todo' \in Seq(Seq(Bytes)) /\ Len(todo') = Len(todo) - 1 /\ Len(todo) \in Nat /\ Len(todo) >= 1
      /\ \A i \in 1..Len(todo') : todo'[i] = todo[i + 1]
  BY DEF Rest, TxInv, TxTypes
<1>4. n \in Nat /\ n >= 1 /\ Header \in Nat /\ Header >= 2
  <2>1. rx # <<>>
    BY DEF RxInv, Places
  <2>2. n \in Nat /\ n # 0
    BY <2>1, RxNumbers DEF ReplyInv
  <2> HIDE DEF n
  <2> QED BY <2>2, HeaderAssumption
<1>5. PICK kind \in Bodies : Judged(first, kind) /\ (Unbegun(first, kind) \/ Underway(first, kind))
  BY DEF ReplyInv
<1> HIDE DEF n
<1>6. /\ written' \in Seq(Bytes) /\ Len(written') = Len(written) + Len(piece) /\ Len(written) \in Nat /\ Len(piece) \in Nat
      /\ \A i \in 1..Len(written) : written'[i] = written[i]
  <2>1. /\ written' \in Seq(Bytes) /\ Len(written') = Len(written) + Len(piece) /\ Len(written) \in Nat /\ Len(piece) \in Nat
        /\ \A i \in 1..Len(written) + Len(piece) : written'[i] = IF i <= Len(written) THEN written[i] ELSE piece[i - Len(written)]
    BY <1>1, <1>3, ConcatProperties
  <2> QED BY <2>1
<1>7. Judged(first, kind)'
  BY <1>1, <1>2, <1>5 DEF Judged
<1>8. Underway(first, kind)'
  <2>1. CASE Unbegun(first, kind)
    <3>1. written' = todo[1]
      BY <1>1, <1>3, <2>1, ConcatEmptySeq DEF Unbegun
    <3>2. /\ Len(written') = OpeningLen(first, kind) /\ Opening(written', first, kind)
          /\ Len(todo) = (IF kind = "match" THEN 5 ELSE 1)
          /\ (kind = "match" => \A i \in 1..4 : todo[i + 1] = Answer[i])
      BY <2>1, <3>1 DEF Unbegun
    <3>3. (Opening(written, first, kind))'
      BY <1>1, <1>2, <3>2 DEF Opening
    <3>4. written' # <<>>
      BY <1>4, <3>2 DEF OpeningLen, n
    <3>5. CASE kind = "match"
      <4>1. Len(todo') = 4 /\ \A i \in 1..4 : todo'[i] = Answer[i]
        BY <1>3, <3>2, <3>5
      <4>2. Len(written') = n /\ AnswerLeft(Len(todo')) = 6 /\ AnswerLen = 6
        BY <3>2, <3>5, <4>1, AnswerIs DEF OpeningLen, n
      <4>3. Len(written') + AnswerLeft(Len(todo')) = n + AnswerLen
        BY <4>2
      <4>4. \A i \in 1..Len(todo') : todo'[i] = Answer[4 - Len(todo') + i]
        <5>1. ASSUME NEW i \in 1..4 PROVE 4 - 4 + i = i
          BY <5>1
        <5> QED BY <4>1, <5>1
      <4>5. Len(todo') <= 4
        BY <4>1
      <4> QED BY <1>1, <1>2, <3>3, <3>4, <3>5, <4>3, <4>4, <4>5 DEF Underway, n
    <3>6. CASE kind # "match"
      <4>1. todo' = <<>>
        BY <1>3, <3>2, <3>6, EmptySeq
      <4>2. Len(written') = Header
        BY <3>2, <3>6 DEF OpeningLen
      <4> QED BY <1>2, <3>3, <3>4, <3>6, <4>1, <4>2 DEF Underway
    <3> QED BY <3>5, <3>6
  <2>2. CASE Underway(first, kind)
    <3> DEFINE m == Len(todo)
    <3>1. kind = "match"
      <4>1. todo # <<>>
        BY <1>3
      <4> QED BY <2>2, <4>1, Zenon DEF Underway
    <3>2. /\ m \in 1..4 /\ (\A i \in 1..m : todo[i] = Answer[4 - m + i])
          /\ Len(written) + AnswerLeft(m) = n + AnswerLen
          /\ written # <<>> /\ Opening(written, first, "match")
      <4>1. /\ m <= 4 /\ (\A i \in 1..m : todo[i] = Answer[4 - m + i])
            /\ Len(written) + AnswerLeft(m) = n + AnswerLen
            /\ written # <<>> /\ Opening(written, first, "match")
        BY <2>2, <3>1, Zenon DEF Underway, n
      <4>2. m \in Nat /\ m >= 1
        BY <1>3
      <4> HIDE DEF m
      <4>3. m \in 1..4
        BY <4>1, <4>2
      <4> QED BY <4>1, <4>3
    <3>21. Len(todo') = m - 1
      BY <1>3
    <3> HIDE DEF m
    <3>3. m - 1 \in 0..4 /\ Len(todo') = m - 1
      BY <3>2, <3>21
    <3>4. piece = Answer[5 - m]
      <4>1. 1 \in 1..m /\ 4 - m + 1 = 5 - m
        BY <3>2
      <4> QED BY <1>3, <3>2, <4>1
    <3>5. Len(piece) = AnswerLeft(m) - AnswerLeft(m - 1) /\ AnswerLeft(m) \in 0..6 /\ AnswerLeft(m - 1) \in 0..6 /\ AnswerLen = 6
      <4>1. m \in 0..4
        BY <3>2
      <4> QED BY <3>2, <3>3, <3>4, <4>1, AnswerIs
    <3>6. Len(written') + AnswerLeft(m - 1) = n + AnswerLen /\ Len(written) >= n
      <4> DEFINE a == AnswerLeft(m)
                 b == AnswerLeft(m - 1)
                 w == Len(written)
                 v == Len(written')
                 p == Len(piece)
      <4>1. w + a = n + 6 /\ AnswerLen = 6 /\ v = w + p /\ p = a - b /\ a \in 0..6 /\ b \in 0..6 /\ w \in Nat /\ p \in Nat
        BY <1>6, <3>2, <3>5
      <4> HIDE DEF a, b, w, v, p
      <4>2. v + b = n + 6 /\ w >= n
        BY <1>4, <4>1
      <4> QED BY <4>1, <4>2 DEF a, b, w, v
    <3>7. ASSUME NEW i \in 1..m - 1 PROVE todo'[i] = Answer[4 - (m - 1) + i]
      <4>1. i \in 1..Len(todo') /\ i + 1 \in 1..m /\ 4 - m + (i + 1) = 4 - (m - 1) + i
        BY <3>2, <3>3, <3>7
      <4> QED BY <1>3, <3>2, <4>1
    <3>8. written' # <<>> /\ (Opening(written, first, "match"))'
      <4>1. 1 \in 1..Len(written) /\ (n >= 2 => 2 \in 1..Len(written))
        BY <1>4, <1>6, <3>6
      <4>2. written'[1] = <<first, 1>> /\ (n >= 2 => written'[2] = "ok")
        BY <1>6, <3>2, <4>1 DEF Opening, n
      <4>3. written' # <<>>
        BY <1>6, <4>1
      <4> QED BY <1>1, <1>2, <4>2, <4>3 DEF Opening, n
    <3>9. Len(todo') <= 4
      BY <3>2, <3>3
    <3> QED BY <1>1, <1>2, <3>1, <3>3, <3>6, <3>7, <3>8, <3>9 DEF Underway, n
  <2> QED BY <1>5, <2>1, <2>2
<1> QED BY <1>1, <1>2, <1>3, <1>5, <1>7, <1>8 DEF ReplyInv

\* The write() calls of a reply.
LEMMA WriteReplyServer ==
  ASSUME RxInv, TxInv, ReplyInv, Answered, Replies, WriteReply
  PROVE  ReplyInv' /\ Answered' /\ Replies'
<1>1. dpc = "write" /\ dpc' = dpc /\ UNCHANGED rxvars /\ sent' = sent /\ dest' = dest
  BY DEF WriteReply, AppendStep, Write
<1>2. first' = first /\ gram' = gram /\ rx' = rx /\ off' = off
  BY <1>1 DEF first, arrived, rxvars
<1>3. Answered'
  BY <1>1, <1>2 DEF Answered, Of
<1>4. Replies'
  BY <1>1, <1>2, SameReplies
<1>5. CASE AppendStep /\ todo' = todo
  <2>1. written' = written /\ rx # <<>>
    BY <1>1, <1>5 DEF AppendStep, RxInv, Places
  <2>2. ReplyInv'
    BY <1>1, <1>2, <1>5, <2>1, SameReply
  <2> QED BY <1>3, <1>4, <2>2
<1>6. CASE todo # <<>> /\ Write(Head(todo)) /\ todo' = Tail(todo)
  <2>1. Head(todo) \in Seq(Bytes) /\ Head(todo) = todo[1] /\ Rest(todo, todo')
    BY <1>6, HeadTailProperties DEF ReplyInv, Rest
  <2>2. ReplyInv'
    BY <1>1, <1>6, <2>1, WriteServer
  <2> QED BY <1>3, <1>4, <2>2
<1> QED BY <1>5, <1>6 DEF WriteReply

\* endPacket: the reply is complete, and it is the first for its query.
LEMMA EndServer ==
  ASSUME RxInv, TxInv, ReplyInv, Answered, Replies, EndReply
  PROVE  ReplyInv' /\ Answered' /\ Replies'
<1> DEFINE n == gram[first].len
           r == [to |-> dest, data |-> written, asked |-> written]
<1>1. /\ dpc = "write" /\ dpc' = "out" /\ left = <<>> /\ todo = <<>> /\ todo' = todo
      /\ gram' = gram /\ rx' = rx /\ off' = off
      /\ sent' = Append(sent, r)
  BY CopyIsWritten DEF EndReply, EndPacket, rxvars
<1>2. first' = first /\ arrived' = arrived
  BY <1>1 DEF first, arrived
<1>3. rx # <<>> /\ off = n /\ off # 0 /\ dest = remoteIP(gram[first])
  BY <1>1 DEF ReplyInv, RxInv, Places
<1>4. PICK kind \in Bodies : Judged(first, kind) /\ (Unbegun(first, kind) \/ Underway(first, kind))
  BY <1>1 DEF ReplyInv
<1>5. n \in Nat /\ n >= 1 /\ Header \in Nat /\ Header >= 2 /\ first \in Nat
  BY <1>3, RxNumbers, HeaderAssumption
<1>6. Underway(first, kind)
  <2>1. Len(todo) = 0
    BY <1>1
  <2> QED BY <1>4, <2>1 DEF Unbegun
<1>7. r.to = dest /\ r.data = written /\ written[1] = <<first, 1>>
  BY <1>6 DEF Underway, Opening
<1>8. Of(r) = first
  BY <1>7 DEF Of
<1> HIDE DEF r, n
<1>9. Right(r)
  <2>1. CASE kind = "match"
    <3>1. Len(written) + AnswerLeft(0) = n + AnswerLen /\ AnswerLeft(0) = 0 /\ AnswerLen = 6 /\ (n >= 2 => written[2] = "ok")
      BY <1>1, <1>6, <2>1, AnswerIs DEF Underway, Opening, n
    <3>2. written \in Seq(Bytes) /\ Len(written) \in Nat
      BY DEF TxInv, TxTypes
    <3>3. Len(written) = n + AnswerLen
      BY <1>5, <3>1, <3>2
    <3>4. n >= Header => gram[first].body = "match" /\ n >= 2
      BY <1>4, <1>5, <2>1 DEF Judged, n
    <3> QED BY <1>3, <1>7, <1>8, <3>1, <3>3, <3>4 DEF Right, n, remoteIP
  <2>2. CASE kind # "match"
    <3>1. Len(written) = Header /\ written[2] = "error"
      BY <1>6, <2>2 DEF Underway, Opening
    <3>2. n >= Header => gram[first].body # "match"
      BY <1>4, <2>2 DEF Judged, n
    <3> QED BY <1>3, <1>7, <1>8, <3>1, <3>2 DEF Right, n, remoteIP
  <2> QED BY <2>1, <2>2
<1>10. /\ sent \in Seq([to : {remoteIP(d) : d \in Datagrams}, data : Seq(Bytes), asked : Seq(Bytes)])
       /\ DOMAIN sent = 1..Len(sent) /\ Len(sent) \in Nat
  BY DEF TxInv, TxTypes
<1>11. /\ DOMAIN sent' = 1..(Len(sent) + 1) /\ sent'[Len(sent) + 1] = r
       /\ \A i \in 1..Len(sent) : sent'[i] = sent[i]
  BY <1>1, <1>10
<1>12. ASSUME NEW i \in 1..Len(sent) PROVE Of(sent[i]) \in 1..first - 1 /\ Of(sent[i]) # first
  <2>1. i \in DOMAIN sent
    BY <1>10
  <2>2. Of(sent[i]) \in 1..first - 1
    BY <1>1, <2>1, Zenon DEF Answered
  <2>3. \A x \in 1..first - 1 : x # first
    BY <1>5
  <2> QED BY <2>2, <2>3
<1>13. \A i \in 1..(Len(sent) + 1) : i \in 1..Len(sent) \/ i = Len(sent) + 1
  BY <1>10
<1>14. Replies'
  <2>1. ASSUME NEW i \in DOMAIN sent' PROVE Right(sent'[i])
    <3>1. \A j \in 1..Len(sent) : Right(sent[j])
      BY <1>10, RepliesIs
    <3> QED BY <1>9, <1>11, <1>13, <3>1
  <2>2. ASSUME NEW i \in DOMAIN sent', NEW j \in DOMAIN sent', Of(sent'[j]) = Of(sent'[i]) PROVE i = j
    <3>1. CASE i \in 1..Len(sent) /\ j \in 1..Len(sent)
      <4>1. Of(sent[j]) = Of(sent[i])
        BY <1>11, <2>2, <3>1
      <4> QED BY <1>10, <3>1, <4>1, RepliesIs
    <3>2. CASE i \in 1..Len(sent) /\ j = Len(sent) + 1
      BY <1>8, <1>11, <1>12, <2>2, <3>2
    <3>3. CASE i = Len(sent) + 1 /\ j \in 1..Len(sent)
      BY <1>8, <1>11, <1>12, <2>2, <3>3
    <3> QED BY <1>11, <1>13, <3>1, <3>2, <3>3
  <2>3. \A i \in DOMAIN sent' : (Right(sent[i]))'
    BY <1>1, <2>1 DEF Right, Of
  <2> QED BY <2>2, <2>3 DEF Replies, Right, Of
<1>15. Answered'
  <2>1. ASSUME NEW i \in DOMAIN sent'
        PROVE  Of(sent'[i]) \in 1..first - 1 \/ Of(sent'[i]) = first
    BY <1>8, <1>11, <1>12, <1>13
  <2> QED BY <1>1, <1>2, <1>3, <2>1 DEF Answered, Of, n
<1>16. ReplyInv'
  BY <1>1 DEF ReplyInv
<1> QED BY <1>14, <1>15, <1>16
-------------------------------------------------------------------------------
(* The theorems.                                                           *)

LEMMA DnsInitially == Init => DnsInv
<1> SUFFICES ASSUME Init PROVE DnsInv
  OBVIOUS
<1>1. RxInv
  BY RxInitially
<1>2. sent = <<>> /\ DOMAIN sent = {} /\ todo = <<>> /\ dpc = "out"
  BY DEF Init, UdpInit
<1>3. SentIsWritten /\ Answered /\ Replies
  BY <1>2 DEF SentIsWritten, Answered, Replies
<1>4. TxInv
  BY <1>2, <1>3, TxEmpty DEF Init, UdpInit
<1>5. ReplyInv
  BY <1>2 DEF ReplyInv
<1> QED BY <1>1, <1>3, <1>4, <1>5 DEF DnsInv

LEMMA DnsStep ==
  ASSUME DnsInv, Next
  PROVE  DnsInv'
<1>1. RxInv /\ TxInv /\ ReplyInv /\ Answered /\ Replies
  BY DEF DnsInv
<1>2. RxInv'
  BY <1>1, RxStep
<1>3. TxInv'
  BY <1>1, TxStep
<1>4. ReplyInv' /\ Answered' /\ Replies'
  <2>1. CASE Start \/ Stop \/ Crash \/ Arrive \/ ParsePacket \/ ParseStep \/ GiveUp
    BY <1>1, <1>2, <2>1, QuietServer
  <2>2. CASE ReadRequest
    BY <1>1, <1>2, <2>2, ReadServer
  <2>3. CASE BeginReply
    BY <1>1, <2>3, BeginServer
  <2>4. CASE WriteReply
    BY <1>1, <2>4, WriteReplyServer
  <2>5. CASE EndReply
    BY <1>1, <2>5, EndServer
  <2> QED BY <2>1, <2>2, <2>3, <2>4, <2>5 DEF Next, ProcessNextRequest
<1> QED BY <1>2, <1>3, <1>4 DEF DnsInv

LEMMA DnsInvariance == Spec => []DnsInv
<1>1. ASSUME DnsInv, UNCHANGED vars PROVE DnsInv'
  <2>1. RxInv' /\ TxInv'
    BY <1>1, RxUntouched, TxUntouched DEF DnsInv, vars, udpvars, txvars, dnsvars, RxInv, RxTypes, Places, TxInv, TxPlace
  <2>2. gram' = gram /\ rx' = rx /\ off' = off /\ sent' = sent /\ first' = first
    BY <1>1 DEF vars, udpvars, rxvars, txvars, first, arrived
  <2>3. Answered' /\ Replies'
    BY <1>1, <2>2, SameReplies DEF DnsInv, Answered, Of, vars, dnsvars
  <2>4. ReplyInv'
    <3>1. CASE rx = <<>>
      <4>1. dpc \notin {"begin", "write"}
        BY <1>1, <3>1 DEF DnsInv, RxInv, Places
      <4> QED BY <1>1, <4>1 DEF DnsInv, ReplyInv, vars, dnsvars
    <3>2. CASE rx # <<>>
      BY <1>1, <2>2, <3>2, SameReply DEF DnsInv, vars, udpvars, txvars, dnsvars
    <3> QED BY <3>1, <3>2
  <2> QED BY <2>1, <2>3, <2>4 DEF DnsInv
<1>2. DnsInv /\ [Next]_vars => DnsInv'
  BY <1>1, DnsStep
<1> QED BY DnsInitially, <1>2, PTL DEF Spec

\* The chain the tcpip thread and the loop task share stays sound: sizes and
\* counts are in range, datagrams are presented in order, what can be reached
\* is in memory and nothing else is kept, unless one came just as next() left
\* the last (_recv and next(), UdpContext.h).
THEOREM ChainStaysSound == Spec => []ChainSound
<1>1. DnsInv => ChainSound
  <2> SUFFICES ASSUME DnsInv PROVE ChainSound
    OBVIOUS
  <2>1. RxInv /\ TxInv
    BY DEF DnsInv
  <2>2. /\ arrived \in Nat /\ first \in Nat /\ Len(rx) \in Nat /\ Len(old) \in Nat /\ first = arrived - Len(rx) + 1
        /\ Len(old) < first
        /\ (rx # <<>> => rx[1] = first /\ gram[first].len \in Nat)
    BY <2>1, RxNumbers
  <2>3. rx \in Seq(1..arrived) /\ old \in Seq(1..arrived)
    <3>1. rx \in Seq(Nat) /\ old \in Seq(Nat)
      BY <2>1 DEF RxInv, RxTypes
    <3>2. ASSUME NEW i \in 1..Len(rx) PROVE rx[i] \in 1..arrived
      BY <2>1, <2>2 DEF RxInv, Consecutive
    <3>3. ASSUME NEW i \in 1..Len(old) PROVE old[i] \in 1..arrived
      BY <2>1, <2>2 DEF RxInv, Consecutive
    <3>4. rx \in [1..Len(rx) -> 1..arrived] /\ old \in [1..Len(old) -> 1..arrived]
      BY <3>1, <3>2, <3>3, LenProperties
    <3>5. rx \in Seq(1..arrived)
      BY <2>2, <3>4, SeqDef
    <3>6. old \in Seq(1..arrived)
      BY <2>2, <3>4, SeqDef
    <3> QED BY <3>5, <3>6
  <2>4. Size \in Nat
    <3>1. CASE rx = <<>>
      BY <3>1 DEF Size
    <3>2. CASE rx # <<>>
      <4>1. off \in {0, gram[first].len} /\ gram[first].len \in Nat /\ rx[1] = first
        BY <2>1, <2>2, <3>2 DEF RxInv, Whole
      <4> QED BY <3>2, <4>1 DEF Size
    <3> QED BY <3>1, <3>2
  <2>5. cur \in 0..Len(txbuf) /\ txoff \in 0..Len(txbuf) * Unit
    <3>1. /\ cur \in Nat /\ txoff \in Nat /\ Len(txbuf) \in Nat /\ Len(left) \in Nat /\ Unit \in Nat
          /\ (txbuf = <<>> => cur = 0)
          /\ (txbuf # <<>> => cur \in 1..Len(txbuf)) /\ txoff + Len(left) <= Len(txbuf) * Unit
      BY <2>1, UdpAssumption DEF TxInv, TxTypes, TxPlace
    <3>2. Len(txbuf) * Unit \in Int
      BY <3>1
    <3>3. cur \in 0..Len(txbuf)
      BY <3>1
    <3> QED BY <3>1, <3>2, <3>3
  <2>6. UdpTypeOK
    BY <2>1, <2>3, <2>4, <2>5 DEF UdpTypeOK, RxInv, RxTypes, Refs
  <2>7. PbufsAccounted
    <3>1. Range(rx) \cup Range(old) \subseteq DOMAIN ref
      BY <2>1, HeldIs DEF RxInv, Refs
    <3>2. ASSUME npc = "idle", ~raced PROVE DOMAIN ref = Range(rx) /\ \A d \in DOMAIN ref : ref[d] = 1
      <4>1. Range(old) = {}
        BY <2>1, <3>2 DEF RxInv, Places, Range
      <4> QED BY <2>1, <3>2, <4>1, HeldIs DEF RxInv, Refs
    <3> QED BY <3>1, <3>2 DEF PbufsAccounted
  <2> QED BY <2>1, <2>6, <2>7 DEF ChainSound, RxInv
<1> QED BY <1>1, DnsInvariance, PTL

\* Every packet endPacket() sends carries exactly the bytes written for it
\* (append() and send(), UdpContext.h).
THEOREM PacketsAreExact == Spec => []SentIsWritten
<1>1. DnsInv => SentIsWritten
  BY DEF DnsInv, TxInv
<1> QED BY <1>1, DnsInvariance, PTL

\* Every reply goes to the one who asked, has the shape its query calls for,
\* and is the only one (processNextRequest(), DNSServer.cpp).
THEOREM RepliesAreRight == Spec => []Replies
<1>1. DnsInv => Replies
  BY DEF DnsInv
<1> QED BY <1>1, DnsInvariance, PTL
===============================================================================
