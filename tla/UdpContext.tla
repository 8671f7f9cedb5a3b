------------------------------ MODULE UdpContext ------------------------------
(***************************************************************************)
(* A UDP socket: class UdpContext                                          *)
(* (libraries/ESP31BWiFi/src/include/UdpContext.h) and the WiFiUDP object  *)
(* that owns it (WiFiUdp.cpp).  lwIP's tcpip thread appends datagrams to   *)
(* the chain from _rx_buf in _recv; the loop task moves along the chain in *)
(* next(), reads, and builds packets in a chain of its own.                *)
(*                                                                         *)
(* The tcpip thread outranks the loop task: _recv is one step and may come *)
(* between any two accesses of next() to _rx_buf.  Everything else the     *)
(* loop task does commutes with it.  A datagram is one pbuf; lwIP's        *)
(* reference counts are kept, because next() relies on them.               *)
(*                                                                         *)
(* gram, seen, raced, written and sent are not program state: the          *)
(* datagrams handed to _recv, those next() has presented, whether one came *)
(* inside next() when it was leaving the last, the bytes written since the *)
(* last endPacket(), and the packets sent.                                 *)
(***************************************************************************)
EXTENDS Integers, Sequences, SequencesExt

CONSTANTS
  Datagrams,    \* what a datagram may be: [from, options, len, body]
  Unit,         \* pbuf_unit_size
  MaxDatagrams, \* bound on the datagrams that arrive
  NONE,         \* no destination yet
  ASTRAY        \* an address that is none of the senders'

ASSUME UdpAssumption ==
  /\ \A d \in Datagrams : d.len \in Nat /\ d.options \in BOOLEAN
  /\ Unit \in Nat \ {0}
  /\ MaxDatagrams \in Nat

VARIABLES
  ctx,       \* _ctx of the WiFiUDP: "none", "open", or "bound" after listen()
  rx,        \* the ids of the datagrams in the chain from _rx_buf
  off,       \* _rx_buf_offset
  taken,     \* _first_buf_taken
  ref,       \* the reference counts of the datagrams' pbufs in memory
  npc,       \* where the loop task is inside next()
  old,       \* its head: what pbuf_free(head) will walk, but for what rx holds
  gram,      \* what each datagram is
  txbuf,     \* the chain from _tx_buf_head: the bytes of each pbuf
  cur,       \* the place of _tx_buf_cur in it
  txoff,     \* _tx_buf_offset
  left,      \* left_to_copy: the bytes an append() in progress has to copy
  dest,      \* _dest_addr, _dest_port
  seen, raced, written, sent

rxvars == <<rx, off, taken, ref, npc, old, gram, seen, raced>>
txvars == <<txbuf, cur, txoff, left, dest, written, sent>>
udpvars == <<ctx, rxvars, txvars>>

arrived == Len(gram)
Null == npc = "lastLoaded" \/ npc = "lastStored" \/ npc = "lastReffed"

UdpInit ==
  /\ ctx = "none"
  /\ rx = <<>> /\ off = 0 /\ taken = FALSE
  /\ ref = [d \in {} |-> 0]
  /\ npc = "idle" /\ old = <<>>
  /\ gram = <<>> /\ seen = <<>> /\ raced = FALSE
  /\ txbuf = <<>> /\ cur = 0 /\ txoff = 0 /\ left = <<>> /\ dest = NONE
  /\ written = <<>> /\ sent = <<>>

-------------------------------------------------------------------------------
(* lwIP. *)

\* pbuf_free on the head of a chain: it frees the leading pbufs nobody else
\* refers to and takes one reference from the first that somebody does.
pbuf_free(chain) ==
  LET gone    == {chain[k] : k \in {i \in DOMAIN chain : \A j \in 1..i : ref[chain[j]] = 1}}
      kept(d) == \E k \in DOMAIN chain : /\ chain[k] = d /\ ref[d] > 1
                                         /\ \A j \in 1..k - 1 : ref[chain[j]] = 1
  IN  [d \in DOMAIN ref \ gone |-> IF kept(d) THEN ref[d] - 1 ELSE ref[d]]

pbuf_ref(d) == [ref EXCEPT ![d] = @ + 1]

\* (Mistake: a datagram for an empty chain does not reset _first_buf_taken.)
RecvKeepsTaken(d) ==
  /\ ctx = "bound" /\ arrived < MaxDatagrams
  /\ gram' = Append(gram, d)
  /\ ref' = [i \in DOMAIN ref \cup {arrived + 1} |-> IF i = arrived + 1 THEN 1 ELSE ref[i]]
  /\ rx' = Append(rx, arrived + 1)
  /\ off' = IF rx = <<>> THEN 0 ELSE off
  /\ raced' = (raced \/ Null)
  /\ UNCHANGED <<ctx, taken, npc, old, seen, txvars>>

\* _recv
Recv(d) ==
  /\ ctx = "bound" /\ arrived < MaxDatagrams
  /\ gram' = Append(gram, d)
  /\ ref' = [i \in DOMAIN ref \cup {arrived + 1} |-> IF i = arrived + 1 THEN 1 ELSE ref[i]]
  /\ rx' = Append(rx, arrived + 1)
  /\ IF rx = <<>> THEN taken' = FALSE /\ off' = 0 ELSE UNCHANGED <<taken, off>>
  /\ raced' = (raced \/ Null)
  /\ UNCHANGED <<ctx, npc, old, seen, txvars>>

-------------------------------------------------------------------------------
(* next(), as parsePacket() calls it.  With no chain it changes nothing. *)

\* The size parsePacket() returns: getSize(), or 0 when next() is false.
Size == IF rx = <<>> THEN 0 ELSE gram[rx[1]].len - off

\* The first datagram of a chain is presented where it is.
NextFirst ==
  /\ rx # <<>> /\ ~taken
  /\ taken' = TRUE
  /\ seen' = Append(seen, rx[1])
  /\ UNCHANGED <<ctx, rx, off, ref, npc, old, gram, raced, txvars>>

\* head = _rx_buf, and its next is read.
NextLoad ==
  /\ rx # <<>> /\ taken
  /\ npc' = IF Len(rx) = 1 THEN "lastLoaded" ELSE "loaded"
  /\ UNCHANGED <<ctx, rx, off, taken, ref, old, gram, seen, raced, txvars>>

\* _rx_buf = next: what was chained to a last datagram since its next was read
\* goes with it.  _rx_buf_offset = 0.
NextStore ==
  /\ \/ npc = "lastLoaded" /\ old' = rx /\ rx' = <<>> /\ npc' = "lastStored"
     \/ npc = "loaded" /\ old' = <<rx[1]>> /\ rx' = Tail(rx) /\ npc' = "stored"
  /\ off' = 0
  /\ UNCHANGED <<ctx, taken, ref, gram, seen, raced, txvars>>

\* (Mistake: the successor is not referred to before the head is freed.)
NextNoRef ==
  /\ npc \in {"lastStored", "stored"}
  /\ npc' = IF npc = "stored" THEN "reffed" ELSE "lastReffed"
  /\ UNCHANGED <<ctx, rx, off, taken, ref, old, gram, seen, raced, txvars>>

NextRef ==
  /\ npc \in {"lastStored", "stored"}
  /\ ref' = IF rx = <<>> THEN ref ELSE pbuf_ref(rx[1])
  /\ npc' = IF npc = "stored" THEN "reffed" ELSE "lastReffed"
  /\ UNCHANGED <<ctx, rx, off, taken, old, gram, seen, raced, txvars>>

\* pbuf_free(head) and the return: the chain from head goes on into rx unless
\* head was the last.
NextFree ==
  /\ npc \in {"lastReffed", "reffed"}
  /\ ref' = pbuf_free(IF npc = "reffed" THEN old \o rx ELSE old)
  /\ seen' = IF rx = <<>> THEN seen ELSE Append(seen, rx[1])
  /\ npc' = "idle" /\ old' = <<>>
  /\ UNCHANGED <<ctx, rx, off, taken, gram, raced, txvars>>

\* read(dst, n) for an n that getSize() allows, and flush() when n is all.
ReadBytes(n) ==
  /\ off' = off + n
  /\ UNCHANGED <<ctx, rx, taken, ref, npc, old, gram, seen, raced, txvars>>

\* getRemoteAddress(): the source address of an IP header taken to begin 28
\* bytes before the payload.  With options in the header (lwIP lets them pass)
\* the four bytes found there are something else.
remoteIP(d) == IF d.options THEN ASTRAY ELSE d.from

-------------------------------------------------------------------------------
(* Sending. *)

\* beginPacket: a context is made if there is none; connect() only notes where
\* the packet is to go.
BeginPacket(to) ==
  /\ ctx' = IF ctx = "none" THEN "open" ELSE ctx
  /\ dest' = to
  /\ UNCHANGED <<rxvars, txbuf, cur, txoff, left, written, sent>>

\* The pbufs _reserve(size) appends to a chain of n.
Grown(n, size) == IF size < n * Unit THEN 0 ELSE (size - n * Unit + Unit - 1) \div Unit

NewPbuf == [i \in 1..Unit |-> NONE]

\* append(data, n) up to its loop: _reserve if there is no chain or it is too
\* short.
Write(data) ==
  LET size  == txoff + Len(data)
      chain == IF txbuf = <<>> THEN <<NewPbuf>> ELSE txbuf
  IN  /\ IF txbuf = <<>> \/ Len(txbuf) * Unit < size
           THEN /\ txbuf' = chain \o [i \in 1..Grown(Len(chain), size) |-> NewPbuf]
                /\ cur' = IF txbuf = <<>> THEN 1 ELSE cur
                /\ txoff' = IF txbuf = <<>> THEN 0 ELSE txoff
           ELSE UNCHANGED <<txbuf, cur, txoff>>
      /\ left' = data
      /\ written' = written \o data
      /\ UNCHANGED <<ctx, rxvars, dest, sent>>

\* (Mistake: a pbuf that has just been filled counts as empty.)
used_mod == txoff % Unit

\* Bytes used and free in the pbuf _tx_buf_cur points to.
used_cur == txoff - (cur - 1) * Unit
free_cur == Unit - used_cur

\* One turn of append()'s loop: on to the next pbuf, or a copy.
AppendStep ==
  /\ left # <<>>
  /\ IF free_cur = 0
       THEN cur' = cur + 1 /\ UNCHANGED <<txbuf, txoff, left>>
       ELSE LET n == IF Len(left) < free_cur THEN Len(left) ELSE free_cur
            IN  /\ txbuf' = [txbuf EXCEPT ![cur] =
                              [i \in 1..Unit |-> IF i > used_cur /\ i <= used_cur + n
                                                   THEN left[i - used_cur] ELSE @[i]]]
                /\ txoff' = txoff + n
                /\ left' = SubSeq(left, n + 1, Len(left))
                /\ UNCHANGED cur
  /\ UNCHANGED <<ctx, rxvars, dest, written, sent>>

\* What send() copies: the first _tx_buf_offset bytes of the chain, pbuf by pbuf.
tx_copy == [p \in 1..txoff |-> txbuf[(p - 1) \div Unit + 1][((p - 1) % Unit) + 1]]

\* endPacket
EndPacket ==
  /\ sent' = Append(sent, [to |-> dest, data |-> tx_copy, asked |-> written])
  /\ txbuf' = <<>> /\ cur' = 0 /\ txoff' = 0
  /\ written' = <<>>
  /\ UNCHANGED <<ctx, rxvars, left, dest>>

-------------------------------------------------------------------------------
(* The life of the context. *)

\* The state of a context that has just been made.
Fresh ==
  /\ rx' = <<>> /\ off' = 0 /\ taken' = FALSE
  /\ txbuf' = <<>> /\ cur' = 0 /\ txoff' = 0 /\ left' = <<>> /\ dest' = NONE
  /\ written' = <<>>

\* ~UdpContext: udp_remove comes first, so no datagram arrives while the two
\* chains are freed.
Delete == ref' = IF rx = <<>> THEN ref ELSE pbuf_free(rx)

\* begin(port): the old context goes, and a new one listens, unless udp_bind
\* fails: then it is there, and nothing arrives.
BeginUdp ==
  /\ Delete
  /\ Fresh
  /\ ctx' \in {"bound", "open"}
  /\ UNCHANGED <<npc, old, gram, seen, raced, sent>>

\* A restart of the system.
Restart ==
  /\ Fresh
  /\ ref' = [d \in {} |-> 0]
  /\ npc' = "idle" /\ old' = <<>>
  /\ ctx' = "none"
  /\ UNCHANGED <<gram, seen, raced, sent>>

\* stop(), stopAll()
StopUdp ==
  /\ Delete
  /\ Fresh
  /\ ctx' = "none"
  /\ UNCHANGED <<npc, old, gram, seen, raced, sent>>

-------------------------------------------------------------------------------
(* Correctness. *)

UdpTypeOK ==
  /\ ctx \in {"none", "open", "bound"}
  /\ rx \in Seq(1..arrived) /\ old \in Seq(1..arrived)
  /\ DOMAIN ref \subseteq 1..arrived /\ \A d \in DOMAIN ref : ref[d] \in Nat \ {0}
  /\ off \in Nat /\ Size \in Nat
  /\ cur \in 0..Len(txbuf) /\ txoff \in 0..Len(txbuf) * Unit

\* next() presents the datagrams in the order they arrived, never goes back,
\* and, unless one came just as it left the last, none is presented twice.
PresentedInOrder ==
  \A i, j \in DOMAIN seen : i < j => /\ seen[i] <= seen[j]
                                     /\ ~raced => seen[i] < seen[j]

\* The reference counts are right: what can be reached is in memory, and when
\* next() is not at work nothing else is, with one reference each, unless a
\* datagram came just as next() left the last.
PbufsAccounted ==
  /\ Range(rx) \cup Range(old) \subseteq DOMAIN ref
  /\ npc = "idle" /\ ~raced => /\ DOMAIN ref = Range(rx)
                               /\ \A d \in DOMAIN ref : ref[d] = 1

\* All of these: the chain the tcpip thread and the loop task share.
ChainSound == UdpTypeOK /\ PresentedInOrder /\ PbufsAccounted

\* Every packet carries exactly the bytes written for it, however the writes
\* fall on the pbufs of the transmit chain.
SentIsWritten == \A i \in DOMAIN sent : sent[i].data = sent[i].asked
===============================================================================
