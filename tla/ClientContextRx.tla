---------------------------- MODULE ClientContextRx ----------------------------
(***************************************************************************)
(* The receive side of class ClientContext                                 *)
(* (libraries/ESP31BWiFi/src/include/ClientContext.h): the chain of pbufs  *)
(* between lwIP's tcpip thread, which appends to it in _recv, and the      *)
(* sketch's loop task, which consumes it in read, flush and unref.         *)
(*                                                                         *)
(* The loop task runs at tskIDLE_PRIORITY and the tcpip thread above it,   *)
(* so a callback is one step, and it may come between any two accesses the *)
(* loop task makes to _rx_buf.  Only where the loop task has decided to    *)
(* free the chain but still points to it does the order matter; the other  *)
(* stretches of read() commute with _recv and are one step.                *)
(*                                                                         *)
(* Bytes are numbered by their place in the peer's stream.  received,      *)
(* credited, readAt and raced are not program state: they record what has  *)
(* happened to those bytes.  A definition marked "Mistake" is not part of  *)
(* the model: it is a plausible error in the definition below it.          *)
(***************************************************************************)
EXTENDS Integers, Sequences

CONSTANTS
  SegLens,    \* lengths of the pbufs lwIP delivers
  ReadSizes,  \* sizes a sketch passes to read()
  Wnd,        \* TCP_WND: how far the peer may send ahead of the credit
  MaxBytes    \* bound on the bytes the peer sends

ASSUME RxAssumption ==
  /\ SegLens \subseteq Nat \ {0}
  /\ ReadSizes \subseteq Nat \ {0}
  /\ Wnd \in Nat
  /\ MaxBytes \in Nat

VARIABLES
  pcb,        \* _pcb: "open", or "none" once it is 0
  rx,         \* the chain from _rx_buf; <<>> when _rx_buf is 0
  off,        \* _rx_buf_offset
  pc,         \* where the loop task is inside the context
  want,       \* bytes the read() in progress still has to copy
  received,   \* bytes lwIP has handed to _recv
  credited,   \* bytes given back to the peer's window with tcp_recved
  readAt,     \* place in the stream after the last byte read or flushed
  raced       \* bytes that _recv chained to a buffer about to be freed

vars == <<pcb, rx, off, pc, want, received, credited, readAt, raced>>

\* A pbuf of a chain: its first byte's place, its len and its tot_len.
Pbuf == [at : Nat, len : Nat, tot : Nat]

\* Loop-task positions: idle; inside the loop of read(); in _consume after
\* "!_rx_buf->next" was seen, before the credit, the pbuf_free and the
\* "_rx_buf = 0"; the same two places of flush(), called alone or from
\* unref(); between flush() and close() in unref(); after "delete this".
Places == {"idle", "copy", "last", "lastFree", "lastNull",
           "flushFree", "flushNull", "unrefFree", "unrefNull", "close", "deleted"}

\* The chain is still reachable but the loop task is past reading it.
Doomed == {"last", "lastFree", "lastNull", "flushFree", "flushNull",
           "unrefFree", "unrefNull", "close"}

held == IF rx = <<>> THEN 0 ELSE rx[1].tot

getSize == IF rx = <<>> THEN 0 ELSE rx[1].tot - off

Lesser(a, b) == IF a < b THEN a ELSE b

\* tcp_recved, called only while _pcb is set.  Its cap at the full window is
\* never reached: nothing is given back that was not received.
\* (Mistake: nothing is given back.)
NoCredit(n) == UNCHANGED credited

Credit(n) == credited' = IF pcb = "open" THEN credited + n ELSE credited

Init ==
  /\ pcb = "open"
  /\ rx = <<>>
  /\ off = 0
  /\ pc = "idle"
  /\ want = 0
  /\ received = 0
  /\ credited = 0
  /\ readAt = 0
  /\ raced = 0

-------------------------------------------------------------------------------
(* The tcpip thread. *)

\* pbuf_cat: every pbuf of the chain learns the new total.
\* (Mistake: only the head's tot_len is raised.)
pbuf_cat_head(chain, p) ==
  Append([chain EXCEPT ![1].tot = @ + p.tot], p)

pbuf_cat(chain, p) ==
  Append([i \in 1..Len(chain) |-> [chain[i] EXCEPT !.tot = @ + p.tot]], p)

\* _recv with data.  The peer stays within the window it was given.
Recv(n) ==
  LET p == [at |-> received, len |-> n, tot |-> n] IN
  /\ pcb = "open"
  /\ received + n <= MaxBytes
  /\ received + n - credited <= Wnd
  /\ received' = received + n
  /\ IF rx # <<>>
       THEN rx' = pbuf_cat(rx, p) /\ UNCHANGED off
       ELSE rx' = <<p>> /\ off' = 0
  /\ raced' = IF pc \in Doomed THEN raced + n ELSE raced
  /\ UNCHANGED <<pcb, pc, want, credited, readAt>>

\* _recv without data is abort(), _error clears _pcb: the unread data stays.
Disconnected ==
  /\ pcb = "open"
  /\ pcb' = "none"
  /\ UNCHANGED <<rx, off, pc, want, received, credited, readAt, raced>>

-------------------------------------------------------------------------------
(* The loop task. *)

\* read(dst, size) and read(): how much there is to copy is settled first.
Read(n) ==
  /\ pc = "idle"
  /\ rx # <<>>
  /\ want' = Lesser(n, getSize)
  /\ pc' = "copy"
  /\ UNCHANGED <<pcb, rx, off, received, credited, readAt, raced>>

\* What one turn of the loop copies out of the head pbuf.
copy_size == Lesser(want, rx[1].len - off)

\* One turn of the loop that stays inside the head pbuf.
CopyWithin ==
  /\ pc = "copy"
  /\ rx[1].len - off - copy_size > 0
  /\ off' = off + copy_size
  /\ readAt' = rx[1].at + off + copy_size
  /\ want' = want - copy_size
  /\ pc' = IF want' = 0 THEN "idle" ELSE "copy"
  /\ UNCHANGED <<pcb, rx, received, credited, raced>>

\* One turn that uses up a head pbuf with a successor.
\* (Mistake: the offset survives the change of head.)
CopyMoreKeepsOffset ==
  /\ pc = "copy"
  /\ rx[1].len - off - copy_size <= 0
  /\ Len(rx) > 1
  /\ rx' = Tail(rx)
  /\ Credit(rx[1].len)
  /\ readAt' = rx[1].at + off + copy_size
  /\ want' = want - copy_size
  /\ pc' = IF want' = 0 THEN "idle" ELSE "copy"
  /\ UNCHANGED <<pcb, off, received, raced>>

\* (Mistake: tot_len credited instead of len.)
CopyMoreCreditsTotal ==
  /\ pc = "copy"
  /\ rx[1].len - off - copy_size <= 0
  /\ Len(rx) > 1
  /\ rx' = Tail(rx)
  /\ off' = 0
  /\ Credit(rx[1].tot)
  /\ readAt' = rx[1].at + off + copy_size
  /\ want' = want - copy_size
  /\ pc' = IF want' = 0 THEN "idle" ELSE "copy"
  /\ UNCHANGED <<pcb, received, raced>>

CopyMore ==
  /\ pc = "copy"
  /\ rx[1].len - off - copy_size <= 0
  /\ Len(rx) > 1
  /\ rx' = Tail(rx)
  /\ off' = 0
  /\ Credit(rx[1].len)
  /\ readAt' = rx[1].at + off + copy_size
  /\ want' = want - copy_size
  /\ pc' = IF want' = 0 THEN "idle" ELSE "copy"
  /\ UNCHANGED <<pcb, received, raced>>

\* One turn that uses up the only pbuf: _consume has seen no successor.
CopyLast ==
  /\ pc = "copy"
  /\ rx[1].len - off - copy_size <= 0
  /\ Len(rx) = 1
  /\ readAt' = rx[1].at + off + copy_size
  /\ want' = want - copy_size
  /\ pc' = "last"
  /\ UNCHANGED <<pcb, rx, off, received, credited, raced>>

LastCredit ==
  /\ pc = "last"
  /\ Credit(rx[1].len)
  /\ pc' = "lastFree"
  /\ UNCHANGED <<pcb, rx, off, want, received, readAt, raced>>

\* pbuf_free(_rx_buf): the memory of the whole chain goes, _rx_buf stays.
Freed == [lastFree |-> "lastNull", flushFree |-> "flushNull", unrefFree |-> "unrefNull"]

Free ==
  /\ pc \in DOMAIN Freed
  /\ pc' = Freed[pc]
  /\ UNCHANGED <<pcb, rx, off, want, received, credited, readAt, raced>>

\* _rx_buf = 0.
Nulled == [lastNull |-> IF want = 0 THEN "idle" ELSE "copy",
           flushNull |-> "idle", unrefNull |-> "close"]

Null ==
  /\ pc \in DOMAIN Nulled
  /\ pc' = Nulled[pc]
  /\ rx' = <<>>
  /\ off' = 0
  /\ UNCHANGED <<pcb, want, received, credited, readAt, raced>>

\* flush(), alone or as the first call of the last unref(): everything held
\* is credited.
FlushTo(place) ==
  /\ pc = "idle"
  /\ rx # <<>>
  /\ Credit(rx[1].tot)
  /\ readAt' = rx[1].at + rx[1].tot
  /\ pc' = place
  /\ UNCHANGED <<pcb, rx, off, want, received, raced>>

Flush == FlushTo("flushFree")

\* The last unref(): flush(), which returns at once when nothing is held.
Unref ==
  \/ FlushTo("unrefFree")
  \/ /\ pc = "idle"
     /\ rx = <<>>
     /\ pc' = "close"
     /\ UNCHANGED <<pcb, rx, off, want, received, credited, readAt, raced>>

\* close() takes the callbacks away; "delete this" drops _rx_buf unfreed.
Close ==
  /\ pc = "close"
  /\ pcb' = "none"
  /\ pc' = "deleted"
  /\ rx' = <<>>
  /\ off' = 0
  /\ UNCHANGED <<want, received, credited, readAt, raced>>

Callback == Disconnected \/ \E n \in SegLens : Recv(n)

\* Everything the loop task does once it has entered a method.
Method == CopyWithin \/ CopyMore \/ CopyLast \/ LastCredit \/ Free \/ Null \/ Close

Next ==
  \/ Callback
  \/ Method
  \/ \E n \in ReadSizes : Read(n)
  \/ Flush
  \/ Unref

Spec == Init /\ [][Next]_vars

\* The loop task is scheduled whenever the tcpip thread is blocked, and the
\* sketch reads what is available as long as the context exists.
FairSpec ==
  /\ Spec
  /\ WF_vars(Method)
  /\ WF_vars(\E n \in ReadSizes : Read(n))

-------------------------------------------------------------------------------
(* Correctness. *)

TypeOK ==
  /\ pcb \in {"open", "none"}
  /\ rx \in Seq(Pbuf)
  /\ off \in Nat
  /\ pc \in Places
  /\ want \in Nat
  /\ received \in Nat
  /\ credited \in Nat
  /\ readAt \in Nat
  /\ raced \in Nat

\* A well-formed lwIP chain over consecutive bytes of the stream: every
\* tot_len counts up to the end of the chain.
Chain(c) ==
  /\ \A i \in 1..Len(c) : c[i].len > 0 /\ c[i].at + c[i].tot = c[1].at + c[1].tot
  /\ \A i \in 1..Len(c) - 1 : c[i + 1].at = c[i].at + c[i].len
  /\ c[Len(c)].tot = c[Len(c)].len

\* What read(), getSize() and flush() rely on: the chain the two tasks share
\* is well formed and ends where the stream received so far does, and
\* _rx_buf_offset lies inside its head.
ChainOK ==
  rx # <<>> =>
    /\ Chain(rx)
    /\ rx[1].at + rx[1].tot = received
    /\ off < rx[1].len

\* The bytes that can still be read or credited.
kept == IF pc \in {"idle", "copy"} THEN held ELSE IF pc = "last" THEN rx[1].len ELSE 0

\* Window accounting: while the connection is up, every byte received has been
\* credited back exactly once, or is still held, or is one of those _recv
\* chained to a buffer the loop task was about to free; after it has gone
\* down the credit only falls short.  Without such a race the peer's window
\* neither shrinks for good nor overtakes the buffer.
WindowAccounting ==
  /\ pcb = "open" => credited + kept + raced = received
  /\ credited + kept + raced <= received

\* Back-pressure: the data waiting in the chain never exceeds the window, so
\* a sketch that does not read bounds the memory the peer can fill.
BufferBounded == pc \in {"idle", "copy"} => held <= Wnd

\* The stream is read in order: never a byte twice, and, unless a segment was
\* lost to the race, never a byte skipped.
StreamOrder ==
  /\ pc \in {"idle", "copy"} /\ rx # <<>> => rx[1].at + off >= readAt
  /\ raced = 0 /\ pc \in {"idle", "copy"} =>
       readAt = IF rx = <<>> THEN received ELSE rx[1].at + off

\* read() never runs off the chain: while it has bytes to copy, they are there.
ReadStaysInside == pc = "copy" => want > 0 /\ rx # <<>> /\ want <= getSize

\* A closed window is opened again as long as the sketch reads: the peer is
\* never left waiting for ever, unless a segment was lost to the race or the
\* connection ends.
WindowReopens ==
  (pcb = "open" /\ received - credited = Wnd)
    ~> (received - credited < Wnd \/ raced > 0 \/ pcb = "none")

\* The comment in _recv, "there is some unread data, chain the new pbuf to the
\* existing one": a pbuf is chained only behind bytes that are still unread.
ChainsToUnreadData ==
  [][ rx # <<>> /\ received' # received => rx[1].at + rx[1].tot > readAt ]_vars
===============================================================================
