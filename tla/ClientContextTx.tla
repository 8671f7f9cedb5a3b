---------------------------- MODULE ClientContextTx ----------------------------
(***************************************************************************)
(* The send side of class ClientContext                                    *)
(* (libraries/ESP31BWiFi/src/include/ClientContext.h): write(), run by the *)
(* sketch's loop task, which hands its data to lwIP and then polls         *)
(* _size_sent for up to five seconds, and _sent(), run by lwIP's tcpip     *)
(* thread for every acknowledgement, which subtracts from _size_sent.      *)
(*                                                                         *)
(* The tcpip thread has the higher priority: a callback is one step and    *)
(* may come between any two statements of write().  _size_sent is a size_t *)
(* that the constructor leaves uninitialised and that _sent() decreases    *)
(* whoever's bytes were acknowledged; it is kept modulo SizeT.             *)
(*                                                                         *)
(* queued, acked, armed, and reported are not program state: they count    *)
(* the bytes handed to lwIP, acknowledged, acknowledged when the last wait *)
(* began, and claimed by the values write() returned.                      *)
(***************************************************************************)
EXTENDS Integers

CONSTANTS
  SndBuf,     \* TCP_SND_BUF
  SizeT,      \* one more than the largest size_t
  Sizes,      \* sizes a sketch passes to write()
  MaxQueued   \* bound on the bytes a sketch writes

ASSUME TxAssumption ==
  /\ SndBuf \in Nat
  /\ SizeT \in Nat
  /\ SndBuf < SizeT
  /\ Sizes \subseteq Nat
  /\ MaxQueued \in Nat

VARIABLES
  pcb,        \* _pcb: "open", or "none" once it is 0
  tx,         \* where the loop task is inside write()
  asked,      \* the size argument of the write() in progress
  will_send,  \* its local will_send
  size_sent,  \* _size_sent
  ret,        \* what the last write() returned
  queued, acked, armed, reported

txvars == <<pcb, tx, asked, will_send, size_sent, ret, queued, acked, armed, reported>>

\* "fault": _pcb was tested, has become 0 since and is handed to lwIP.
TxPlaces == {"idle", "entered", "queued", "wait", "fault"}

unacked == queued - acked

\* tcp_sndbuf: pcb->snd_buf, which tcp_write lowers and an acknowledgement raises.
tcp_sndbuf == SndBuf - unacked

\* The smaller of the room and the size asked for.
WillSend == IF tcp_sndbuf < asked THEN tcp_sndbuf ELSE asked

TxInit ==
  /\ pcb = "open"
  /\ tx = "idle"
  /\ asked = 0
  /\ will_send = 0
  /\ size_sent \in 0..SizeT - 1
  /\ ret = 0
  /\ queued = 0
  /\ acked = 0
  /\ armed = 0
  /\ reported = 0

\* write(data, n) is entered; without a connection or a byte it returns 0.
Call(n) ==
  /\ tx = "idle"
  /\ asked' = n
  /\ tx' = IF pcb = "open" /\ n > 0 THEN "entered" ELSE "idle"
  /\ ret' = 0
  /\ UNCHANGED <<pcb, will_send, size_sent, queued, acked, armed, reported>>

\* tcp_write copies the data into pbufs of its own: write() does not ask for it,
\* but with LWIP_NETIF_TX_SINGLE_PBUF it always does.
Queue ==
  /\ tx = "entered"
  /\ pcb = "open"
  /\ will_send' = WillSend
  /\ queued' = queued + WillSend
  /\ tx' = "queued"
  /\ UNCHANGED <<pcb, asked, size_sent, ret, acked, armed, reported>>

\* tcp_write fails: write() returns 0.
QueueFails ==
  /\ tx = "entered"
  /\ pcb = "open"
  /\ will_send' = WillSend
  /\ tx' = "idle"
  /\ UNCHANGED <<pcb, asked, size_sent, ret, queued, acked, armed, reported>>

\* _size_sent = will_send; tcp_output.
Arm ==
  /\ tx = "queued"
  /\ pcb = "open"
  /\ size_sent' = will_send
  /\ armed' = acked
  /\ tx' = "wait"
  /\ UNCHANGED <<pcb, asked, will_send, ret, queued, acked, reported>>

\* The connection went away after write() tested _pcb.
Fault ==
  /\ tx \in {"entered", "queued"}
  /\ pcb = "none"
  /\ tx' = "fault"
  /\ UNCHANGED <<pcb, asked, will_send, size_sent, ret, queued, acked, armed, reported>>

\* return will_send - _size_sent
\* (Mistake: the whole of the request is claimed.)
ClaimAll ==
  /\ ret' = asked
  /\ reported' = reported + ret'
  /\ tx' = "idle"
  /\ UNCHANGED <<pcb, asked, will_send, size_sent, queued, acked, armed>>

Claim ==
  /\ ret' = (will_send - size_sent) % SizeT
  /\ reported' = reported + ret'
  /\ tx' = "idle"
  /\ UNCHANGED <<pcb, asked, will_send, size_sent, queued, acked, armed>>

\* The loop sees that _size_sent has changed.
Return == tx = "wait" /\ size_sent # will_send /\ Claim

\* Five seconds have passed.
\* (Mistake: without an acknowledgement the loop goes on.)
TimeoutNeedsAck == tx = "wait" /\ size_sent # will_send /\ Claim

Timeout == tx = "wait" /\ Claim

-------------------------------------------------------------------------------
(* The tcpip thread. *)

\* _sent: n more bytes are acknowledged.
Sent(n) ==
  /\ pcb = "open"
  /\ n \in 1..unacked
  /\ acked' = acked + n
  /\ size_sent' = (size_sent - n) % SizeT
  /\ UNCHANGED <<pcb, tx, asked, will_send, ret, queued, armed, reported>>

\* _error, or _recv at the end of the stream.
Disconnected ==
  /\ pcb = "open"
  /\ pcb' = "none"
  /\ UNCHANGED <<tx, asked, will_send, size_sent, ret, queued, acked, armed, reported>>

\* Everything write() does once it has been called.
WriteStep == Queue \/ QueueFails \/ Arm \/ Fault \/ Return \/ Timeout

TxNext ==
  \/ \E n \in Sizes : queued + n <= MaxQueued /\ Call(n)
  \/ WriteStep
  \/ \E n \in 1..SndBuf : Sent(n)
  \/ Disconnected

TxSpec == TxInit /\ [][TxNext]_txvars

-------------------------------------------------------------------------------
(* Correctness. *)

TxTypeOK ==
  /\ pcb \in {"open", "none"}
  /\ tx \in TxPlaces
  /\ asked \in Nat
  /\ will_send \in 0..SndBuf
  /\ size_sent \in 0..SizeT - 1
  /\ ret \in Nat
  /\ queued \in Nat
  /\ acked \in Nat
  /\ armed \in Nat
  /\ reported \in Nat

\* lwIP is never handed more than its send buffer holds.
InFlightBounded == acked <= queued /\ unacked <= SndBuf

\* write() never claims a byte the peer has not acknowledged, and claims no
\* acknowledgement twice, although _size_sent runs below zero when the bytes
\* of an earlier write() are acknowledged late.
ReportsAcknowledged == reported <= acked
===============================================================================
