------------------------------ MODULE DnsServer ------------------------------
(***************************************************************************)
(* The captive-portal DNS server (libraries/DNSServer/src/DNSServer.cpp)   *)
(* on top of its UDP socket: the sketch calls processNextRequest() from    *)
(* loop() and queries arrive meanwhile.                                    *)
(*                                                                         *)
(* A query's body is "match" (one question, for the served name), "other"  *)
(* or "response".  A byte of a packet is <<datagram, position>>; the first *)
(* two are the identification and the flags.  A reply to a packet shorter  *)
(* than a header is made past the end of the buffer malloc'ed for it: what  *)
(* lies there may be nobody's, or the system may fail of it at any time    *)
(* after (Crash).  lost and overrun are not program state: the datagrams   *)
(* given up when memory ran out or the socket was replaced, and whether    *)
(* such a reply was made.                                                  *)
(***************************************************************************)
EXTENDS UdpContext

CONSTANTS
  Header,   \* sizeof(DNSHeader)
  JUNK      \* a byte that was never received

Bodies == {"match", "other", "response"}

ASSUME HeaderAssumption ==
  /\ Header \in Nat /\ Header >= 2
  /\ \A d \in Datagrams : d.body \in Bodies

VARIABLES
  dpc,      \* where processNextRequest() is
  buffer,   \* _buffer: NONE, or the bytes of the request
  todo,     \* the write() calls the reply still has to make
  lost, overrun

dnsvars == <<dpc, buffer, todo, lost, overrun>>
vars == <<udpvars, dnsvars>>

Init == UdpInit /\ dpc = "out" /\ buffer = NONE /\ todo = <<>> /\ lost = {}
        /\ overrun = FALSE

\* What processNextRequest() takes a packet for: below the size of a header the
\* fields it tests lie past the end of its buffer.
Reading(d) == IF d.len < Header THEN Bodies ELSE {d.body}

\* start(), also when the server is running.
Start ==
  /\ dpc = "out"
  /\ BeginUdp
  /\ lost' = lost \cup Range(rx)
  /\ buffer' = NONE
  /\ UNCHANGED <<dpc, todo, overrun>>

Stop ==
  /\ dpc = "out" /\ ctx # "none"
  /\ StopUdp
  /\ lost' = lost \cup Range(rx)
  /\ buffer' = NONE
  /\ UNCHANGED <<dpc, todo, overrun>>

Arrive == \E d \in Datagrams : Recv(d) /\ UNCHANGED dnsvars

\* processNextRequest() up to the return of parsePacket().  Without a datagram
\* it changes nothing.
ParsePacket ==
  /\ dpc = "out" /\ ctx # "none"
  /\ \/ NextFirst /\ dpc' = "got"
     \/ NextLoad /\ dpc' = "parse"
  /\ UNCHANGED <<buffer, todo, lost, overrun>>

ParseStep ==
  /\ dpc = "parse"
  /\ \/ (NextStore \/ NextRef) /\ UNCHANGED dpc
     \/ NextFree /\ dpc' = IF rx = <<>> THEN "out" ELSE "got"
  /\ UNCHANGED <<buffer, todo, lost, overrun>>

\* _currentPacketSize is 0, or malloc fails.
GiveUp ==
  /\ dpc = "got"
  /\ dpc' = "out"
  /\ lost' = IF Size = 0 THEN lost ELSE lost \cup {rx[1]}
  /\ UNCHANGED <<udpvars, buffer, todo, overrun>>

\* The answer after the question: the calls of write() at lines 128-142.
Answer == << <<"name">>, <<"type">>, <<"ttl", "ttl">>, <<"ip", "ip">> >>

\* The first n bytes of the buffer, the reply's fields set in its header.
Replying(bytes, code, n) == SubSeq([bytes EXCEPT ![2] = code], 1, n)

\* replyWithIP, replyWithCustomCode
ReplyWrites(bytes, kind, size) ==
  IF kind = "match"
    THEN <<Replying(bytes, "ok", size)>> \o Answer
    ELSE <<Replying(bytes, "error", Header)>>

\* The size bytes of the packet, and what lies after them up to a header's size.
Request(d, size) ==
  [i \in 1..(IF size < Header THEN Header ELSE size) |->
    IF i <= size THEN <<d, off + i>> ELSE JUNK]

\* read() takes the packet, whatever of it is left, and its header is looked at.
ReadRequest ==
  /\ dpc = "got" /\ Size # 0
  /\ ReadBytes(Size)
  /\ \E kind \in Reading(gram[rx[1]]) :
       IF kind = "response"
         THEN dpc' = "out" /\ UNCHANGED <<buffer, todo, overrun>>
         ELSE /\ dpc' = "begin"
              /\ overrun' = (overrun \/ Size < Header)
              /\ buffer' = Request(rx[1], Size)
              /\ todo' = ReplyWrites(Request(rx[1], Size), kind, Size)
  /\ UNCHANGED lost

\* (Mistake: the reply goes to whoever asked last.)
ReplyToNewest ==
  /\ dpc = "begin"
  /\ BeginPacket(remoteIP(gram[Last(rx)]))
  /\ dpc' = "write"
  /\ UNCHANGED <<buffer, todo, lost, overrun>>

\* beginPacket(remoteIP(), remotePort())
BeginReply ==
  /\ dpc = "begin"
  /\ BeginPacket(remoteIP(gram[rx[1]]))
  /\ dpc' = "write"
  /\ UNCHANGED <<buffer, todo, lost, overrun>>

WriteReply ==
  /\ dpc = "write"
  /\ \/ AppendStep /\ UNCHANGED todo
     \/ left = <<>> /\ todo # <<>> /\ Write(Head(todo)) /\ todo' = Tail(todo)
  /\ UNCHANGED <<dpc, buffer, lost, overrun>>

EndReply ==
  /\ dpc = "write" /\ left = <<>> /\ todo = <<>>
  /\ EndPacket
  /\ dpc' = "out" /\ buffer' = NONE
  /\ UNCHANGED <<todo, lost, overrun>>

\* The heap was written to behind a short request, and the system fails of it.
Crash ==
  /\ overrun
  /\ Restart
  /\ lost' = lost \cup Range(rx)
  /\ dpc' = "out" /\ buffer' = NONE /\ todo' = <<>> /\ overrun' = FALSE

ProcessNextRequest ==
  ParsePacket \/ ParseStep \/ GiveUp \/ ReadRequest \/ BeginReply \/ WriteReply \/ EndReply

Next == Start \/ Stop \/ Arrive \/ ProcessNextRequest \/ Crash

Spec == Init /\ [][Next]_vars

\* loop() calls processNextRequest() again and again, and a call runs to its end.
FairSpec == Spec /\ WF_vars(ProcessNextRequest)

-------------------------------------------------------------------------------
(* Correctness. *)

\* The query a reply answers.
Of(reply) == reply.data[1][1]

\* The bytes of the answer after the question.
AnswerLen == Len(Answer[1]) + Len(Answer[2]) + Len(Answer[3]) + Len(Answer[4])

\* A reply goes to the one who asked, unless the query came with IP options,
\* with the identification of that query,
\* and is the header, or the request and the address, as its flags say; a
\* whole query gets the address exactly if it is for the served name.  No query
\* is answered twice, though next() may present one twice.
Replies ==
  \A i \in DOMAIN sent :
    LET d     == Of(sent[i])
        data  == sent[i].data
    IN  /\ ~gram[d].options => sent[i].to = gram[d].from
        /\ data[1] = <<d, 1>>
        /\ Len(data) \in {Header, gram[d].len + AnswerLen}
        /\ gram[d].len >= 2 =>
             \/ data[2] = "ok" /\ Len(data) = gram[d].len + AnswerLen
             \/ data[2] = "error" /\ Len(data) = Header
        /\ gram[d].len >= Header => (data[2] = "ok" <=> gram[d].body = "match")
        /\ \A j \in DOMAIN sent : Of(sent[j]) = d => i = j

Query(i) == gram[i].len >= Header /\ gram[i].body # "response"

\* A query that waits is answered, unless memory ran out for it, the socket was
\* replaced, the system failed, or a datagram came inside next() as it left the
\* last.
QueryAnswered ==
  \A i \in 1..MaxDatagrams :
    i \in Range(rx) /\ Query(i)
      ~> i \in lost \/ raced \/ \E j \in DOMAIN sent : Of(sent[j]) = i
===============================================================================
