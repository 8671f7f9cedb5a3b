------------------------------ MODULE SpiffsHal ------------------------------
(***************************************************************************)
(* The flash access of the file system (cores/esp31b/spiffs_hal.cpp):      *)
(* reads and writes of any address and length on a chip that takes whole   *)
(* words only.  A call is one step here, for nobody else touches the file  *)
(* system's sectors meanwhile; it may end at any of its flash operations,  *)
(* because that fails or power is lost.                                    *)
(*                                                                         *)
(* hal is not program state: the call just made, how it ended, what it     *)
(* returned and the flash before it.  The mark of a source byte is its position.    *)
(***************************************************************************)
EXTENDS Flash

CONSTANTS
  Calls,      \* the <<addr, size>> the file system uses
  Buf,        \* UNALIGNED_WRITE_BUFFER_SIZE
  MaxCalls    \* bound on the calls

\* spiffs is mounted on the file system's sectors and stays within them.
ASSUME HalAssumption ==
  /\ Buf \in Nat \ {0} /\ Buf % Word = 0 /\ MaxCalls \in Nat
  /\ Calls \subseteq Nat \X Nat
  /\ \A c \in Calls : c[1] + c[2] <= FsSectors * Sec

VARIABLES hal, calls

halvars == <<hal, calls>>

HalInit == hal = [op |-> "none"] /\ calls = 0

alignedBegin(addr) == AlignUp(addr)
alignedEnd(addr, size) == Longest(AlignDown(addr + size), alignedBegin(addr))

-------------------------------------------------------------------------------
(* Writing: the requests spiffs_hal_write makes, in their order. *)

\* The byte p places into the caller's source.
Src(p, size) == IF p >= 0 /\ p < size THEN {p} ELSE Junk

\* (Mistake: the head takes as many bytes as it has room for.)
WriteHeadFull(addr, size) ==
  LET ofs == alignedBegin(addr) - addr
  IN  IF ofs = 0 THEN <<>>
      ELSE <<[at    |-> alignedBegin(addr) - Word,
              bytes |-> [j \in 1..Word |-> IF j > Word - ofs THEN Src(j - 1 - (Word - ofs), size) ELSE Blank]]>>

WriteHead(addr, size) ==
  LET ofs == alignedBegin(addr) - addr
      nb  == Shortest(size, ofs)
  IN  IF ofs = 0 THEN <<>>
      ELSE <<[at    |-> alignedBegin(addr) - Word,
              bytes |-> [j \in 1..Word |-> IF j > Word - ofs /\ j <= Word - ofs + nb
                                             THEN Src(j - 1 - (Word - ofs), size) ELSE Blank]]>>

\* From a misaligned source the body goes through a buffer.  srcLeftover is a
\* pointer to words: adding willCopy to it advances by that many words.
WriteBody(addr, size, aligned) ==
  LET begin == alignedBegin(addr)
      total == alignedEnd(addr, size) - begin
      step  == IF aligned THEN Longest(total, 1) ELSE Buf
      Chunk(k) == [at    |-> begin + k * step,
                   bytes |-> [j \in 1..Shortest(step, total - k * step) |->
                               Src(begin - addr + Word * k * step + j - 1, size)]]
  IN  [k \in 1..((total + step - 1) \div step) |-> Chunk(k - 1)]

WriteTail(addr, size) ==
  LET nb == addr + size - alignedEnd(addr, size)
  IN  IF nb <= 0 THEN <<>>
      ELSE <<[at    |-> alignedEnd(addr, size),
              bytes |-> [j \in 1..Word |-> IF j <= nb THEN Src(size - nb + j - 1, size) ELSE Blank]]>>

Requests(addr, size, aligned) ==
  WriteHead(addr, size) \o WriteBody(addr, size, aligned) \o WriteTail(addr, size)

Covers(req, a) == a >= req.at /\ a < req.at + Len(req.bytes)

\* The first k requests carried out.
Done(f, reqs, k) ==
  [a \in Addresses |->
    f[a] \cup UNION {reqs[j].bytes[a - reqs[j].at + 1] : j \in {j \in 1..k : Covers(reqs[j], a)}}]

HalWrite(addr, size, aligned) ==
  LET reqs == Requests(addr, size, aligned)
      Call(ok) == [op |-> "write", addr |-> addr, size |-> size, aligned |-> aligned,
                   ok |-> ok, before |-> flash]
  IN  \/ flash' = Done(flash, reqs, Len(reqs)) /\ hal' = Call(TRUE)
      \/ \E k \in 1..Len(reqs) : \E n \in Cut(reqs[k]) :
           flash' = Programmed(Done(flash, reqs, k - 1), reqs[k], n) /\ hal' = Call(FALSE)

-------------------------------------------------------------------------------
(* Reading. *)

\* The first word: nb bytes go to the front of the destination, taken from
\* &tmp + 4 - nb, a pointer to words that lies past tmp.
ReadHead(addr, p) == Junk

\* (Mistake: the last word is read from where the body began.)
ReadByteEarly(addr, size, p) ==
  LET begin == alignedBegin(addr)
      end   == alignedEnd(addr, size)
  IN  IF p < begin - addr THEN ReadHead(addr, p)
      ELSE IF p < end - addr THEN flash[addr + p]
      ELSE flash[begin + p - (end - addr)]

\* The byte the three parts leave at position p of the destination.
ReadByte(addr, size, p) ==
  LET begin == alignedBegin(addr)
      end   == alignedEnd(addr, size)
  IN  IF p < begin - addr THEN ReadHead(addr, p)
      ELSE IF p < end - addr THEN flash[addr + p]
      ELSE flash[end + p - (end - addr)]

\* How many bytes of the destination are written.
ReadLength(addr, size) == Longest(size, alignedBegin(addr) - addr)

HalRead(addr, size) ==
  /\ UNCHANGED flash
  /\ \/ hal' = [op |-> "read", addr |-> addr, size |-> size, ok |-> TRUE,
                dst |-> [p \in 1..ReadLength(addr, size) |-> ReadByte(addr, size, p - 1)]]
     \/ hal' = [op |-> "read", addr |-> addr, size |-> size, ok |-> FALSE]

-------------------------------------------------------------------------------
(* Erasing. *)

\* (Mistake: one sector too many.)
SectorsFurther(addr, size) == addr \div Sec .. (addr + size) \div Sec

\* The sectors spiffs_hal_erase goes through.
Sectors(addr, size) == addr \div Sec .. (addr + size) \div Sec - 1

\* An erase of n sectors; less than all of them when one fails.
HalErase(addr, size) ==
  /\ addr % Sec = 0 /\ size % Sec = 0
  /\ \E n \in 0..Cardinality(Sectors(addr, size)) :
       /\ flash' = [a \in Addresses |->
                     IF \E s \in Sectors(addr, size) : a \in Sector(s) /\ s < addr \div Sec + n
                       THEN Blank ELSE flash[a]]
       /\ hal' = [op |-> "erase", addr |-> addr, size |-> size,
                  ok |-> n = Cardinality(Sectors(addr, size))]

\* spiffs_hal_erase of less than whole sectors aborts, before any erase.
HalAbort ==
  /\ calls < MaxCalls
  /\ calls' = calls + 1
  /\ \E c \in Calls : ~(c[1] % Sec = 0 /\ c[2] % Sec = 0)
  /\ hal' = [op |-> "none"]

HalStep ==
  /\ calls < MaxCalls
  /\ calls' = calls + 1
  /\ \E c \in Calls :
       \/ \E aligned \in BOOLEAN : HalWrite(c[1], c[2], aligned)
       \/ HalRead(c[1], c[2])
       \/ HalErase(c[1], c[2])

-------------------------------------------------------------------------------
(* Correctness. *)

\* The position in the source that belongs at a, and what is to be there.
Written(a) == hal.before[a] \cup {a - hal.addr}
Asked(a) == a >= hal.addr /\ a < hal.addr + hal.size

\* spiffs_hal_write programs exactly the bytes it was given, each where it
\* belongs, and leaves the rest of the first and last word alone; a call that
\* failed has done some of that and nothing else.  Not covered: a misaligned
\* source that does not fit the buffer.
WriteExact ==
  hal.op = "write"
    /\ (hal.aligned \/ alignedEnd(hal.addr, hal.size) - alignedBegin(hal.addr) <= Buf) =>
    \A a \in 0..FsSectors * Sec - 1 :
      IF Asked(a) THEN flash[a] = Written(a) \/ (~hal.ok /\ flash[a] = hal.before[a])
                  ELSE flash[a] = hal.before[a]

\* A successful read from a word boundary returns exactly the stored bytes, and
\* as many as were asked for.
AlignedReadExact ==
  hal.op = "read" /\ hal.ok /\ hal.addr % Word = 0 =>
    hal.dst = [p \in 1..hal.size |-> flash[hal.addr + p - 1]]
===============================================================================
