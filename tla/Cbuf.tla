--------------------------------- MODULE Cbuf ---------------------------------
(***************************************************************************)
(* class cbuf (cores/esp31b/cbuf.cpp, cbuf.h): the byte ring buffer.       *)
(*                                                                         *)
(* Pointers are offsets from _buf, so _buf is 0 and _bufend is size.  The  *)
(* ring never stores more than size - 1 bytes, because begin = end means   *)
(* empty.  An operation that would copy outside the allocation makes memory *)
(* "corrupt": from then on the program's behaviour is undefined and the    *)
(* model stops.                                                            *)
(* A definition marked "Mistake" is not part of the model: it is a plausible *)
(* error in the definition below it, kept to show that a property would    *)
(* catch it.                                                               *)
(***************************************************************************)
EXTENDS Integers, Sequences

CONSTANTS
  Byte,         \* the byte values
  Junk,         \* the content of memory nobody has written
  Chunks,       \* the sources a caller hands to write(src, n)
  Counts,       \* the lengths a caller hands to read, peek, remove
  Sizes,        \* the sizes handed to the constructor and to resize
  SizeT,        \* 2^w for the w bits of size_t
  ShrinkToFit   \* may a caller resize to exactly the number of stored bytes?

ASSUME CbufAssumption ==
  /\ Junk \notin Byte
  /\ Chunks \subseteq Seq(Byte)
  /\ Counts \subseteq Nat
  /\ Sizes \subseteq Nat \ {0}
  /\ SizeT \in Nat
  /\ \A n \in Sizes : n < SizeT
  /\ \A s \in Chunks : Len(s) < SizeT
  /\ ShrinkToFit \in BOOLEAN

VARIABLES
  size,     \* _size
  buf,      \* the allocation _buf points to
  begin,    \* _begin - _buf
  end,      \* _end - _buf
  memory,   \* "intact" until an operation copies outside the allocation
  ret,      \* the number the last operation returned; for peek() and read(),
            \* whose answer is a byte or -1, how many bytes they handed out
  out       \* the bytes the last operation handed out

vars == <<size, buf, begin, end, memory, ret, out>>

Smaller(a, b) == IF a < b THEN a ELSE b

-------------------------------------------------------------------------------
(* The observers. *)

available == IF end >= begin THEN end - begin ELSE size - (begin - end)

\* (Mistake: the slot that tells a full ring from an empty one forgotten.)
RoomNoSpare == IF end >= begin THEN size - (end - begin) ELSE begin - end

\* (Mistake: the empty ring taken for a wrapped one.)
RoomEmptyWrapped == IF end > begin THEN size - (end - begin) - 1 ELSE (begin - end - 1) % SizeT

room == IF end >= begin
          THEN (size - (end - begin) - 1) % SizeT
          ELSE (begin - end - 1) % SizeT

wrap_if_bufend(p) == IF p = size THEN 0 ELSE p

empty == begin = end

full == wrap_if_bufend(end + 1) = begin

\* The allocation after memcpy(_buf + at, s): only bytes inside it change.
MemCpy(b, at, s) ==
  [j \in DOMAIN b |-> IF at <= j /\ j < at + Len(s) THEN s[j - at + 1] ELSE b[j]]

\* Memory after a copy that did or did not run over the end.
After(ranOver) == IF ranOver THEN "corrupt" ELSE "intact"

\* The n bytes from offset at.
Slice(at, n) == [i \in 1..n |-> buf[at + i - 1]]

\* The first n stored bytes, as read() and peek() copy them out: up to
\* _bufend, then from _buf.
Front(n) ==
  IF end < begin /\ n > size - begin
    THEN Slice(begin, size - begin) \o Slice(0, n - (size - begin))
    ELSE Slice(begin, n)

\* (Mistake: after the wrap the rest of the count forgotten.)
AdvanceToStart(n) ==
  IF end < begin /\ n > size - begin THEN 0 ELSE wrap_if_bufend(begin + n)

\* Where _begin is after n bytes have been taken.
Advance(n) ==
  IF end < begin /\ n > size - begin
    THEN wrap_if_bufend(n - (size - begin))
    ELSE wrap_if_bufend(begin + n)

-------------------------------------------------------------------------------
(* The operations. *)

Init ==
  /\ size \in Sizes
  /\ buf = [j \in 0..size - 1 |-> Junk]
  /\ begin = 0
  /\ end = 0
  /\ memory = "intact"
  /\ ret = 0
  /\ out = <<>>

\* resize(newSize): refused if bytes would be lost or nothing would change.
DoResize(newSize) ==
  /\ out' = <<>>
  /\ IF newSize < available \/ newSize = size
       THEN /\ ret' = size
            /\ UNCHANGED <<size, buf, begin, end, memory>>
       ELSE /\ buf' = [j \in 0..newSize - 1 |->
                         IF j < available THEN Front(available)[j + 1] ELSE 0]
            /\ begin' = 0
            /\ end' = available
            /\ size' = newSize
            /\ ret' = newSize
            /\ UNCHANGED memory

Resize(newSize) ==
  /\ memory = "intact"
  /\ ShrinkToFit \/ newSize # available
  /\ DoResize(newSize)

ResizeAdd(addSize) ==
  /\ memory = "intact"
  /\ size + addSize \in Sizes
  /\ DoResize(size + addSize)

PeekChar ==
  /\ memory = "intact"
  /\ out' = IF empty THEN <<>> ELSE <<buf[begin]>>
  /\ ret' = IF empty THEN 0 ELSE 1
  /\ UNCHANGED <<size, buf, begin, end, memory>>

Peek(n) ==
  LET m == Smaller(n, available) IN
  /\ memory = "intact"
  /\ out' = Front(m)
  /\ ret' = m
  /\ UNCHANGED <<size, buf, begin, end, memory>>

ReadChar ==
  /\ memory = "intact"
  /\ out' = IF empty THEN <<>> ELSE <<buf[begin]>>
  /\ ret' = IF empty THEN 0 ELSE 1
  /\ begin' = IF empty THEN begin ELSE wrap_if_bufend(begin + 1)
  /\ UNCHANGED <<size, buf, end, memory>>

Read(n) ==
  LET m == Smaller(n, available) IN
  /\ memory = "intact"
  /\ out' = Front(m)
  /\ ret' = m
  /\ begin' = Advance(m)
  /\ UNCHANGED <<size, buf, end, memory>>

WriteChar(c) ==
  /\ memory = "intact"
  /\ out' = <<>>
  /\ IF full
       THEN ret' = 0 /\ UNCHANGED <<buf, end, memory>>
       ELSE /\ ret' = 1
            /\ buf' = MemCpy(buf, end, <<c>>)
            /\ memory' = After(end >= size)
            /\ end' = wrap_if_bufend(end + 1)
  /\ UNCHANGED <<size, begin>>

Write(src) ==
  LET n     == Smaller(Len(src), room)
      split == end >= begin /\ n > size - end
      top   == size - end
  IN
  /\ memory = "intact"
  /\ out' = <<>>
  /\ ret' = n
  /\ IF split
       THEN /\ buf' = MemCpy(MemCpy(buf, end, SubSeq(src, 1, top)), 0, SubSeq(src, top + 1, n))
            /\ end' = wrap_if_bufend(n - top)
            /\ memory' = After(n - top > size)
       ELSE /\ buf' = MemCpy(buf, end, SubSeq(src, 1, n))
            /\ end' = wrap_if_bufend(end + n)
            /\ memory' = After(end + n > size)
  /\ UNCHANGED <<size, begin>>

Flush ==
  /\ memory = "intact"
  /\ begin' = 0
  /\ end' = 0
  /\ ret' = 0
  /\ out' = <<>>
  /\ UNCHANGED <<size, buf, memory>>

Remove(n) ==
  /\ memory = "intact"
  /\ UNCHANGED <<size, buf, memory>>
  /\ IF n >= available
       THEN begin' = 0 /\ end' = 0
       ELSE begin' = Advance(n) /\ UNCHANGED end
  /\ ret' = available'
  /\ out' = <<>>

Next ==
  \/ \E n \in Sizes : Resize(n) \/ ResizeAdd(n)
  \/ \E n \in Counts : Peek(n) \/ Read(n) \/ Remove(n)
  \/ PeekChar
  \/ ReadChar
  \/ \E c \in Byte : WriteChar(c)
  \/ \E s \in Chunks : Write(s)
  \/ Flush

Spec == Init /\ [][Next]_vars

-------------------------------------------------------------------------------
(* Correctness. *)

TypeOK ==
  /\ size \in Sizes
  /\ buf \in [0..size - 1 -> Byte \cup {Junk, 0}]
  /\ begin \in 0..size - 1
  /\ end \in 0..size - 1
  /\ memory \in {"intact", "corrupt"}
  /\ ret \in Nat
  /\ out \in Seq(Byte)

\* The stored bytes, oldest first, in terms of the ring alone.
RingAt(i) == IF begin + i - 1 < size THEN begin + i - 1 ELSE begin + i - 1 - size

Contents == [i \in 1..available |-> buf[RingAt(i)]]

\* No write ever copies past the end of the allocation: room() and the split
\* at _bufend never let size_to_write exceed the memory behind _end (cbuf.cpp
\* 144-158), however the ring was wrapped and resized before.
InBounds == memory = "intact"

\* Only bytes that were written are ever stored between _begin and _end: the
\* uninitialised and the zero-filled part of an allocation is never readable.
OnlyWrittenBytes == \A i \in 1..available : buf[RingAt(i)] \in Byte

\* available() and room() always add up to size - 1, also when room()'s
\* subtraction is done modulo 2^w, and full() agrees with room().
RoomExact ==
  /\ available + room = size - 1
  /\ full <=> room = 0
  /\ empty <=> available = 0

\* The ring is a bounded FIFO: it implements BoundedFifo under the mapping
\* that reads the stored bytes from _begin to _end around the ring.
Fifo == INSTANCE BoundedFifo
          WITH q <- Contents, cap <- size - 1, Caps <- {n - 1 : n \in Sizes},
               Chunks <- Chunks \cup {<<c>> : c \in Byte}, Counts <- Counts \cup {1}

ImplementsFifo == Fifo!Spec
===============================================================================
