----------------------------- MODULE BoundedFifo -----------------------------
(***************************************************************************)
(* What a byte queue of fixed capacity promises its user: bytes come out   *)
(* in the order they went in, each exactly once; a write takes as many     *)
(* bytes as there is room for; a resize keeps every stored byte.  It is    *)
(* the abstract specification that Cbuf (class cbuf) implements.           *)
(***************************************************************************)
EXTENDS Naturals, Sequences

CONSTANTS
  Byte,     \* the byte values
  Chunks,   \* the sources a caller hands to write()
  Counts,   \* the lengths a caller hands to read(), peek() and remove()
  Caps      \* the capacities a queue may have

VARIABLES
  q,        \* the stored bytes, oldest first
  cap,      \* how many bytes fit
  ret,      \* the number the last operation returned
  out       \* the bytes the last operation handed out

vars == <<q, cap, ret, out>>

Least(a, b) == IF a < b THEN a ELSE b

Init ==
  /\ cap \in Caps
  /\ q = <<>>
  /\ ret = 0
  /\ out = <<>>

Put(s) ==
  LET n == Least(Len(s), cap - Len(q)) IN
  /\ q' = q \o SubSeq(s, 1, n)
  /\ ret' = n
  /\ out' = <<>>
  /\ UNCHANGED cap

Get(n) ==
  LET m == Least(n, Len(q)) IN
  /\ out' = SubSeq(q, 1, m)
  /\ q' = SubSeq(q, m + 1, Len(q))
  /\ ret' = m
  /\ UNCHANGED cap

Look(n) ==
  LET m == Least(n, Len(q)) IN
  /\ out' = SubSeq(q, 1, m)
  /\ ret' = m
  /\ UNCHANGED <<q, cap>>

Drop(n) ==
  /\ q' = SubSeq(q, Least(n, Len(q)) + 1, Len(q))
  /\ ret' = Len(q) - Least(n, Len(q))
  /\ out' = <<>>
  /\ UNCHANGED cap

Clear ==
  /\ q' = <<>>
  /\ ret' = 0
  /\ out' = <<>>
  /\ UNCHANGED cap

\* A resize either takes place, keeping the bytes, or is refused.
Resize ==
  /\ cap' \in {cap} \cup {c \in Caps : c >= Len(q)}
  /\ ret' = cap' + 1
  /\ out' = <<>>
  /\ UNCHANGED q

Next ==
  \/ \E s \in Chunks : Put(s)
  \/ \E n \in Counts : Get(n) \/ Look(n) \/ Drop(n)
  \/ Clear
  \/ Resize

Spec == Init /\ [][Next]_vars
==============================================================================
