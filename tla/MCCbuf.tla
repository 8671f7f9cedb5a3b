-------------------------------- MODULE MCCbuf --------------------------------
(***************************************************************************)
(* Model-checking instance of Cbuf: every ring of 1 to MaxSize bytes and   *)
(* sources of up to MaxSource bytes, so that wrapping, filling, resizing   *)
(* in both directions and partial writes all happen.                       *)
(***************************************************************************)
EXTENDS Cbuf

CONSTANTS MaxSize, MaxSource

MCChunks == UNION {[1..n -> Byte] : n \in 0..MaxSource}

MCCounts == 0..MaxSource

MCSizes == 1..MaxSize
===============================================================================
