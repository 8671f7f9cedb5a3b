-------------------------- MODULE MCClientContextRx ---------------------------
(***************************************************************************)
(* Model-checking instance of ClientContextRx: pbufs of one and two bytes, *)
(* a window of four bytes, so that chains of up to four pbufs arise, reads *)
(* end inside, at the end of and beyond the head pbuf, and the window      *)
(* closes.                                                                 *)
(***************************************************************************)
EXTENDS ClientContextRx
===============================================================================
