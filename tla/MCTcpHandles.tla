----------------------------- MODULE MCTcpHandles ------------------------------
(***************************************************************************)
(* Model-checking instance of TcpHandles: two WiFiClient objects, three    *)
(* contexts and one connect, enough for shared contexts, a chain of three  *)
(* accepted ones, and an answer that comes late, to an object that holds   *)
(* another context or is gone.  Several connects are left to the proofs:   *)
(* they multiply the states that the liveness property has to look at.     *)
(***************************************************************************)
EXTENDS TcpHandles
===============================================================================
