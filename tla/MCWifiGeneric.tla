----------------------------- MODULE MCWifiGeneric -----------------------------
(* An instance of WifiGeneric for TLC. *)
EXTENDS WifiGeneric
===============================================================================
