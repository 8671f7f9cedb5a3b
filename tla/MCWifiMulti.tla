------------------------------ MODULE MCWifiMulti ------------------------------
(* An instance of WifiMulti for TLC: two scans of at most seven networks, an   *)
(* int8_t of -3..2, so that every count it cannot hold comes up, two names,    *)
(* two levels, at most two entries in the list.                                *)
EXTENDS WifiMulti
===============================================================================
