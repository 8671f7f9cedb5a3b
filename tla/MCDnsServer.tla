----------------------------- MODULE MCDnsServer -----------------------------
(* An instance of DnsServer for TLC: two who ask, packets empty, shorter than *)
(* a header, and longer, and one with IP options.                             *)
EXTENDS DnsServer

Datagram(p, options, len, body) == [from |-> p, options |-> options, len |-> len, body |-> body]

MCDatagrams ==
  {Datagram("A", FALSE, 4, "match"), Datagram("B", FALSE, 4, "match"), Datagram("B", TRUE, 3, "other"),
   Datagram("A", FALSE, 0, "other"), Datagram("A", FALSE, 1, "match"), Datagram("B", FALSE, 3, "response")}
===============================================================================
