------------------------------- MODULE MCWebForm -------------------------------
(* An instance of WebForm for TLC: a boundary of one byte.                     *)
EXTENDS WebForm

MCBoundary == <<"b">>
MCQuery == <<-1>>
MCBytes == {CR, LF, DASH, "b"}
===============================================================================
