----------------------------- MODULE MCFlashStore -----------------------------
(* An instance of FlashStore for TLC. *)
EXTENDS FlashStore

MCSizes == {0, 3, 9}
MCPlaces == {-1, 1, 5, 8}
MCValues == {{1}}

\* Calls within a word, over one and two word boundaries, and to the end of the
\* file system.
MCCalls ==
  {<<0, 0>>, <<0, 3>>, <<4, 7>>, <<1, 2>>, <<3, 1>>, <<3, 6>>, <<5, 11>>, <<8, 8>>, <<0, 16>>}
===============================================================================
