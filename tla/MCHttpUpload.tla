----------------------------- MODULE MCHttpUpload ------------------------------
(***************************************************************************)
(* Model-checking instance of HttpUpload: a body of three bytes, of known  *)
(* or unknown size, in blocks of at most two, with room for a block and a  *)
(* half in lwIP's send buffer.                                             *)
(***************************************************************************)
EXTENDS HttpUpload
===============================================================================
