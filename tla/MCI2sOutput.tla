------------------------------ MODULE MCI2sOutput ------------------------------
(***************************************************************************)
(* Model-checking instance of I2sOutput: three buffers of two samples,     *)
(* four samples, one run.                                                  *)
(***************************************************************************)
EXTENDS I2sOutput
===============================================================================
