------------------------------- MODULE MCI2sDma --------------------------------
(***************************************************************************)
(* Model-checking instance of I2sDma: three buffers of two samples, six    *)
(* samples and two runs.                                                   *)
(***************************************************************************)
EXTENDS I2sDma
===============================================================================
