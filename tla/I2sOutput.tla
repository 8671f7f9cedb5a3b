------------------------------- MODULE I2sOutput -------------------------------
(***************************************************************************)
(* The I2S half of cores/esp31b/core_esp31b_i2s.c on top of its DMA half:  *)
(* i2s_begin calls i2s_slc_begin, which enables the interrupt and starts   *)
(* the engine, and then sets up the pins and the I2S block, clearing I2SIE *)
(* on the way; i2s_end calls i2s_slc_end.  Both run in the writer's task.  *)
(***************************************************************************)
EXTENDS I2sDma

VARIABLE stage  \* "off", "setup" inside i2s_begin after i2s_slc_begin, or "on"

outvars == <<i2svars, stage>>

OutputInit == I2sInit /\ stage = "off"

BeginDma == stage # "setup" /\ Begin /\ stage' = "setup"

\* The rest of i2s_begin: a status that is masked reads as 0, so the handler has
\* nothing left to do.
BeginI2s == stage = "setup" /\ Mask /\ stage' = "on"

OutputEnd == stage = "on" /\ End /\ stage' = "off"

OutputWriter == stage # "setup" /\ Writer /\ UNCHANGED stage

Background == (Finish \/ Isr) /\ UNCHANGED stage

OutputNext == BeginDma \/ BeginI2s \/ OutputEnd \/ OutputWriter \/ Background

OutputFairSpec ==
  /\ OutputInit /\ [][OutputNext]_outvars
  /\ WF_outvars(BeginI2s) /\ WF_outvars(OutputWriter)
  /\ WF_outvars(Finish /\ UNCHANGED stage) /\ WF_outvars(Isr /\ UNCHANGED stage)

\* The comment on i2s_write_sample, "it will suspend the calling thread if the
\* buffer is full and resume when there's room again": a writer that waits
\* while the engine plays gets a buffer.
ResumesWhenRoom ==
  (stage = "on" /\ wpc = "idle" /\ NeedsBuffer /\ wrote < MaxSamples /\ playing)
    ~> (wpc = "store" \/ ~playing)
===============================================================================
