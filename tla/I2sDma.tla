-------------------------------- MODULE I2sDma ---------------------------------
(***************************************************************************)
(* The DMA half of cores/esp31b/core_esp31b_i2s.c, up to its "END DMA":    *)
(* the DMA engine plays a ring of buffers for ever; its interrupt handler  *)
(* zeroes each finished buffer and queues it for the writer, which fills   *)
(* the buffers it takes from the front of the queue.  I2sOutput adds the   *)
(* I2S half.                                                               *)
(*                                                                         *)
(* Three actors: the engine, which waits for nobody; the handler, which    *)
(* runs some time after the engine has raised its interrupt and finds the  *)
(* last finished buffer in SLCRXEDA; and the writer, whose pop runs with   *)
(* the interrupt off but whose tests and stores do not.                    *)
(*                                                                         *)
(* Samples are numbered in the order they are written; 0 is silence.       *)
(* heard, missed, lapped and stale are not program state: the last sample  *)
(* played, and whether the engine finished a buffer that the handler is    *)
(* not told of (the interrupt is masked, or still pending for the one      *)
(* before), reached a buffer the writer was filling, or was started again  *)
(* while the writer held a buffer of the earlier run.                      *)
(***************************************************************************)
EXTENDS Integers, Sequences

CONSTANTS
  BufCnt,      \* SLC_BUF_CNT
  BufLen,      \* SLC_BUF_LEN, in samples
  MaxSamples,  \* bound on the samples written
  MaxRuns      \* bound on the calls of i2s_slc_begin

ASSUME I2sAssumption ==
  /\ BufCnt \in Nat /\ BufCnt > 1
  /\ BufLen \in Nat \ {0}
  /\ MaxSamples \in Nat
  /\ MaxRuns \in Nat

Bufs == 0..BufCnt - 1
None == BufCnt

VARIABLES
  run,       \* which i2s_slc_begin the buffers belong to; 0 before the first
  playing,   \* whether the engine runs
  dma,       \* the buffer the engine is playing
  eda,       \* SLCRXEDA: the buffer it finished last
  ie,        \* I2SIE: the end of a buffer raises the interrupt
  intr,      \* the interrupt is pending
  mem,       \* the samples in each buffer
  queue,     \* i2s_slc_queue
  curr,      \* i2s_curr_slc_buf; None for NULL
  currRun,   \* the run curr was taken in
  pos,       \* i2s_curr_slc_buf_pos
  wpc,       \* the writer: "idle", or "store" inside i2s_write_sample
  wrote,     \* samples written
  heard, missed, lapped, stale

i2svars == <<run, playing, dma, eda, ie, intr, mem, queue, curr, currRun, pos, wpc, wrote,
          heard, missed, lapped, stale>>

Silence == [i \in 1..BufLen |-> 0]
Succ(b) == (b + 1) % BufCnt

\* The writer may still store into buffer b.
Filling(b) == curr = b /\ currRun = run /\ pos < BufLen

I2sInit ==
  /\ run = 0
  /\ playing = FALSE
  /\ dma = 0
  /\ eda = 0
  /\ ie = FALSE
  /\ intr = FALSE
  /\ mem = [b \in Bufs |-> Silence]
  /\ queue = <<>>
  /\ curr = None
  /\ currRun = 0
  /\ pos = 0
  /\ wpc = "idle"
  /\ wrote = 0
  /\ heard = 0
  /\ missed = FALSE
  /\ lapped = FALSE
  /\ stale = FALSE

\* i2s_slc_begin: new silent buffers, the engine starts with the first.  The
\* writer's buffer and position are left as they are.
Begin ==
  /\ run < MaxRuns
  /\ wpc = "idle"
  /\ run' = run + 1
  /\ playing' = TRUE
  /\ dma' = 0
  /\ eda' = 0
  /\ ie' = TRUE
  /\ intr' = FALSE
  /\ mem' = [b \in Bufs |-> Silence]
  /\ queue' = <<>>
  /\ heard' = wrote
  /\ missed' = FALSE
  /\ lapped' = FALSE
  /\ stale' = (curr # None /\ pos < BufLen)
  /\ UNCHANGED <<curr, currRun, pos, wpc, wrote>>

\* I2SIC and I2SIE = 0: nothing is pending and nothing will be.
MaskInterrupt ==
  /\ ie' = FALSE
  /\ intr' = FALSE
  /\ missed' = (missed \/ intr)
  /\ UNCHANGED <<run, dma, eda, mem, queue, curr, currRun, pos, wpc, wrote, heard, lapped, stale>>

\* The rest of i2s_begin.  I2sSpec leaves open when it comes, and whether: what
\* it says holds of the driver with line 236 and of one without.
Mask == playing /\ wpc = "idle" /\ MaskInterrupt /\ UNCHANGED playing

\* i2s_slc_end masks the interrupt and clears the link addresses.  The engine is
\* not told to stop: it goes on, or finds no link and stops.
End == playing /\ wpc = "idle" /\ MaskInterrupt /\ playing' \in BOOLEAN

\* The last sample of a buffer that is not silent.
LastOf(buffer, old) == IF buffer[BufLen] = 0 THEN old ELSE buffer[BufLen]

\* The engine finishes a buffer, raises its interrupt and goes on to the next.
Finish ==
  /\ playing
  /\ heard' = LastOf(mem[dma], heard)
  /\ eda' = dma
  /\ dma' = Succ(dma)
  /\ intr' = (intr \/ ie)
  /\ missed' = (missed \/ intr \/ ~ie)
  /\ lapped' = (lapped \/ Filling(Succ(dma)))
  /\ UNCHANGED <<run, playing, ie, mem, queue, curr, currRun, pos, wpc, wrote, stale>>

\* i2s_slc_queue_next_item
Popped(q) == Tail(q)

\* i2s_slc_isr.
\* (Mistake: the finished buffer keeps its samples.)
IsrKeepsSamples ==
  /\ intr
  /\ intr' = FALSE
  /\ queue' = Append(IF Len(queue) >= BufCnt - 1 THEN Popped(queue) ELSE queue, eda)
  /\ UNCHANGED <<run, playing, dma, eda, ie, mem, curr, currRun, pos, wpc, wrote, heard,
                 missed, lapped, stale>>

\* (Mistake: on underflow the finished buffer is dropped instead of the oldest.)
IsrDropsNewest ==
  /\ intr
  /\ intr' = FALSE
  /\ mem' = [mem EXCEPT ![eda] = Silence]
  /\ queue' = IF Len(queue) >= BufCnt - 1 THEN queue ELSE Append(queue, eda)
  /\ UNCHANGED <<run, playing, dma, eda, ie, curr, currRun, pos, wpc, wrote, heard,
                 missed, lapped, stale>>

Isr ==
  /\ intr
  /\ intr' = FALSE
  /\ mem' = [mem EXCEPT ![eda] = Silence]
  /\ queue' = Append(IF Len(queue) >= BufCnt - 1 THEN Popped(queue) ELSE queue, eda)
  /\ UNCHANGED <<run, playing, dma, eda, ie, curr, currRun, pos, wpc, wrote, heard,
                 missed, lapped, stale>>

\* i2s_write_sample and i2s_write_sample_nb: a buffer is needed when there is
\* none or it is full, and taken from the front of the queue.  With an empty
\* queue the first spins and the second returns false.
NeedsBuffer == pos = BufLen \/ curr = None

TakeBuffer ==
  /\ wpc = "idle"
  /\ wrote < MaxSamples
  /\ NeedsBuffer
  /\ queue # <<>>
  /\ curr' = Head(queue)
  /\ currRun' = run
  /\ queue' = Popped(queue)
  /\ pos' = 0
  /\ lapped' = (lapped \/ (playing /\ Head(queue) = dma))
  /\ wpc' = "store"
  /\ UNCHANGED <<run, playing, dma, eda, ie, intr, mem, wrote, heard, missed, stale>>

KeepBuffer ==
  /\ wpc = "idle"
  /\ wrote < MaxSamples
  /\ ~NeedsBuffer
  /\ wpc' = "store"
  /\ UNCHANGED <<run, playing, dma, eda, ie, intr, mem, queue, curr, currRun, pos, wrote,
                 heard, missed, lapped, stale>>

\* The sample is stored, in a buffer of this run or in one of an earlier run.
StoreSample ==
  /\ wpc = "store"
  /\ wrote' = wrote + 1
  /\ mem' = IF currRun = run THEN [mem EXCEPT ![curr][pos + 1] = wrote + 1] ELSE mem
  /\ pos' = pos + 1
  /\ wpc' = "idle"
  /\ UNCHANGED <<run, playing, dma, eda, ie, intr, queue, curr, currRun, heard, missed,
                 lapped, stale>>

Writer == TakeBuffer \/ KeepBuffer \/ StoreSample

I2sNext == Begin \/ Mask \/ End \/ Finish \/ Isr \/ Writer

I2sSpec == I2sInit /\ [][I2sNext]_i2svars

-------------------------------------------------------------------------------
(* Correctness. *)

I2sTypeOK ==
  /\ run \in 0..MaxRuns
  /\ playing \in BOOLEAN
  /\ dma \in Bufs
  /\ eda \in Bufs
  /\ ie \in BOOLEAN
  /\ intr \in BOOLEAN
  /\ mem \in [Bufs -> [1..BufLen -> 0..MaxSamples]]
  /\ queue \in Seq(Bufs)
  /\ Len(queue) <= BufCnt - 1
  /\ curr \in Bufs \cup {None}
  /\ currRun \in 0..MaxRuns
  /\ pos \in 0..BufLen
  /\ wpc \in {"idle", "store"}
  /\ wrote \in 0..MaxSamples
  /\ heard \in 0..MaxSamples

OnTime == ~missed /\ ~lapped /\ ~stale

\* As long as the handler is told of every buffer, a buffer is queued at most
\* once, and the one being played is not queued once the handler has run.
PlayingNotQueued ==
  playing /\ ~missed =>
    /\ \A i, j \in 1..Len(queue) : i # j => queue[i] # queue[j]
    /\ ~intr => \A i \in 1..Len(queue) : queue[i] # dma

\* Both: the ring the engine, the handler and the writer share is consistent, and
\* no more buffers are queued than can be free.
RingSound == I2sTypeOK /\ PlayingNotQueued

\* As long as everybody is on time, the engine plays every sample exactly
\* once and in order, with nothing but silence in between.
EverySampleOnce ==
  [][ Finish /\ OnTime' =>
        \/ mem[dma] = Silence
        \/ mem[dma] = [i \in 1..BufLen |-> heard + i] ]_i2svars
===============================================================================
