------------------------------ MODULE FlashStore ------------------------------
(* The EEPROM emulation and the file system side by side on one flash chip,  *)
(* used by the same loop task; a reset may come at any step.                 *)
EXTENDS Eeprom, SpiffsHal

vars == <<flash, eepromvars, halvars>>

Init == FlashInit /\ EepromInit /\ HalInit

Reset == EepromReset /\ hal' = [op |-> "none"] /\ UNCHANGED calls

\* abort() restarts the program.
Abort == epc = "idle" /\ HalAbort /\ EepromReset

Next ==
  \/ EepromStep /\ hal' = [op |-> "none"] /\ UNCHANGED calls
  \/ epc = "idle" /\ HalStep /\ UNCHANGED eepromvars
  \/ Abort
  \/ Reset

Spec == Init /\ [][Next]_vars
===============================================================================
