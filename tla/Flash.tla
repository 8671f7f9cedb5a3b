-------------------------------- MODULE Flash --------------------------------
(***************************************************************************)
(* The flash chip, as EEPROM.cpp, spiffs_hal.cpp and Esp.cpp use it        *)
(* through the SDK's spi_flash_ functions: erasing a sector sets all its   *)
(* bits, programming can only clear some.  A byte is the set of the marks  *)
(* programmed into it since it was erased: {} is 0xff, and programming     *)
(* adds marks.  The file system has the sectors 0..FsSectors - 1, the      *)
(* EEPROM emulation the one after them.                                    *)
(***************************************************************************)
EXTENDS Integers, Sequences, FiniteSets

CONSTANTS
  Word,       \* 4: addresses and lengths given to the chip are multiples of it
  Sec,        \* SPI_FLASH_SEC_SIZE
  FsSectors   \* _SPIFFS_end / SPI_FLASH_SEC_SIZE

ASSUME FlashAssumption ==
  /\ Word \in Nat \ {0}
  /\ Sec \in Nat \ {0} /\ Sec % Word = 0
  /\ FsSectors \in Nat

VARIABLE flash

Blank == {}
Junk == {-1}            \* whatever happens to be in RAM
Old(a) == {-2 - a}      \* what was programmed at a before

Sector(s) == s * Sec .. (s + 1) * Sec - 1
Addresses == 0 .. (FsSectors + 1) * Sec - 1

AlignUp(n) == ((n + Word - 1) \div Word) * Word
AlignDown(n) == (n \div Word) * Word
Longest(m, n) == IF m > n THEN m ELSE n
Shortest(m, n) == IF m < n THEN m ELSE n

FlashInit ==
  \/ flash = [a \in Addresses |-> Blank]
  \/ flash = [a \in Addresses |-> Old(a)]

\* spi_flash_erase_sector
Erased(f, s) == [a \in Addresses |-> IF a \in Sector(s) THEN Blank ELSE f[a]]

\* spi_flash_write of the first n bytes of a request [at, bytes]
Programmed(f, req, n) ==
  [a \in Addresses |-> IF a >= req.at /\ a < req.at + n
                         THEN f[a] \cup req.bytes[a - req.at + 1] ELSE f[a]]

\* How far a request gets that fails: the chip is programmed word by word.
Cut(req) == {n \in 0 .. Len(req.bytes) - 1 : n % Word = 0}
===============================================================================
