-------------------------------- MODULE Eeprom --------------------------------
(***************************************************************************)
(* EEPROMClass (libraries/EEPROM/EEPROM.cpp): one flash sector behind a    *)
(* cache in RAM.  commit() erases the sector and writes the cache back;    *)
(* both operations of the chip can fail, and power can be lost at any step.*)
(*                                                                         *)
(* image, torn, behind and misread are not program state: what commit()    *)
(* has reported stored, whether an erase has not been made good by a write *)
(* since, the bytes changed through getDataPtr()'s pointer behind _dirty's *)
(* back, and whether begin() ignored a failed read.                        *)
(***************************************************************************)
EXTENDS Flash

CONSTANTS
  Sizes,     \* the arguments of begin()
  Places,    \* the addresses the sketch uses
  Values     \* the bytes it writes

ASSUME EepromAssumption ==
  Sizes \subseteq Nat /\ Places \subseteq Int /\ Values \subseteq SUBSET Int

VARIABLES
  data,      \* _data: the cache, a sequence of _size bytes
  dirty,     \* _dirty
  epc,       \* "idle", or where commit() is
  ending,    \* end() called commit()
  pointer,   \* the sketch has a valid result of getDataPtr()
  image, torn, behind, misread

eepromvars == <<data, dirty, epc, ending, pointer, image, torn, behind, misread>>

_size == Len(data)
base == FsSectors * Sec
Stored(n) == [i \in 1..n |-> flash[base + i - 1]]

EepromInit ==
  /\ data = <<>> /\ dirty = FALSE /\ epc = "idle" /\ ending = FALSE /\ pointer = FALSE
  /\ image = <<>> /\ torn = FALSE /\ behind = {} /\ misread = FALSE

\* The size of the cache begin(n) makes.
CacheSize(n) == AlignUp(Shortest(n, Sec))

\* begin: the result of the read is not looked at, and _dirty stays.
Begin(n) ==
  /\ epc = "idle" /\ n > 0
  /\ \/ data' = Stored(CacheSize(n)) /\ misread' = FALSE
     \/ data' = [i \in 1..CacheSize(n) |-> Junk] /\ misread' = TRUE
  /\ pointer' = FALSE /\ behind' = {}
  /\ UNCHANGED <<flash, dirty, epc, ending, image, torn>>

\* write, put
WriteByte(a, v) ==
  /\ epc = "idle"
  /\ a >= 0 /\ a < _size
  /\ data' = [data EXCEPT ![a + 1] = v]
  /\ dirty' = TRUE
  /\ UNCHANGED <<flash, epc, ending, pointer, image, torn, behind, misread>>

\* getDataPtr, also before begin(), when there is nothing to point to.
GetDataPtr ==
  /\ epc = "idle"
  /\ dirty' = TRUE /\ pointer' = (_size > 0)
  /\ UNCHANGED <<flash, data, epc, ending, image, torn, behind, misread>>

\* The sketch stores through the pointer, whenever it likes.
StoreThrough(a, v) ==
  /\ epc = "idle" /\ pointer
  /\ a >= 0 /\ a < _size
  /\ data' = [data EXCEPT ![a + 1] = v]
  /\ behind' = IF dirty THEN behind ELSE behind \cup {a + 1}
  /\ UNCHANGED <<flash, dirty, epc, ending, pointer, image, torn, misread>>

\* commit() has come to its end; end() then drops the cache, whatever it said.
Returned(end) ==
  /\ epc' = "idle" /\ ending' = FALSE
  /\ IF end THEN data' = <<>> /\ pointer' = FALSE ELSE UNCHANGED <<data, pointer>>

\* What commit() has vouched for when it returns true.
Vouched ==
  [i \in 1..Longest(_size, Len(image)) |->
    IF i <= _size /\ i \notin behind /\ ~misread THEN data[i]
    ELSE IF i <= Len(image) THEN image[i] ELSE flash[base + i - 1]]

\* commit(), also from end(), with nothing to do.
CommitClean(end) ==
  /\ epc = "idle" /\ _size > 0 /\ ~dirty
  /\ image' = Vouched
  /\ Returned(end)
  /\ UNCHANGED <<flash, dirty, torn, behind, misread>>

CommitErase(end) ==
  /\ epc = "idle" /\ _size > 0 /\ dirty
  /\ flash' = Erased(flash, FsSectors)
  /\ epc' = "erased" /\ ending' = end /\ torn' = TRUE
  /\ UNCHANGED <<data, dirty, pointer, image, behind, misread>>

\* The erase fails, with the sector as it was or not.
CommitNoErase(end) ==
  /\ epc = "idle" /\ _size > 0 /\ dirty
  /\ \/ UNCHANGED <<flash, torn>>
     \/ flash' = Erased(flash, FsSectors) /\ torn' = TRUE
  /\ Returned(end)
  /\ UNCHANGED <<dirty, image, behind, misread>>

Back == [at |-> base, bytes |-> data]

CommitWrite ==
  /\ epc = "erased"
  /\ flash' = Programmed(flash, Back, _size)
  /\ dirty' = FALSE /\ torn' = FALSE /\ behind' = {} /\ misread' = FALSE
  /\ image' = data
  /\ Returned(ending)

\* (Mistake: _dirty is cleared before the write is known to have worked.)
CommitNoWriteClean ==
  /\ epc = "erased"
  /\ \E n \in Cut(Back) : flash' = Programmed(flash, Back, n)
  /\ dirty' = FALSE
  /\ Returned(ending)
  /\ UNCHANGED <<image, torn, behind, misread>>

\* The write fails part of the way.
CommitNoWrite ==
  /\ epc = "erased"
  /\ \E n \in Cut(Back) : flash' = Programmed(flash, Back, n)
  /\ Returned(ending)
  /\ UNCHANGED <<dirty, image, torn, behind, misread>>

EepromStep ==
  \/ \E n \in Sizes : Begin(n)
  \/ \E a \in Places, v \in Values : WriteByte(a, v) \/ StoreThrough(a, v)
  \/ GetDataPtr
  \/ \E end \in BOOLEAN : CommitClean(end) \/ CommitErase(end) \/ CommitNoErase(end)
  \/ CommitWrite
  \/ CommitNoWrite

\* A reset: RAM is lost, the constructor runs, the flash stays.  Inside the
\* write of commit() the chip got some of the words.
EepromReset ==
  /\ data' = <<>> /\ dirty' = FALSE /\ epc' = "idle" /\ ending' = FALSE /\ pointer' = FALSE
  /\ behind' = {} /\ misread' = FALSE
  /\ IF epc = "erased" THEN \E n \in Cut(Back) : flash' = Programmed(flash, Back, n)
                       ELSE UNCHANGED flash
  /\ UNCHANGED <<image, torn>>

-------------------------------------------------------------------------------
(* Correctness. *)

\* When commit() has nothing to do, what the sketch reads is in the flash: so
\* a commit that failed is repeated in full by the next.  Not covered: a cache
\* filled by a failed read, and what went through the pointer after a commit.
CleanIsStored ==
  epc = "idle" /\ ~dirty /\ ~misread =>
    \A i \in 1.._size : i \notin behind => flash[base + i - 1] = data[i]

\* What commit() has reported stored stays in the flash through resets, further
\* sessions and the work of the file system, until the next commit, unless one
\* was broken off after it had erased the sector.
Durable ==
  ~torn => \A i \in DOMAIN image : flash[base + i - 1] = image[i]
===============================================================================
