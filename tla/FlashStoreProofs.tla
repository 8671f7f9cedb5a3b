--------------------------- MODULE FlashStoreProofs ---------------------------
(***************************************************************************)
(* Proofs, for every geometry of the flash and every size of the cache and *)
(* the buffer, that the EEPROM emulation keeps what it has committed and   *)
(* that the file system's access to the flash reads and writes exactly the *)
(* bytes it was asked for.                                                 *)
(***************************************************************************)
EXTENDS FlashStore, SequenceTheorems, TLAPS

Byte == SUBSET Int

-------------------------------------------------------------------------------
(* Words and sectors. *)

LEMMA DivMod ==
  ASSUME NEW n \in Nat, NEW w \in Nat \ {0}
  PROVE  /\ n \div w \in Nat /\ n % w \in 0..w - 1
         /\ n = w * (n \div w) + (n % w)
OBVIOUS

\* A multiple between two consecutive ones is one of them.
LEMMA MultiplesApart ==
  ASSUME NEW p \in Nat, NEW q \in Nat, NEW w \in Nat \ {0}, w * p < w * q
  PROVE  w * p + w <= w * q
<1>1. p + 1 <= q
  OBVIOUS
<1>2. w * (p + 1) <= w * q
  BY <1>1
<1> QED
  BY <1>2

\* AlignUp is the least multiple of the word from n on, AlignDown the greatest
\* up to n.
LEMMA Aligned ==
  ASSUME NEW n \in Nat
  PROVE  /\ AlignUp(n) \in Nat /\ n <= AlignUp(n) /\ AlignUp(n) < n + Word
         /\ AlignDown(n) \in Nat /\ AlignDown(n) <= n /\ n < AlignDown(n) + Word
         /\ \E p \in Nat : AlignUp(n) = Word * p
         /\ \E p \in Nat : AlignDown(n) = Word * p
<1>1. Word \in Nat \ {0}
  BY FlashAssumption
<1> DEFINE p == (n + Word - 1) \div Word
           q == n \div Word
<1>2. n + Word - 1 \in Nat
  BY <1>1
<1>3. /\ p \in Nat /\ (n + Word - 1) % Word \in 0..Word - 1
      /\ n + Word - 1 = Word * p + ((n + Word - 1) % Word)
  BY <1>1, <1>2, DivMod
<1>4. q \in Nat /\ n % Word \in 0..Word - 1 /\ n = Word * q + (n % Word)
  BY <1>1, DivMod
<1>5. AlignUp(n) = p * Word /\ AlignDown(n) = q * Word
  BY DEF AlignUp, AlignDown
<1> HIDE DEF p, q
<1>6. p * Word = Word * p /\ q * Word = Word * q /\ Word * p \in Nat /\ Word * q \in Nat
  BY <1>1, <1>3, <1>4
<1>7. AlignUp(n) \in Nat /\ n <= AlignUp(n) /\ AlignUp(n) < n + Word
  BY <1>1, <1>3, <1>5, <1>6
<1>8. AlignDown(n) \in Nat /\ AlignDown(n) <= n /\ n < AlignDown(n) + Word
  BY <1>1, <1>4, <1>5, <1>6
<1> QED
  BY <1>3, <1>4, <1>5, <1>6, <1>7, <1>8

\* A multiple of the word from n on is at or past AlignUp(n).
LEMMA AlignUpLeast ==
  ASSUME NEW n \in Nat, NEW q \in Nat, n <= Word * q
  PROVE  AlignUp(n) <= Word * q
<1>1. PICK p \in Nat : AlignUp(n) = Word * p
  BY Aligned
<1>2. AlignUp(n) \in Nat /\ AlignUp(n) < n + Word /\ Word \in Nat \ {0} /\ Word * q \in Nat
  BY Aligned, FlashAssumption
<1>3. Word * q < Word * p => Word * q + Word <= Word * p
  BY <1>2, MultiplesApart
<1> QED
  BY <1>1, <1>2, <1>3

\* The file system ends where the EEPROM's sector begins, at a word.
LEMMA Layout ==
  /\ base \in Nat /\ Sec \in Nat \ {0} /\ Word \in Nat \ {0}
  /\ \E p \in Nat : base = Word * p
  /\ \E p \in Nat : Sec = Word * p
  /\ Addresses = 0..base + Sec - 1
  /\ Sector(FsSectors) = base..base + Sec - 1
  /\ \A i \in 1..Sec : base + i - 1 \in Addresses /\ base + i - 1 \in Sector(FsSectors)
<1>1. Sec \in Nat \ {0} /\ Word \in Nat \ {0} /\ FsSectors \in Nat /\ Sec % Word = 0
  BY FlashAssumption
<1>2. PICK p \in Nat : Sec = Word * p
  <2>1. Sec \div Word \in Nat /\ Sec = Word * (Sec \div Word) + (Sec % Word)
    BY <1>1, DivMod
  <2>2. Word * (Sec \div Word) \in Nat
    BY <1>1, <2>1
  <2> QED BY <1>1, <2>1, <2>2
<1>3. base \in Nat /\ base = Word * (p * FsSectors) /\ p * FsSectors \in Nat
  BY <1>1, <1>2 DEF base
<1>4. (FsSectors + 1) * Sec = base + Sec
  BY <1>1 DEF base
<1>5. Addresses = 0..base + Sec - 1 /\ Sector(FsSectors) = base..base + Sec - 1
  <2> DEFINE first == FsSectors * Sec
             end == (FsSectors + 1) * Sec
  <2>1. first = base /\ end = base + Sec
    BY <1>4 DEF base
  <2>2. Addresses = 0..end - 1 /\ Sector(FsSectors) = first..end - 1
    BY DEF Addresses, Sector
  <2> HIDE DEF first, end
  <2> QED BY <1>1, <1>3, <2>1, <2>2
<1>6. \A i \in 1..Sec : base + i - 1 \in Addresses /\ base + i - 1 \in Sector(FsSectors)
  BY <1>1, <1>3, <1>5
<1> QED
  BY <1>1, <1>2, <1>3, <1>5, <1>6

-------------------------------------------------------------------------------
(* The EEPROM emulation. *)

BlankSector == \A i \in 1..Sec : flash[base + i - 1] = Blank

\* Between the erase and the write of a commit the cache is marked dirty, the
\* sector is blank and nothing is vouched for.
EepromInv ==
  /\ flash \in [Addresses -> Byte]
  /\ data \in Seq(Byte) /\ Len(data) <= Sec
  /\ image \in Seq(Byte) /\ Len(image) <= Sec
  /\ epc \in {"idle", "erased"}
  /\ epc = "erased" => dirty /\ torn /\ BlankSector
  /\ CleanIsStored /\ Durable

LEMMA EepromTypes ==
  ASSUME EepromInv
  PROVE  /\ Len(data) \in 0..Sec /\ DOMAIN data = 1..Len(data) /\ \A i \in 1..Len(data) : data[i] \in Byte
         /\ Len(image) \in 0..Sec /\ DOMAIN image = 1..Len(image) /\ \A i \in 1..Len(image) : image[i] \in Byte
BY Layout, LenProperties, ElementOfSeq DEF EepromInv

\* A sequence given as a function.
LEMMA MadeSeq ==
  ASSUME NEW S, NEW n \in Nat, NEW f \in [1..n -> S]
  PROVE  f \in Seq(S) /\ Len(f) = n
BY SeqDef

LEMMA ErasedSector ==
  ASSUME flash \in [Addresses -> Byte]
  PROVE  /\ Erased(flash, FsSectors) \in [Addresses -> Byte]
         /\ \A i \in 1..Sec : Erased(flash, FsSectors)[base + i - 1] = Blank
<1>1. Blank \in Byte
  BY DEF Blank, Byte
<1> QED
  BY <1>1, Layout DEF Erased

\* The write of n bytes of the cache.
LEMMA WrittenBack ==
  ASSUME EepromInv, NEW n \in 0..Len(data)
  PROVE  /\ Programmed(flash, Back, n) \in [Addresses -> Byte]
         /\ BlankSector => \A i \in 1..n : Programmed(flash, Back, n)[base + i - 1] = data[i]
<1>1. Back.at = base /\ Back.bytes = data
  BY DEF Back
<1>2. Programmed(flash, Back, n) =
        [a \in Addresses |-> IF a >= base /\ a < base + n THEN flash[a] \cup data[a - base + 1] ELSE flash[a]]
  BY <1>1 DEF Programmed
<1>3. \A a \in Addresses : a >= base /\ a < base + n => a - base + 1 \in 1..Len(data)
  BY Layout, EepromTypes
<1>4. \A a \in Addresses : flash[a] \in Byte
  BY DEF EepromInv
<1>5. \A x, y \in Byte : x \cup y \in Byte
  BY DEF Byte
<1>6. Programmed(flash, Back, n) \in [Addresses -> Byte]
  BY <1>2, <1>3, <1>4, <1>5, EepromTypes
<1>7. ASSUME BlankSector, NEW i \in 1..n PROVE Programmed(flash, Back, n)[base + i - 1] = data[i]
  <2>0. base \in Nat /\ Sec \in Nat /\ n \in Nat /\ n <= Sec
    BY Layout, EepromTypes
  <2>1. i \in 1..Sec /\ base + i - 1 \in Addresses
    <3>1. i \in 1..Sec
      BY <2>0
    <3> QED
      BY <3>1, Layout
  <2>2. base + i - 1 >= base /\ base + i - 1 < base + n /\ (base + i - 1) - base + 1 = i
    BY <2>0
  <2>3. flash[base + i - 1] = {}
    BY <1>7, <2>1 DEF BlankSector, Blank
  <2>4. Programmed(flash, Back, n)[base + i - 1] = {} \cup data[i]
    BY <1>2, <2>1, <2>2, <2>3
  <2> QED
    BY <2>4
<1> QED
  BY <1>6, <1>7

\* What is done to the rest of the flash does not matter.
LEMMA EepromUntouched ==
  ASSUME EepromInv, UNCHANGED eepromvars, flash' \in [Addresses -> Byte],
         \A i \in 1..Sec : flash'[base + i - 1] = flash[base + i - 1]
  PROVE  EepromInv'
<1>1. \A i \in 1..Len(data) : i \in 1..Sec
  BY Layout, EepromTypes
<1>2. \A i \in 1..Len(image) : i \in 1..Sec
  BY Layout, EepromTypes
<1>3. CleanIsStored'
  BY <1>1 DEF EepromInv, CleanIsStored, eepromvars, _size
<1>4. Durable'
  BY <1>2, EepromTypes DEF EepromInv, Durable, eepromvars
<1>5. (epc = "erased" => dirty /\ torn /\ BlankSector)'
  BY DEF EepromInv, BlankSector, eepromvars
<1> QED
  BY <1>3, <1>4, <1>5 DEF EepromInv, eepromvars

LEMMA BeginSound ==
  ASSUME EepromInv, NEW n \in Sizes, Begin(n)
  PROVE  EepromInv'
<1> DEFINE m == CacheSize(n)
<1>1. m \in 0..Sec
  <2>1. Shortest(n, Sec) \in Nat /\ Shortest(n, Sec) <= Sec
    BY Layout, EepromAssumption DEF Shortest
  <2>2. PICK p \in Nat : Sec = Word * p
    BY Layout
  <2>3. AlignUp(Shortest(n, Sec)) <= Sec /\ AlignUp(Shortest(n, Sec)) \in Nat
    BY <2>1, <2>2, AlignUpLeast, Aligned
  <2> QED BY <2>3, Layout DEF CacheSize
<1>2. \/ data' = [i \in 1..m |-> flash[base + i - 1]] /\ misread' = FALSE
      \/ data' = [i \in 1..m |-> Junk] /\ misread' = TRUE
  BY DEF Begin, Stored
<1> HIDE DEF m
<1>3. Junk \in Byte /\ \A i \in 1..m : i \in 1..Sec /\ flash[base + i - 1] \in Byte
  <2>1. Junk \in Byte
    BY DEF Junk, Byte
  <2>2. \A i \in 1..m : i \in 1..Sec
    BY <1>1, Layout
  <2> QED BY <2>1, <2>2, Layout DEF EepromInv
<1>4. data' \in [1..m -> Byte]
  BY <1>2, <1>3
<1>5. data' \in Seq(Byte) /\ Len(data') = m
  BY <1>1, <1>4, MadeSeq
<1>6. UNCHANGED <<flash, dirty, epc, ending, image, torn>> /\ epc = "idle"
  BY DEF Begin
<1>7. CleanIsStored'
  BY <1>2, <1>5, <1>6 DEF CleanIsStored, _size
<1>8. Durable'
  BY <1>6 DEF EepromInv, Durable
<1> QED
  BY <1>1, <1>5, <1>6, <1>7, <1>8 DEF EepromInv

\* A byte of the cache is changed, by write() or through the pointer.
LEMMA StoreSound ==
  ASSUME EepromInv, NEW a \in Places, NEW v \in Values, WriteByte(a, v) \/ StoreThrough(a, v)
  PROVE  EepromInv'
<1>1. /\ a + 1 \in 1..Len(data) /\ v \in Byte /\ data' = [data EXCEPT ![a + 1] = v]
      /\ UNCHANGED <<flash, epc, image, torn, misread>> /\ epc = "idle"
  BY EepromAssumption, EepromTypes, Layout DEF WriteByte, StoreThrough, _size, Byte
<1>2. data' \in Seq(Byte) /\ Len(data') = Len(data)
  BY <1>1, ExceptSeq DEF EepromInv
<1>3. CleanIsStored'
  <2>1. CASE WriteByte(a, v)
    BY <2>1 DEF WriteByte, CleanIsStored
  <2>2. CASE StoreThrough(a, v)
    <3>1. dirty' = dirty /\ (~dirty => behind' = behind \cup {a + 1})
      BY <2>2 DEF StoreThrough
    <3>2. \A i \in 1..Len(data) : i # a + 1 => data'[i] = data[i]
      BY <1>1, EepromTypes
    <3> QED
      BY <1>1, <1>2, <3>1, <3>2 DEF EepromInv, CleanIsStored, _size
  <2> QED BY <2>1, <2>2
<1>4. Durable'
  BY <1>1 DEF EepromInv, Durable
<1> QED
  BY <1>1, <1>2, <1>3, <1>4 DEF EepromInv

\* commit() returns, and end() drops the cache.
LEMMA ReturnedCache ==
  ASSUME EepromInv, NEW end, Returned(end)
  PROVE  /\ data' \in Seq(Byte) /\ Len(data') <= Sec /\ epc' = "idle"
         /\ Len(data') = 0 \/ data' = data
<1>1. CASE data' = data
  BY <1>1 DEF EepromInv, Returned
<1>2. CASE data' = <<>>
  <2>1. <<>> \in Seq(Byte) /\ Len(<<>>) = 0
    BY EmptySeq
  <2> QED BY <1>2, <2>1, Layout DEF Returned
<1> QED
  BY <1>1, <1>2 DEF Returned

\* commit() with nothing to do vouches for what is in the flash.
LEMMA CommitCleanSound ==
  ASSUME EepromInv, NEW end \in BOOLEAN, CommitClean(end)
  PROVE  EepromInv'
<1> DEFINE m == Longest(_size, Len(image))
<1>1. /\ epc = "idle" /\ ~dirty /\ Returned(end) /\ image' = Vouched
      /\ UNCHANGED <<flash, dirty, torn, behind, misread>>
  BY DEF CommitClean
<1>2. m \in 0..Sec
  BY EepromTypes, Layout DEF Longest, _size
<1>3. image' = [i \in 1..m |-> IF i <= Len(data) /\ i \notin behind /\ ~misread THEN data[i]
                              ELSE IF i <= Len(image) THEN image[i] ELSE flash[base + i - 1]]
  BY <1>1 DEF Vouched, _size
<1> HIDE DEF m
<1>4. \A i \in 1..m : i \in 1..Sec /\ flash[base + i - 1] \in Byte
  <2>1. \A i \in 1..m : i \in 1..Sec
    BY <1>2, Layout
  <2> QED BY <2>1, Layout DEF EepromInv
<1>5. \A i \in 1..m : (i <= Len(data) => i \in 1..Len(data)) /\ (i <= Len(image) => i \in 1..Len(image))
  BY <1>2, EepromTypes
<1>6. image' \in [1..m -> Byte]
  BY <1>3, <1>4, <1>5, EepromTypes
<1>7. image' \in Seq(Byte) /\ Len(image') = m
  BY <1>2, <1>6, MadeSeq
<1>8. Durable'
  <2> SUFFICES ASSUME ~torn, NEW i \in 1..m PROVE flash[base + i - 1] = image'[i]
    BY <1>1, <1>6 DEF Durable
  <2>1. CASE i <= Len(data) /\ i \notin behind /\ ~misread
    BY <1>1, <1>3, <1>5, <2>1 DEF EepromInv, CleanIsStored, _size
  <2>2. CASE ~(i <= Len(data) /\ i \notin behind /\ ~misread) /\ i <= Len(image)
    BY <1>3, <1>5, <2>2, EepromTypes DEF EepromInv, Durable
  <2>3. CASE ~(i <= Len(data) /\ i \notin behind /\ ~misread) /\ ~(i <= Len(image))
    BY <1>3, <2>3
  <2> QED BY <2>1, <2>2, <2>3
<1>9. /\ data' \in Seq(Byte) /\ Len(data') <= Sec /\ epc' = "idle"
      /\ Len(data') = 0 \/ data' = data
  BY <1>1, ReturnedCache
<1>10. CleanIsStored'
  BY <1>1, <1>9 DEF EepromInv, CleanIsStored, _size
<1> QED
  BY <1>1, <1>2, <1>7, <1>8, <1>9, <1>10 DEF EepromInv

\* The two operations of a commit, done and failed.
LEMMA CommitSound ==
  ASSUME EepromInv,
         \/ \E end \in BOOLEAN : CommitErase(end) \/ CommitNoErase(end)
         \/ CommitWrite
         \/ CommitNoWrite
  PROVE  EepromInv'
<1>1. ASSUME NEW end \in BOOLEAN, CommitErase(end) PROVE EepromInv'
  <2>1. /\ flash' = Erased(flash, FsSectors) /\ epc' = "erased" /\ torn' = TRUE /\ dirty /\ dirty' = dirty
        /\ data' = data /\ image' = image
    BY <1>1 DEF CommitErase
  <2>2. flash' \in [Addresses -> Byte] /\ BlankSector'
    BY <2>1, ErasedSector DEF EepromInv, BlankSector
  <2> QED
    BY <2>1, <2>2 DEF EepromInv, CleanIsStored, Durable
<1>2. ASSUME NEW end \in BOOLEAN, CommitNoErase(end) PROVE EepromInv'
  <2>1. /\ epc = "idle" /\ dirty /\ dirty' = dirty /\ image' = image /\ Returned(end)
        /\ \/ UNCHANGED <<flash, torn>>
           \/ flash' = Erased(flash, FsSectors) /\ torn' = TRUE
    BY <1>2 DEF CommitNoErase
  <2>2. flash' \in [Addresses -> Byte] /\ Durable'
    BY <2>1, ErasedSector DEF EepromInv, Durable
  <2>3. data' \in Seq(Byte) /\ Len(data') <= Sec /\ epc' = "idle"
    BY <2>1, ReturnedCache
  <2> QED
    BY <2>1, <2>2, <2>3 DEF EepromInv, CleanIsStored
<1>3. CASE CommitWrite
  <2>1. /\ epc = "erased" /\ flash' = Programmed(flash, Back, Len(data)) /\ image' = data
        /\ Returned(ending)
    BY <1>3 DEF CommitWrite, _size
  <2>2. Len(data) \in 0..Len(data) /\ BlankSector
    BY <2>1, EepromTypes, Layout DEF EepromInv
  <2>3. /\ flash' \in [Addresses -> Byte]
        /\ \A i \in 1..Len(data) : flash'[base + i - 1] = data[i]
    BY <2>1, <2>2, WrittenBack
  <2>4. Durable'
    BY <2>1, <2>3, EepromTypes DEF Durable
  <2>5. /\ data' \in Seq(Byte) /\ Len(data') <= Sec /\ epc' = "idle"
        /\ Len(data') = 0 \/ data' = data
    BY <2>1, ReturnedCache
  <2>6. CleanIsStored'
    BY <2>3, <2>5 DEF CleanIsStored, _size
  <2> QED
    BY <2>1, <2>3, <2>4, <2>5, <2>6 DEF EepromInv
<1>4. CASE CommitNoWrite
  <2>1. PICK n \in Cut(Back) : flash' = Programmed(flash, Back, n)
    BY <1>4 DEF CommitNoWrite
  <2>2. /\ epc = "erased" /\ dirty' = dirty /\ torn' = torn /\ image' = image /\ dirty /\ torn
        /\ Returned(ending)
    BY <1>4 DEF CommitNoWrite, EepromInv
  <2>3. n \in 0..Len(data)
    BY EepromTypes DEF Cut, Back
  <2>4. flash' \in [Addresses -> Byte]
    BY <2>1, <2>3, WrittenBack
  <2>5. data' \in Seq(Byte) /\ Len(data') <= Sec /\ epc' = "idle"
    BY <2>2, ReturnedCache
  <2> QED
    BY <2>2, <2>4, <2>5 DEF EepromInv, CleanIsStored, Durable
<1> QED
  BY <1>1, <1>2, <1>3, <1>4

\* A reset, also in the middle of the write.
LEMMA ResetSound ==
  ASSUME EepromInv, EepromReset
  PROVE  EepromInv'
<1>1. /\ data' = <<>> /\ epc' = "idle" /\ image' = image /\ torn' = torn
  BY DEF EepromReset
<1>2. data' \in Seq(Byte) /\ Len(data') = 0
  BY <1>1, EmptySeq
<1>3. CleanIsStored'
  BY <1>2 DEF CleanIsStored, _size
<1>4. flash' \in [Addresses -> Byte] /\ Durable'
  <2>1. CASE epc = "erased"
    <3>1. PICK n \in Cut(Back) : flash' = Programmed(flash, Back, n)
      BY <2>1 DEF EepromReset
    <3>2. n \in 0..Len(data)
      BY EepromTypes DEF Cut, Back
    <3> QED BY <1>1, <2>1, <3>1, <3>2, WrittenBack DEF EepromInv, Durable
  <2>2. CASE epc # "erased"
    BY <1>1, <2>2 DEF EepromReset, EepromInv, Durable
  <2> QED BY <2>1, <2>2
<1> QED
  BY <1>1, <1>2, <1>3, <1>4, Layout DEF EepromInv

-------------------------------------------------------------------------------
(* The requests of spiffs_hal_write. *)

InFs(addr, size) == addr \in Nat /\ size \in Nat /\ addr + size <= base

\* A body that is one request, or none.
OneChunk(addr, size, aligned) ==
  aligned \/ alignedEnd(addr, size) - alignedBegin(addr) <= Buf

\* A request stays within the file system; of the bytes it programs, those asked
\* for are the caller's, each in its place, and the others blank.
GoodRequest(addr, size, aligned, r) ==
  /\ r.at \in Nat /\ r.bytes \in Seq(Byte) /\ r.at + Len(r.bytes) <= base
  /\ OneChunk(addr, size, aligned) =>
       \A a \in Nat : Covers(r, a) =>
         r.bytes[a - r.at + 1] = IF a >= addr /\ a < addr + size THEN {a - addr} ELSE Blank

LEMMA Bounds ==
  ASSUME NEW addr, NEW size, InFs(addr, size)
  PROVE  /\ alignedBegin(addr) \in Nat /\ alignedEnd(addr, size) \in Nat
         /\ addr <= alignedBegin(addr) /\ alignedBegin(addr) < addr + Word
         /\ alignedBegin(addr) <= alignedEnd(addr, size) /\ alignedEnd(addr, size) <= base
         /\ addr + size < alignedEnd(addr, size) + Word
         /\ alignedEnd(addr, size) > alignedBegin(addr) => alignedEnd(addr, size) <= addr + size
         /\ alignedBegin(addr) # addr => alignedBegin(addr) >= Word
         /\ alignedEnd(addr, size) < addr + size => alignedEnd(addr, size) + Word <= base
<1>1. PICK p \in Nat : base = Word * p
  BY Layout
<1>2. PICK q \in Nat : AlignUp(addr) = Word * q
  BY Aligned DEF InFs
<1>3. PICK r \in Nat : AlignDown(addr + size) = Word * r
  BY Aligned DEF InFs
<1> DEFINE ab == alignedBegin(addr)
           ad == AlignDown(addr + size)
           ae == alignedEnd(addr, size)
<1>4. /\ addr \in Nat /\ size \in Nat /\ addr + size \in Nat /\ addr + size <= base /\ addr <= base
      /\ base \in Nat /\ Word \in Nat \ {0}
  BY Layout DEF InFs
<1>5. /\ ab \in Nat /\ addr <= ab /\ ab < addr + Word /\ ab = Word * q
      /\ ad \in Nat /\ ad <= addr + size /\ addr + size < ad + Word /\ ad = Word * r
  BY <1>2, <1>3, <1>4, Aligned DEF alignedBegin
<1>6. ab <= base
  BY <1>1, <1>4, AlignUpLeast DEF alignedBegin
<1>7. ae = IF ad > ab THEN ad ELSE ab
  BY DEF alignedEnd, Longest
<1> HIDE DEF ab, ad, ae
<1>8. ab # addr => ab >= Word
  <2>1. ab # 0 => Word * 0 < Word * q
    BY <1>4, <1>5
  <2>2. ab # 0 => Word * 0 + Word <= Word * q
    BY <1>4, <2>1, MultiplesApart
  <2> QED BY <1>4, <1>5, <2>2
<1>9. PICK t \in Nat : ae = Word * t
  BY <1>5, <1>7
<1>10. ae < addr + size => ae + Word <= base
  <2>1. ae < addr + size => Word * t < Word * p
    BY <1>1, <1>4, <1>5, <1>7, <1>9
  <2>2. Word * t < Word * p => Word * t + Word <= Word * p
    BY <1>4, MultiplesApart
  <2> QED BY <1>1, <1>9, <2>1, <2>2
<1>11. /\ ae \in Nat /\ ab <= ae /\ ae <= base /\ addr + size < ae + Word
       /\ ae > ab => ae <= addr + size
  BY <1>4, <1>5, <1>6, <1>7
<1> QED
  BY <1>5, <1>8, <1>10, <1>11 DEF ab, ae

LEMMA SrcByte ==
  ASSUME NEW p \in Int, NEW size \in Nat
  PROVE  Src(p, size) \in Byte
BY DEF Src, Junk, Byte

\* A byte of the request that stands at a belongs at a.
LEMMA SrcInPlace ==
  ASSUME NEW addr \in Nat, NEW size \in Nat, NEW a \in Nat, a >= addr, a < addr + size
  PROVE  Src(a - addr, size) = {a - addr}
BY DEF Src

\* The first word.
LEMMA HeadGood ==
  ASSUME NEW addr, NEW size, NEW aligned, InFs(addr, size)
  PROVE  \/ WriteHead(addr, size) = <<>> /\ alignedBegin(addr) = addr
         \/ \E r : /\ WriteHead(addr, size) = <<r>> /\ GoodRequest(addr, size, aligned, r)
                   /\ \A a \in Nat : a >= addr /\ a < alignedBegin(addr) => Covers(r, a)
<1> DEFINE ab == alignedBegin(addr)
           ofs == ab - addr
           nb == Shortest(size, ofs)
           r == [at |-> ab - Word,
                 bytes |-> [j \in 1..Word |-> IF j > Word - ofs /\ j <= Word - ofs + nb
                                                 THEN Src(j - 1 - (Word - ofs), size) ELSE Blank]]
<1>1. /\ addr \in Nat /\ size \in Nat /\ Word \in Nat \ {0} /\ ab \in Nat /\ addr <= ab /\ ab < addr + Word
      /\ ab <= base /\ base \in Nat /\ (ab # addr => ab >= Word)
  <2>1. addr \in Nat /\ size \in Nat /\ base \in Nat /\ Word \in Nat \ {0}
    BY Layout DEF InFs
  <2>2. /\ ab \in Nat /\ addr <= ab /\ ab < addr + Word /\ (ab # addr => ab >= Word)
        /\ ab <= alignedEnd(addr, size) /\ alignedEnd(addr, size) <= base /\ alignedEnd(addr, size) \in Nat
    BY Bounds
  <2> HIDE DEF ab
  <2> QED BY <2>1, <2>2
<1>2. WriteHead(addr, size) = IF ofs = 0 THEN <<>> ELSE <<r>>
  BY DEF WriteHead
<1> HIDE DEF ab
<1>3. CASE ofs = 0
  BY <1>1, <1>2, <1>3 DEF ab
<1>4. CASE ofs # 0
  <2>1. ofs \in 1..Word - 1 /\ nb \in 0..ofs /\ ab >= Word
    BY <1>1, <1>4 DEF Shortest
  <2>2. r.bytes \in [1..Word -> Byte]
    <3>1. Blank \in Byte
      BY DEF Blank, Byte
    <3>2. \A j \in 1..Word : Src(j - 1 - (Word - ofs), size) \in Byte
      BY <1>1, <2>1, SrcByte
    <3> QED BY <3>1, <3>2
  <2>3. r.bytes \in Seq(Byte) /\ Len(r.bytes) = Word
    BY <1>1, <2>2, MadeSeq
  <2>4. r.at \in Nat /\ r.at = ab - Word /\ r.at + Len(r.bytes) <= base
    BY <1>1, <2>1, <2>3
  <2>5. ASSUME NEW a \in Nat, Covers(r, a)
        PROVE  r.bytes[a - r.at + 1] = IF a >= addr /\ a < addr + size THEN {a - addr} ELSE Blank
    <3> DEFINE j == a - r.at + 1
    <3>1. a >= ab - Word /\ a < ab
      BY <1>1, <2>3, <2>4, <2>5 DEF Covers
    <3>2. j \in 1..Word /\ j - 1 - (Word - ofs) = a - addr
      BY <1>1, <2>4, <3>1
    <3>3. (j > Word - ofs /\ j <= Word - ofs + nb) <=> (a >= addr /\ a < addr + size)
      BY <1>1, <2>1, <2>4, <3>1 DEF Shortest
    <3> HIDE DEF j
    <3>4. r.bytes[j] = IF a >= addr /\ a < addr + size THEN Src(a - addr, size) ELSE Blank
      BY <3>2, <3>3
    <3>5. r.bytes[j] = IF a >= addr /\ a < addr + size THEN {a - addr} ELSE Blank
      BY <1>1, <3>4, SrcInPlace
    <3> QED BY <3>5 DEF j
  <2>6. \A a \in Nat : a >= addr /\ a < ab => Covers(r, a)
    BY <1>1, <2>3, <2>4 DEF Covers
  <2> HIDE DEF r
  <2>7. GoodRequest(addr, size, aligned, r)
    BY <2>3, <2>4, <2>5 DEF GoodRequest
  <2> QED BY <1>2, <1>4, <2>6, <2>7 DEF ab
<1> QED
  BY <1>3, <1>4

\* The last word.
LEMMA TailGood ==
  ASSUME NEW addr, NEW size, NEW aligned, InFs(addr, size)
  PROVE  \/ WriteTail(addr, size) = <<>> /\ addr + size <= alignedEnd(addr, size)
         \/ \E r : /\ WriteTail(addr, size) = <<r>> /\ GoodRequest(addr, size, aligned, r)
                   /\ \A a \in Nat : a >= alignedEnd(addr, size) /\ a < addr + size => Covers(r, a)
<1> DEFINE ae == alignedEnd(addr, size)
           nb == addr + size - ae
           r == [at |-> ae,
                 bytes |-> [j \in 1..Word |-> IF j <= nb THEN Src(size - nb + j - 1, size) ELSE Blank]]
<1>1. /\ addr \in Nat /\ size \in Nat /\ Word \in Nat \ {0} /\ ae \in Nat /\ addr <= ae
      /\ addr + size < ae + Word /\ base \in Nat /\ (ae < addr + size => ae + Word <= base)
  <2>1. addr \in Nat /\ size \in Nat /\ base \in Nat /\ Word \in Nat \ {0}
    BY Layout DEF InFs
  <2>2. /\ ae \in Nat /\ addr + size < ae + Word /\ (ae < addr + size => ae + Word <= base)
        /\ addr <= alignedBegin(addr) /\ alignedBegin(addr) <= ae /\ alignedBegin(addr) \in Nat
    BY Bounds
  <2> HIDE DEF ae
  <2> QED BY <2>1, <2>2
<1>2. WriteTail(addr, size) = IF nb <= 0 THEN <<>> ELSE <<r>>
  BY DEF WriteTail
<1> HIDE DEF ae
<1>3. CASE nb <= 0
  <2>1. addr + size <= ae
    BY <1>1, <1>3
  <2> QED BY <1>2, <1>3, <2>1 DEF ae
<1>4. CASE ~(nb <= 0)
  <2>1. nb \in 1..Word - 1 /\ ae + Word <= base
    BY <1>1, <1>4
  <2>2. r.bytes \in [1..Word -> Byte]
    <3>1. Blank \in Byte
      BY DEF Blank, Byte
    <3>2. \A j \in 1..Word : Src(size - nb + j - 1, size) \in Byte
      BY <1>1, <2>1, SrcByte
    <3> QED BY <3>1, <3>2
  <2>3. r.bytes \in Seq(Byte) /\ Len(r.bytes) = Word
    BY <1>1, <2>2, MadeSeq
  <2>4. r.at \in Nat /\ r.at = ae /\ r.at + Len(r.bytes) <= base
    BY <1>1, <2>1, <2>3
  <2>5. ASSUME NEW a \in Nat, Covers(r, a)
        PROVE  r.bytes[a - r.at + 1] = IF a >= addr /\ a < addr + size THEN {a - addr} ELSE Blank
    <3> DEFINE j == a - r.at + 1
    <3>1. a >= ae /\ a < ae + Word
      BY <1>1, <2>3, <2>4, <2>5 DEF Covers
    <3>2. j \in 1..Word /\ size - nb + j - 1 = a - addr
      BY <1>1, <2>4, <3>1
    <3>3. (j <= nb) <=> (a >= addr /\ a < addr + size)
      BY <1>1, <2>1, <2>4, <3>1
    <3> HIDE DEF j
    <3>4. r.bytes[j] = IF a >= addr /\ a < addr + size THEN Src(a - addr, size) ELSE Blank
      BY <3>2, <3>3
    <3>5. r.bytes[j] = IF a >= addr /\ a < addr + size THEN {a - addr} ELSE Blank
      BY <1>1, <3>4, SrcInPlace
    <3> QED BY <3>5 DEF j
  <2>6. \A a \in Nat : a >= ae /\ a < addr + size => Covers(r, a)
    BY <1>1, <2>3, <2>4 DEF Covers
  <2> HIDE DEF r
  <2>7. GoodRequest(addr, size, aligned, r)
    BY <2>3, <2>4, <2>5 DEF GoodRequest
  <2> QED BY <1>2, <1>4, <2>6, <2>7 DEF ae
<1> QED
  BY <1>3, <1>4

\* The words in between: chunk k begins before their end.
LEMMA ChunkStarts ==
  ASSUME NEW total \in Nat, NEW step \in Nat \ {0}, NEW k \in 1..((total + step - 1) \div step)
  PROVE  (k - 1) * step \in Nat /\ (k - 1) * step < total /\ (total <= step => k = 1)
<1> DEFINE n == (total + step - 1) \div step
<1>1. total + step - 1 \in Nat
  OBVIOUS
<1>2. /\ n \in Nat /\ (total + step - 1) % step \in 0..step - 1
      /\ total + step - 1 = step * n + ((total + step - 1) % step)
  BY <1>1, DivMod
<1> HIDE DEF n
<1>3. k \in 1..n
  BY DEF n
<1>4. step * k <= step * n /\ step * n \in Nat /\ step * k \in Nat
  BY <1>2, <1>3
<1>5. (k - 1) * step = step * k - step
  BY <1>2, <1>3
<1>6. (k - 1) * step < total
  BY <1>2, <1>4, <1>5
<1>7. (k - 1) * step \in Nat
  BY <1>3, <1>2
<1>8. k # 1 => (k - 1) * step >= step
  <2>1. k # 1 => k - 1 >= 1 /\ k - 1 \in Nat
    BY <1>3, <1>2
  <2>2. \A x \in Nat : x >= 1 => x * step >= step
    OBVIOUS
  <2> QED BY <2>1, <2>2
<1> QED
  BY <1>6, <1>7, <1>8

LEMMA BodyGood ==
  ASSUME NEW addr, NEW size, NEW aligned \in BOOLEAN, InFs(addr, size)
  PROVE  /\ \E n \in Nat : WriteBody(addr, size, aligned) = [k \in 1..n |-> WriteBody(addr, size, aligned)[k]]
         /\ \A k \in DOMAIN WriteBody(addr, size, aligned) :
              GoodRequest(addr, size, aligned, WriteBody(addr, size, aligned)[k])
         /\ OneChunk(addr, size, aligned) =>
              \A a \in Nat : a >= alignedBegin(addr) /\ a < alignedEnd(addr, size) =>
                \E k \in DOMAIN WriteBody(addr, size, aligned) :
                  Covers(WriteBody(addr, size, aligned)[k], a)
<1> DEFINE ab == alignedBegin(addr)
           ae == alignedEnd(addr, size)
           total == ae - ab
           step == IF aligned THEN Longest(total, 1) ELSE Buf
           n == (total + step - 1) \div step
           Chunk(k) == [at    |-> ab + k * step,
                        bytes |-> [j \in 1..Shortest(step, total - k * step) |->
                                    Src(ab - addr + Word * k * step + j - 1, size)]]
           body == [k \in 1..n |-> Chunk(k - 1)]
<1>1. /\ addr \in Nat /\ size \in Nat /\ Word \in Nat \ {0} /\ ab \in Nat /\ ae \in Nat
      /\ addr <= ab /\ ab <= ae /\ ae <= base /\ base \in Nat /\ (ae > ab => ae <= addr + size)
  <2>1. addr \in Nat /\ size \in Nat /\ base \in Nat /\ Word \in Nat \ {0}
    BY Layout DEF InFs
  <2> HIDE DEF ab, ae
  <2>2. /\ ab \in Nat /\ ae \in Nat /\ addr <= ab /\ ab <= ae /\ ae <= base /\ (ae > ab => ae <= addr + size)
    BY Bounds DEF ab, ae
  <2> QED BY <2>1, <2>2
<1>2. WriteBody(addr, size, aligned) = body
  BY DEF WriteBody
<1>3. OneChunk(addr, size, aligned) <=> aligned \/ total <= Buf
  BY DEF OneChunk
<1> HIDE DEF ab, ae
<1>4. total \in Nat
  BY <1>1
<1> HIDE DEF total
<1>5. step \in Nat \ {0} /\ (OneChunk(addr, size, aligned) => total <= step)
  BY <1>3, <1>4, HalAssumption DEF Longest
<1> HIDE DEF step
<1>6. n \in Nat
  <2>1. total + step - 1 \in Nat
    BY <1>4, <1>5
  <2> QED BY <1>5, <2>1, DivMod
<1>7. DOMAIN body = 1..n /\ body = [k \in 1..n |-> body[k]]
  OBVIOUS
<1>8. ASSUME NEW k \in 1..n
      PROVE  /\ GoodRequest(addr, size, aligned, body[k])
             /\ OneChunk(addr, size, aligned) =>
                  \A a \in Nat : a >= ab /\ a < ae => Covers(body[k], a)
  <2> DEFINE r == body[k]
             s == (k - 1) * step
             len == Shortest(step, total - s)
  <2>1. s \in Nat /\ s < total /\ (total <= step => k = 1)
    BY <1>4, <1>5, ChunkStarts
  <2>2. /\ r.at = ab + s
        /\ r.bytes = [j \in 1..len |-> Src(ab - addr + Word * (k - 1) * step + j - 1, size)]
    OBVIOUS
  <2>3. Word * (k - 1) * step \in Int /\ (k = 1 => Word * (k - 1) * step = 0 /\ s = 0)
    BY <1>1, <1>5, <1>6
  <2> DEFINE skip == Word * (k - 1) * step
  <2> HIDE DEF r, s, skip
  <2>4. len \in Nat /\ len <= total - s /\ (total <= step /\ s = 0 => len = total)
    BY <1>4, <1>5, <2>1 DEF Shortest
  <2> HIDE DEF len
  <2>5. r.bytes = [j \in 1..len |-> Src(ab - addr + skip + j - 1, size)] /\ skip \in Int
    BY <2>2, <2>3 DEF skip
  <2>6. r.bytes \in [1..len -> Byte]
    <3>1. \A j \in 1..len : Src(ab - addr + skip + j - 1, size) \in Byte
      BY <1>1, <2>4, <2>5, SrcByte
    <3> QED BY <2>5, <3>1
  <2>7. r.bytes \in Seq(Byte) /\ Len(r.bytes) = len
    BY <2>4, <2>6, MadeSeq
  <2>8. r.at \in Nat /\ r.at + Len(r.bytes) <= base
    <3>1. total = ae - ab
      BY DEF total
    <3> QED BY <1>1, <2>1, <2>2, <2>4, <2>7, <3>1
  <2>9. ASSUME OneChunk(addr, size, aligned)
        PROVE  r.at = ab /\ Len(r.bytes) = ae - ab /\ skip = 0 /\ ab < ae
    <3>1. k = 1 /\ total = ae - ab
      BY <1>5, <2>1, <2>9 DEF total
    <3>2. s = 0 /\ skip = 0
      BY <2>3, <3>1 DEF skip
    <3> QED BY <1>1, <1>5, <2>1, <2>2, <2>4, <2>7, <2>9, <3>1, <3>2
  <2>10. ASSUME OneChunk(addr, size, aligned), NEW a \in Nat, Covers(r, a)
         PROVE  r.bytes[a - r.at + 1] = IF a >= addr /\ a < addr + size THEN {a - addr} ELSE Blank
    <3>1. a >= ab /\ a < ae /\ a >= addr /\ a < addr + size
      BY <1>1, <2>9, <2>10 DEF Covers
    <3> DEFINE j == a - r.at + 1
    <3>2. j \in 1..len /\ ab - addr + skip + j - 1 = a - addr
      BY <1>1, <2>7, <2>9, <2>10, <3>1
    <3> HIDE DEF j
    <3>3. r.bytes[j] = Src(a - addr, size)
      BY <2>5, <3>2
    <3>4. r.bytes[j] = {a - addr}
      BY <1>1, <3>1, <3>3, SrcInPlace
    <3> QED BY <3>1, <3>4 DEF j
  <2>11. OneChunk(addr, size, aligned) => \A a \in Nat : a >= ab /\ a < ae => Covers(r, a)
    BY <1>1, <2>9 DEF Covers
  <2>12. GoodRequest(addr, size, aligned, r)
    BY <2>7, <2>8, <2>10 DEF GoodRequest
  <2> QED
    BY <2>11, <2>12 DEF r
<1>9. ASSUME OneChunk(addr, size, aligned), NEW a \in Nat, a >= ab, a < ae
      PROVE  1 \in 1..n
  <2>1. total > 0 /\ total + step - 1 \in Nat /\ total + step - 1 >= step
    BY <1>1, <1>4, <1>5, <1>9 DEF total
  <2>2. total + step - 1 = step * n + ((total + step - 1) % step) /\ (total + step - 1) % step \in 0..step - 1
    BY <1>5, <2>1, DivMod
  <2> HIDE DEF n
  <2>3. n # 0
    <3>1. n = 0 => step * n = 0
      BY <1>5
    <3> QED BY <1>4, <1>5, <2>1, <2>2, <3>1
  <2> QED BY <1>6, <2>3
<1> HIDE DEF body
<1> QED
  BY <1>2, <1>6, <1>7, <1>8, <1>9 DEF ab, ae

\* Every element of s is one of u.
Occurs(s, u) == \A i \in 1..Len(s) : \E j \in 1..Len(u) : u[j] = s[i]

\* The elements of two sequences are elements of their concatenation.
LEMMA ConcatElements ==
  ASSUME NEW S, NEW h \in Seq(S), NEW b \in Seq(S)
  PROVE  /\ h \o b \in Seq(S) /\ Len(h \o b) \in Nat
         /\ Occurs(h, h \o b) /\ Occurs(b, h \o b)
<1>1. Len(h) \in Nat /\ Len(b) \in Nat
  BY LenProperties
<1>2. /\ h \o b \in Seq(S) /\ Len(h \o b) = Len(h) + Len(b)
      /\ \A i \in 1..Len(h) + Len(b) : (h \o b)[i] = IF i <= Len(h) THEN h[i] ELSE b[i - Len(h)]
  BY ConcatProperties
<1>3. ASSUME NEW i \in 1..Len(h) PROVE \E j \in 1..Len(h \o b) : (h \o b)[j] = h[i]
  <2>1. i \in 1..Len(h) + Len(b) /\ i <= Len(h)
    BY <1>1
  <2> QED BY <1>2, <2>1
<1>4. ASSUME NEW i \in 1..Len(b) PROVE \E j \in 1..Len(h \o b) : (h \o b)[j] = b[i]
  <2>1. Len(h) + i \in 1..Len(h) + Len(b) /\ ~(Len(h) + i <= Len(h)) /\ (Len(h) + i) - Len(h) = i
    BY <1>1
  <2>2. (h \o b)[Len(h) + i] = b[i]
    BY <1>2, <2>1
  <2> QED BY <1>2, <2>1, <2>2
<1>5. Occurs(h, h \o b)
  BY <1>3 DEF Occurs
<1>6. Occurs(b, h \o b)
  BY <1>4 DEF Occurs
<1> QED
  BY <1>1, <1>2, <1>5, <1>6

\* All the requests are good, and together they cover what was asked for.
LEMMA RequestsGood ==
  ASSUME NEW addr, NEW size, NEW aligned \in BOOLEAN, InFs(addr, size)
  PROVE  /\ Len(Requests(addr, size, aligned)) \in Nat
         /\ \A j \in 1..Len(Requests(addr, size, aligned)) :
              GoodRequest(addr, size, aligned, Requests(addr, size, aligned)[j])
         /\ OneChunk(addr, size, aligned) =>
              \A a \in Nat : a >= addr /\ a < addr + size =>
                \E j \in 1..Len(Requests(addr, size, aligned)) : Covers(Requests(addr, size, aligned)[j], a)
<1> DEFINE h == WriteHead(addr, size)
           b == WriteBody(addr, size, aligned)
           t == WriteTail(addr, size)
           reqs == Requests(addr, size, aligned)
           S == {h[i] : i \in DOMAIN h} \cup {b[i] : i \in DOMAIN b} \cup {t[i] : i \in DOMAIN t}
<1>1. reqs = (h \o b) \o t
  BY DEF Requests
<1>2. PICK n \in Nat : b = [k \in 1..n |-> b[k]]
  BY BodyGood
<1>3. /\ \A k \in DOMAIN b : GoodRequest(addr, size, aligned, b[k])
      /\ OneChunk(addr, size, aligned) =>
           \A a \in Nat : a >= alignedBegin(addr) /\ a < alignedEnd(addr, size) =>
             \E k \in DOMAIN b : Covers(b[k], a)
  BY BodyGood
<1>4. /\ \A i \in DOMAIN h : GoodRequest(addr, size, aligned, h[i])
      /\ \A a \in Nat : a >= addr /\ a < alignedBegin(addr) => \E i \in DOMAIN h : Covers(h[i], a)
      /\ h \in Seq(S)
  <2>1. CASE h = <<>> /\ alignedBegin(addr) = addr
    <3>1. addr \in Nat
      BY DEF InFs
    <3>2. h \in Seq(S)
      BY <2>1, EmptySeq
    <3> QED BY <2>1, <3>1, <3>2
  <2>2. ASSUME NEW r, h = <<r>>, GoodRequest(addr, size, aligned, r),
               \A a \in Nat : a >= addr /\ a < alignedBegin(addr) => Covers(r, a)
        PROVE  <1>4
    <3>1. DOMAIN h = 1..1 /\ h[1] = r /\ 1 \in 1..1
      BY <2>2
    <3>2. h \in Seq(S)
      <4>1. h = [i \in 1..1 |-> h[i]]
        BY <2>2
      <4>2. h \in [1..1 -> S]
        BY <3>1, <4>1
      <4> HIDE DEF S, h
      <4>3. 1 \in Nat
        OBVIOUS
      <4> QED BY <4>2, <4>3, MadeSeq
    <3> HIDE DEF h
    <3> QED BY <2>2, <3>1, <3>2
  <2> HIDE DEF S
  <2> QED BY <2>1, <2>2, HeadGood
<1>5. /\ \A i \in DOMAIN t : GoodRequest(addr, size, aligned, t[i])
      /\ \A a \in Nat : a >= alignedEnd(addr, size) /\ a < addr + size => \E i \in DOMAIN t : Covers(t[i], a)
      /\ t \in Seq(S)
  <2>1. CASE t = <<>> /\ addr + size <= alignedEnd(addr, size)
    <3>1. addr \in Nat /\ size \in Nat /\ alignedEnd(addr, size) \in Nat
      BY Bounds DEF InFs
    <3>2. t \in Seq(S)
      BY <2>1, EmptySeq
    <3> QED BY <2>1, <3>1, <3>2
  <2>2. ASSUME NEW r, t = <<r>>, GoodRequest(addr, size, aligned, r),
               \A a \in Nat : a >= alignedEnd(addr, size) /\ a < addr + size => Covers(r, a)
        PROVE  <1>5
    <3>1. DOMAIN t = 1..1 /\ t[1] = r /\ 1 \in 1..1
      BY <2>2
    <3>2. t \in Seq(S)
      <4>1. t = [i \in 1..1 |-> t[i]]
        BY <2>2
      <4>2. t \in [1..1 -> S]
        BY <3>1, <4>1
      <4> HIDE DEF S, t
      <4>3. 1 \in Nat
        OBVIOUS
      <4> QED BY <4>2, <4>3, MadeSeq
    <3> HIDE DEF t
    <3> QED BY <2>2, <3>1, <3>2
  <2> HIDE DEF S
  <2> QED BY <2>1, <2>2, TailGood
<1>6. b \in Seq(S)
  <2>1. DOMAIN b = 1..n
    BY <1>2
  <2>2. b \in [1..n -> S]
    BY <1>2, <2>1
  <2> HIDE DEF S, b
  <2> QED BY <2>2, MadeSeq
<1>7. \A r \in S : GoodRequest(addr, size, aligned, r)
  BY <1>3, <1>4, <1>5
<1> HIDE DEF S, h, b, t, reqs
<1>8. h \o b \in Seq(S) /\ Occurs(h, h \o b) /\ Occurs(b, h \o b)
  BY <1>4, <1>6, ConcatElements
<1>9. reqs \in Seq(S) /\ Len(reqs) \in Nat /\ Occurs(h \o b, reqs) /\ Occurs(t, reqs)
  BY <1>1, <1>5, <1>8, ConcatElements
<1>10. DOMAIN h = 1..Len(h) /\ DOMAIN b = 1..Len(b) /\ DOMAIN t = 1..Len(t)
  BY <1>4, <1>5, <1>6, LenProperties
<1>11. \A j \in 1..Len(reqs) : GoodRequest(addr, size, aligned, reqs[j])
  BY <1>7, <1>9, ElementOfSeq
<1>12. ASSUME OneChunk(addr, size, aligned), NEW a \in Nat, a >= addr, a < addr + size
       PROVE  \E j \in 1..Len(reqs) : Covers(reqs[j], a)
  <2>1. \/ \E i \in 1..Len(h) : Covers(h[i], a)
        \/ \E i \in 1..Len(b) : Covers(b[i], a)
        \/ \E i \in 1..Len(t) : Covers(t[i], a)
    <3>1. alignedBegin(addr) \in Nat /\ alignedEnd(addr, size) \in Nat
      BY Bounds
    <3>2. \/ a < alignedBegin(addr)
          \/ a >= alignedBegin(addr) /\ a < alignedEnd(addr, size)
          \/ a >= alignedEnd(addr, size)
      BY <3>1
    <3> QED BY <1>3, <1>4, <1>5, <1>10, <1>12, <3>2
  <2> DEFINE hb == h \o b
  <2>2. Occurs(h, hb) /\ Occurs(b, hb) /\ Occurs(hb, reqs)
    BY <1>8, <1>9
  <2> HIDE DEF hb
  <2> QED BY <1>9, <2>1, <2>2 DEF Occurs
<1> QED
  BY <1>9, <1>11, <1>12 DEF reqs

-------------------------------------------------------------------------------
(* What the calls of the file system do. *)

\* g is f with some of what a write is asked to program, and nothing else.
Partly(addr, size, aligned, f, g) ==
  /\ g \in [Addresses -> Byte]
  /\ \A a \in Addresses :
       /\ a >= base => g[a] = f[a]
       /\ OneChunk(addr, size, aligned) =>
            IF a >= addr /\ a < addr + size THEN g[a] = f[a] \/ g[a] = f[a] \cup {a - addr}
                                            ELSE g[a] = f[a]

LEMMA PartlyTwice ==
  ASSUME NEW addr, NEW size, NEW aligned, NEW f, NEW g, NEW h,
         Partly(addr, size, aligned, f, g), Partly(addr, size, aligned, g, h)
  PROVE  Partly(addr, size, aligned, f, h)
<1>1. ASSUME NEW x, NEW y, NEW z, NEW m, y = x \/ y = x \cup {m}, z = y \/ z = y \cup {m}
      PROVE  z = x \/ z = x \cup {m}
  BY <1>1
<1> QED
  BY <1>1 DEF Partly

\* A request, carried out or broken off.
LEMMA ProgrammedPartly ==
  ASSUME NEW addr, NEW size, NEW aligned, NEW f \in [Addresses -> Byte], NEW r, InFs(addr, size),
         GoodRequest(addr, size, aligned, r), NEW n \in 0..Len(r.bytes)
  PROVE  Partly(addr, size, aligned, f, Programmed(f, r, n))
<1> DEFINE g == Programmed(f, r, n)
<1>1. r.at \in Nat /\ Len(r.bytes) \in Nat /\ r.at + Len(r.bytes) <= base /\ base \in Nat
  BY Layout, LenProperties DEF GoodRequest
<1>2. \A a \in Addresses : a \in Nat
  BY Layout
<1>3. \A a \in Addresses : a >= r.at /\ a < r.at + n =>
        Covers(r, a) /\ a < base /\ a - r.at + 1 \in 1..Len(r.bytes)
  BY <1>1, <1>2 DEF Covers
<1>4. \A a \in Addresses : g[a] = IF a >= r.at /\ a < r.at + n THEN f[a] \cup r.bytes[a - r.at + 1] ELSE f[a]
  BY DEF Programmed
<1>5. g \in [Addresses -> Byte]
  <2>1. \A x, y \in Byte : x \cup y \in Byte
    BY DEF Byte
  <2>2. \A i \in 1..Len(r.bytes) : r.bytes[i] \in Byte
    BY ElementOfSeq DEF GoodRequest
  <2>3. \A a \in Addresses : g[a] \in Byte
    BY <1>3, <1>4, <2>1, <2>2
  <2> QED BY <2>3 DEF Programmed
<1>6. \A a \in Addresses : a >= base => g[a] = f[a]
  <2>1. \A a \in Addresses : a >= base => ~(a < base)
    BY <1>1, <1>2
  <2> HIDE DEF g
  <2> QED BY <1>3, <1>4, <2>1
<1>7. ASSUME OneChunk(addr, size, aligned), NEW a \in Addresses
      PROVE  IF a >= addr /\ a < addr + size THEN g[a] = f[a] \/ g[a] = f[a] \cup {a - addr}
                                             ELSE g[a] = f[a]
  <2>1. CASE a >= r.at /\ a < r.at + n
    <3>1. r.bytes[a - r.at + 1] = IF a >= addr /\ a < addr + size THEN {a - addr} ELSE Blank
      BY <1>2, <1>3, <1>7, <2>1 DEF GoodRequest
    <3>2. g[a] = f[a] \cup (IF a >= addr /\ a < addr + size THEN {a - addr} ELSE {})
      BY <1>4, <2>1, <3>1 DEF Blank
    <3> HIDE DEF g
    <3> QED BY <3>2
  <2>2. CASE ~(a >= r.at /\ a < r.at + n)
    BY <1>4, <2>2
  <2> QED BY <2>1, <2>2
<1> HIDE DEF g
<1>8. Partly(addr, size, aligned, f, g)
  BY <1>5, <1>6, <1>7 DEF Partly
<1> QED
  BY <1>8 DEF g

\* The first k requests, and all of them.
LEMMA DonePartly ==
  ASSUME NEW addr, NEW size, NEW aligned, NEW f \in [Addresses -> Byte], NEW reqs, NEW k \in Nat,
         InFs(addr, size), \A j \in 1..k : GoodRequest(addr, size, aligned, reqs[j])
  PROVE  /\ Partly(addr, size, aligned, f, Done(f, reqs, k))
         /\ OneChunk(addr, size, aligned) =>
              \A a \in Addresses : a >= addr /\ a < addr + size /\ (\E j \in 1..k : Covers(reqs[j], a)) =>
                Done(f, reqs, k)[a] = f[a] \cup {a - addr}
<1> DEFINE g == Done(f, reqs, k)
           Of(a) == {j \in 1..k : Covers(reqs[j], a)}
           Marks(a) == UNION {reqs[j].bytes[a - reqs[j].at + 1] : j \in Of(a)}
<1>1. g = [a \in Addresses |-> f[a] \cup Marks(a)]
  BY DEF Done
<1>2. \A a \in Addresses : a \in Nat
  BY Layout
<1>3. ASSUME NEW a \in Addresses, NEW j \in Of(a)
      PROVE  a < base /\ reqs[j].bytes[a - reqs[j].at + 1] \in Byte
  <2> DEFINE r == reqs[j]
  <2>1. GoodRequest(addr, size, aligned, r) /\ Covers(r, a)
    OBVIOUS
  <2> HIDE DEF r
  <2>2. r.at \in Nat /\ r.bytes \in Seq(Byte) /\ Len(r.bytes) \in Nat /\ r.at + Len(r.bytes) <= base /\ base \in Nat
    BY <2>1, Layout, LenProperties DEF GoodRequest
  <2>3. a < base /\ a - r.at + 1 \in 1..Len(r.bytes)
    BY <1>2, <2>1, <2>2 DEF Covers
  <2>4. r.bytes[a - r.at + 1] \in Byte
    BY <2>2, <2>3, ElementOfSeq
  <2> QED BY <2>3, <2>4 DEF r
<1>4. ASSUME OneChunk(addr, size, aligned), NEW a \in Addresses, NEW j \in Of(a)
      PROVE  reqs[j].bytes[a - reqs[j].at + 1] = IF a >= addr /\ a < addr + size THEN {a - addr} ELSE {}
  BY <1>2, <1>4 DEF GoodRequest, Blank
<1> HIDE DEF Of
<1>5. ASSUME NEW a \in Addresses PROVE Marks(a) \in Byte /\ (a >= base => Marks(a) = {})
  <2>1. Marks(a) \in Byte
    BY <1>3 DEF Byte
  <2>2. a >= base => Of(a) = {}
    BY <1>2, <1>3, Layout
  <2> QED BY <2>1, <2>2
<1>6. ASSUME OneChunk(addr, size, aligned), NEW a \in Addresses
      PROVE  /\ ~(a >= addr /\ a < addr + size) => Marks(a) = {}
             /\ a >= addr /\ a < addr + size => Marks(a) = IF Of(a) = {} THEN {} ELSE {a - addr}
  <2>1. CASE a >= addr /\ a < addr + size
    <3>1. \A j \in Of(a) : reqs[j].bytes[a - reqs[j].at + 1] = {a - addr}
      BY <1>4, <1>6, <2>1
    <3> QED BY <2>1, <3>1
  <2>2. CASE ~(a >= addr /\ a < addr + size)
    <3>1. \A j \in Of(a) : reqs[j].bytes[a - reqs[j].at + 1] = {}
      BY <1>4, <1>6, <2>2
    <3> QED BY <2>2, <3>1
  <2> QED BY <2>1, <2>2
<1> HIDE DEF Marks, g
<1>7. g \in [Addresses -> Byte]
  <2>1. \A x, y \in Byte : x \cup y \in Byte
    BY DEF Byte
  <2> QED BY <1>1, <1>5, <2>1
<1>8. \A a \in Addresses : g[a] = f[a] \cup Marks(a)
  BY <1>1
<1>9. Partly(addr, size, aligned, f, g)
  <2>1. \A a \in Addresses : a >= base => g[a] = f[a]
    BY <1>5, <1>8
  <2>2. ASSUME OneChunk(addr, size, aligned), NEW a \in Addresses
        PROVE  IF a >= addr /\ a < addr + size THEN g[a] = f[a] \/ g[a] = f[a] \cup {a - addr}
                                               ELSE g[a] = f[a]
    BY <1>6, <1>8, <2>2
  <2> QED BY <1>7, <2>1, <2>2 DEF Partly
<1>10. ASSUME OneChunk(addr, size, aligned), NEW a \in Addresses, a >= addr, a < addr + size,
              \E j \in 1..k : Covers(reqs[j], a)
       PROVE  g[a] = f[a] \cup {a - addr}
  <2>1. Of(a) # {}
    BY <1>10 DEF Of
  <2> QED BY <1>6, <1>8, <1>10, <2>1
<1> QED
  BY <1>9, <1>10 DEF g

LEMMA CallInFs ==
  ASSUME NEW c \in Calls
  PROVE  InFs(c[1], c[2])
BY HalAssumption DEF InFs, base

LEMMA HalWriteSound ==
  ASSUME flash \in [Addresses -> Byte], NEW addr, NEW size, NEW aligned \in BOOLEAN, InFs(addr, size),
         HalWrite(addr, size, aligned)
  PROVE  /\ flash' \in [Addresses -> Byte]
         /\ \A i \in 1..Sec : flash'[base + i - 1] = flash[base + i - 1]
         /\ WriteExact' /\ AlignedReadExact'
<1> DEFINE reqs == Requests(addr, size, aligned)
           Call(ok) == [op |-> "write", addr |-> addr, size |-> size, aligned |-> aligned,
                        ok |-> ok, before |-> flash]
           All == \A a \in Addresses : a >= addr /\ a < addr + size => flash'[a] = flash[a] \cup {a - addr}
<1>1. \/ flash' = Done(flash, reqs, Len(reqs)) /\ hal' = Call(TRUE)
      \/ \E k \in 1..Len(reqs) : \E n \in Cut(reqs[k]) :
           flash' = Programmed(Done(flash, reqs, k - 1), reqs[k], n) /\ hal' = Call(FALSE)
  BY DEF HalWrite
<1>2. /\ Len(reqs) \in Nat
      /\ \A j \in 1..Len(reqs) : GoodRequest(addr, size, aligned, reqs[j])
      /\ OneChunk(addr, size, aligned) =>
           \A a \in Nat : a >= addr /\ a < addr + size => \E j \in 1..Len(reqs) : Covers(reqs[j], a)
  BY RequestsGood
<1> HIDE DEF reqs
<1>3. \A a \in Addresses : a \in Nat
  BY Layout
<1>4. /\ Partly(addr, size, aligned, flash, flash')
      /\ \/ hal' = Call(FALSE)
         \/ hal' = Call(TRUE) /\ (OneChunk(addr, size, aligned) => All)
  <2>1. CASE flash' = Done(flash, reqs, Len(reqs)) /\ hal' = Call(TRUE)
    <3>1. /\ Partly(addr, size, aligned, flash, flash')
          /\ OneChunk(addr, size, aligned) =>
               \A a \in Addresses : a >= addr /\ a < addr + size /\ (\E j \in 1..Len(reqs) : Covers(reqs[j], a)) =>
                 flash'[a] = flash[a] \cup {a - addr}
      BY <1>2, <2>1, DonePartly
    <3>2. OneChunk(addr, size, aligned) => All
      BY <1>2, <1>3, <3>1
    <3> QED BY <2>1, <3>1, <3>2
  <2>2. ASSUME NEW k \in 1..Len(reqs), NEW n \in Cut(reqs[k]),
               flash' = Programmed(Done(flash, reqs, k - 1), reqs[k], n), hal' = Call(FALSE)
        PROVE  Partly(addr, size, aligned, flash, flash') /\ hal' = Call(FALSE)
    <3>1. k - 1 \in Nat /\ \A j \in 1..k - 1 : GoodRequest(addr, size, aligned, reqs[j])
      BY <1>2
    <3>2. Partly(addr, size, aligned, flash, Done(flash, reqs, k - 1))
      BY <3>1, DonePartly
    <3>3. Len(reqs[k].bytes) \in Nat /\ GoodRequest(addr, size, aligned, reqs[k])
      BY <1>2, LenProperties DEF GoodRequest
    <3>4. n \in 0..Len(reqs[k].bytes)
      BY <3>3 DEF Cut
    <3>5. Done(flash, reqs, k - 1) \in [Addresses -> Byte]
      BY <3>2 DEF Partly
    <3>6. Partly(addr, size, aligned, Done(flash, reqs, k - 1), flash')
      BY <2>2, <3>3, <3>4, <3>5, ProgrammedPartly
    <3> QED BY <2>2, <3>2, <3>6, PartlyTwice
  <2> HIDE DEF Call, All
  <2> QED BY <1>1, <2>1, <2>2
<1>5. PICK ok \in BOOLEAN : hal' = Call(ok) /\ (ok /\ OneChunk(addr, size, aligned) => All)
  <2> HIDE DEF Call, All
  <2> QED BY <1>4
<1>6. flash' \in [Addresses -> Byte] /\ \A i \in 1..Sec : flash'[base + i - 1] = flash[base + i - 1]
  <2>1. \A i \in 1..Sec : base + i - 1 \in Addresses /\ base + i - 1 >= base
    BY Layout
  <2> QED BY <1>4, <2>1 DEF Partly
<1>7. /\ hal'.op = "write" /\ hal'.addr = addr /\ hal'.size = size /\ hal'.aligned = aligned
      /\ hal'.ok = ok /\ hal'.before = flash
  BY <1>5
<1>8. WriteExact'
  <2> SUFFICES ASSUME OneChunk(addr, size, aligned), NEW a \in 0..FsSectors * Sec - 1
               PROVE  IF a >= addr /\ a < addr + size
                        THEN flash'[a] = flash[a] \cup {a - addr} \/ (~ok /\ flash'[a] = flash[a])
                        ELSE flash'[a] = flash[a]
    BY <1>7 DEF WriteExact, OneChunk, Asked, Written
  <2>1. a \in Addresses
    <3>1. a \in 0..base - 1
      BY DEF base
    <3> QED BY <3>1, Layout
  <2> QED BY <1>4, <1>5, <2>1 DEF Partly
<1>9. AlignedReadExact'
  BY <1>7 DEF AlignedReadExact
<1> QED
  BY <1>6, <1>8, <1>9

\* A read from a word boundary.
LEMMA HalReadSound ==
  ASSUME NEW addr, NEW size, InFs(addr, size), HalRead(addr, size)
  PROVE  flash' = flash /\ WriteExact' /\ AlignedReadExact'
<1>1. flash' = flash /\ hal'.op = "read" /\ hal'.addr = addr /\ hal'.size = size
  BY DEF HalRead
<1>2. AlignedReadExact'
  <2> SUFFICES ASSUME hal'.ok, addr % Word = 0
               PROVE  hal'.dst = [p \in 1..size |-> flash[addr + p - 1]]
    BY <1>1 DEF AlignedReadExact
  <2>1. hal'.dst = [p \in 1..ReadLength(addr, size) |-> ReadByte(addr, size, p - 1)]
    <3> DEFINE D == [p \in 1..ReadLength(addr, size) |-> ReadByte(addr, size, p - 1)]
               Whole == [op |-> "read", addr |-> addr, size |-> size, ok |-> TRUE, dst |-> D]
               Failed == [op |-> "read", addr |-> addr, size |-> size, ok |-> FALSE]
    <3>1. hal' = Whole \/ hal' = Failed
      BY DEF HalRead
    <3> HIDE DEF D
    <3>2. hal' # Failed
      OBVIOUS
    <3>3. hal'.dst = D
      BY <3>1, <3>2
    <3> QED BY <3>3 DEF D
  <2>2. /\ addr \in Nat /\ size \in Nat /\ alignedBegin(addr) \in Nat /\ alignedEnd(addr, size) \in Nat
        /\ addr <= alignedBegin(addr)
    BY Bounds DEF InFs
  <2>3. alignedBegin(addr) = addr
    <3>1. Word \in Nat \ {0}
      BY Layout
    <3>2. addr \div Word \in Nat /\ addr = Word * (addr \div Word) + 0
      BY <2>2, <3>1, DivMod
    <3>3. addr = Word * (addr \div Word)
      BY <2>2, <3>1, <3>2
    <3>4. AlignUp(addr) <= addr
      BY <2>2, <3>2, <3>3, AlignUpLeast
    <3> QED BY <2>2, <3>4 DEF alignedBegin
  <2>4. ReadLength(addr, size) = size
    BY <2>2, <2>3 DEF ReadLength, Longest
  <2>5. ASSUME NEW p \in 1..size PROVE ReadByte(addr, size, p - 1) = flash[addr + p - 1]
    <3> DEFINE end == alignedEnd(addr, size)
    <3>1. /\ ~(p - 1 < alignedBegin(addr) - addr)
          /\ addr + (p - 1) = addr + p - 1 /\ end + (p - 1) - (end - addr) = addr + p - 1
      BY <2>2, <2>3
    <3> HIDE DEF end
    <3>2. ReadByte(addr, size, p - 1) = IF p - 1 < end - addr THEN flash[addr + (p - 1)]
                                       ELSE flash[end + (p - 1) - (end - addr)]
      BY <3>1 DEF ReadByte, end
    <3> QED BY <3>1, <3>2
  <2> QED BY <2>1, <2>4, <2>5
<1> QED
  BY <1>1, <1>2 DEF WriteExact

\* An erase stays within the file system.
LEMMA HalEraseSound ==
  ASSUME flash \in [Addresses -> Byte], NEW addr, NEW size, InFs(addr, size), HalErase(addr, size)
  PROVE  /\ flash' \in [Addresses -> Byte]
         /\ \A i \in 1..Sec : flash'[base + i - 1] = flash[base + i - 1]
         /\ WriteExact' /\ AlignedReadExact'
<1>1. PICK n : flash' = [a \in Addresses |->
                          IF \E s \in Sectors(addr, size) : a \in Sector(s) /\ s < addr \div Sec + n
                            THEN Blank ELSE flash[a]]
  BY DEF HalErase
<1>2. ASSUME NEW s \in Sectors(addr, size), NEW a \in Sector(s) PROVE a < base
  <2>1. addr + size \in Nat /\ addr \in Nat /\ addr + size <= base /\ Sec \in Nat \ {0} /\ FsSectors \in Nat
    BY Layout, FlashAssumption DEF InFs
  <2> DEFINE q == (addr + size) \div Sec
  <2>2. q \in Nat /\ addr + size = Sec * q + ((addr + size) % Sec) /\ (addr + size) % Sec \in 0..Sec - 1
    BY <2>1, DivMod
  <2>3. addr \div Sec \in Nat /\ s \in addr \div Sec..q - 1
    BY <2>1, DivMod DEF Sectors
  <2> HIDE DEF q
  <2>4. s \in Nat /\ s + 1 <= q
    BY <2>2, <2>3
  <2>5. (s + 1) * Sec <= q * Sec /\ q * Sec = Sec * q /\ q * Sec \in Nat /\ (s + 1) * Sec \in Nat
    BY <2>1, <2>2, <2>4
  <2>6. a < (s + 1) * Sec /\ a \in Int
    BY <2>1, <2>4 DEF Sector
  <2>7. Sec * q <= addr + size
    BY <2>1, <2>2
  <2> DEFINE e == (s + 1) * Sec
             f == Sec * q
  <2>8. e \in Nat /\ f \in Nat /\ e <= f /\ f <= addr + size /\ a < e
    BY <2>5, <2>6, <2>7
  <2> HIDE DEF e, f
  <2> QED BY <2>1, <2>6, <2>8, Layout
<1>3. \A i \in 1..Sec : base + i - 1 \in Addresses /\ ~(base + i - 1 < base)
  BY Layout
<1>4. \A i \in 1..Sec : flash'[base + i - 1] = flash[base + i - 1]
  BY <1>1, <1>2, <1>3
<1>5. flash' \in [Addresses -> Byte]
  <2>1. Blank \in Byte
    BY DEF Blank, Byte
  <2> QED BY <1>1, <2>1
<1>6. hal'.op = "erase"
  BY DEF HalErase
<1> QED
  BY <1>4, <1>5, <1>6 DEF WriteExact, AlignedReadExact

-------------------------------------------------------------------------------
(* The two users of the flash together. *)

StoreInv == EepromInv /\ WriteExact /\ AlignedReadExact

LEMMA StoreStep ==
  ASSUME StoreInv, [Next]_vars
  PROVE  StoreInv'
<1>1. CASE EepromStep /\ hal' = [op |-> "none"]
  <2>1. WriteExact' /\ AlignedReadExact'
    BY <1>1 DEF WriteExact, AlignedReadExact
  <2>2. EepromInv'
    <3>1. ASSUME NEW n \in Sizes, Begin(n) PROVE EepromInv'
      BY <3>1, BeginSound DEF StoreInv
    <3>2. ASSUME NEW a \in Places, NEW v \in Values, WriteByte(a, v) \/ StoreThrough(a, v) PROVE EepromInv'
      BY <3>2, StoreSound DEF StoreInv
    <3>3. CASE GetDataPtr
      BY <3>3 DEF StoreInv, EepromInv, GetDataPtr, CleanIsStored, Durable
    <3>4. ASSUME NEW end \in BOOLEAN, CommitClean(end) PROVE EepromInv'
      BY <3>4, CommitCleanSound DEF StoreInv
    <3>5. CASE \/ \E end \in BOOLEAN : CommitErase(end) \/ CommitNoErase(end)
               \/ CommitWrite
               \/ CommitNoWrite
      BY <3>5, CommitSound DEF StoreInv
    <3> QED BY <1>1, <3>1, <3>2, <3>3, <3>4, <3>5 DEF EepromStep
  <2> QED BY <2>1, <2>2 DEF StoreInv
<1>2. CASE epc = "idle" /\ HalStep /\ UNCHANGED eepromvars
  <2>1. PICK c \in Calls : \/ \E aligned \in BOOLEAN : HalWrite(c[1], c[2], aligned)
                          \/ HalRead(c[1], c[2])
                          \/ HalErase(c[1], c[2])
    BY <1>2 DEF HalStep
  <2>2. flash \in [Addresses -> Byte] /\ InFs(c[1], c[2])
    BY CallInFs DEF StoreInv, EepromInv
  <2>3. /\ flash' \in [Addresses -> Byte]
        /\ \A i \in 1..Sec : flash'[base + i - 1] = flash[base + i - 1]
        /\ WriteExact' /\ AlignedReadExact'
    BY <2>1, <2>2, HalWriteSound, HalReadSound, HalEraseSound
  <2>4. EepromInv'
    BY <1>2, <2>3, EepromUntouched DEF StoreInv
  <2> QED BY <2>3, <2>4 DEF StoreInv
<1>3. CASE Reset \/ Abort
  <2>1. EepromReset /\ hal' = [op |-> "none"]
    BY <1>3 DEF Reset, Abort, HalAbort
  <2> QED BY <2>1, ResetSound DEF StoreInv, WriteExact, AlignedReadExact
<1>4. CASE UNCHANGED vars
  <2>1. flash' = flash /\ UNCHANGED eepromvars /\ hal' = hal
    BY <1>4 DEF vars, halvars
  <2>2. EepromInv'
    BY <2>1, EepromUntouched DEF StoreInv, EepromInv
  <2>3. WriteExact' /\ AlignedReadExact'
    BY <2>1 DEF StoreInv, WriteExact, AlignedReadExact, Asked, Written
  <2> QED BY <2>2, <2>3 DEF StoreInv
<1> QED
  BY <1>1, <1>2, <1>3, <1>4 DEF Next

LEMMA StoreInvariance == Spec => []StoreInv
<1>1. ASSUME Init PROVE StoreInv
  <2>1. flash \in [Addresses -> Byte]
    <3>1. Blank \in Byte /\ \A a \in Addresses : Old(a) \in Byte
      BY Layout DEF Blank, Byte, Old
    <3> QED BY <1>1, <3>1 DEF Init, FlashInit
  <2>2. data = <<>> /\ image = <<>> /\ epc = "idle" /\ hal = [op |-> "none"]
    BY <1>1 DEF Init, EepromInit, HalInit
  <2>3. <<>> \in Seq(Byte) /\ Len(<<>>) = 0 /\ 0 <= Sec /\ DOMAIN <<>> = {}
    BY EmptySeq, Layout
  <2>4. EepromInv
    BY <2>1, <2>2, <2>3 DEF EepromInv, CleanIsStored, Durable, _size
  <2> QED BY <2>2, <2>4 DEF StoreInv, WriteExact, AlignedReadExact
<1> QED
  BY <1>1, StoreStep, PTL DEF Spec

\* A cache not marked dirty is what the flash holds, so a commit that failed is
\* repeated by the next, for every size of cache and sector.
THEOREM CleanCacheIsStored == Spec => []CleanIsStored
<1>1. StoreInv => CleanIsStored
  BY DEF StoreInv, EepromInv
<1> QED
  BY <1>1, StoreInvariance, PTL

\* What commit() reported stored survives resets, sessions of other sizes and
\* the file system's writes and erases, until a commit is broken off.
THEOREM CommittedIsDurable == Spec => []Durable
<1>1. StoreInv => Durable
  BY DEF StoreInv, EepromInv
<1> QED
  BY <1>1, StoreInvariance, PTL

\* spiffs_hal_write programs exactly the bytes it was given, for every address,
\* length and word size, and a call that fails has done part of that.
THEOREM WritesAreExact == Spec => []WriteExact
<1>1. StoreInv => WriteExact
  BY DEF StoreInv
<1> QED
  BY <1>1, StoreInvariance, PTL

\* spiffs_hal_read returns exactly the stored bytes from every word boundary.
THEOREM AlignedReadsAreExact == Spec => []AlignedReadExact
<1>1. StoreInv => AlignedReadExact
  BY DEF StoreInv
<1> QED
  BY <1>1, StoreInvariance, PTL
===============================================================================
