-------------------------------- MODULE WifiScan -------------------------------
(***************************************************************************)
(* Scanning for networks (ESP31BWiFiScan.cpp).  The loop task starts a     *)
(* scan, polls it, reads its results and deletes them; the SDK's WiFi task *)
(* calls _scanDone when the driver has finished, and as it outranks the    *)
(* loop task it may do so between any two of the loop task's accesses to   *)
(* the static members both use.  _scanDone itself is never interrupted by  *)
(* the loop task.                                                          *)
(*                                                                         *)
(* A result list is the number of the scan that allocated it, 0 the null   *)
(* pointer; size says how many networks it holds.  last and early are not  *)
(* program state: what the latest scan to finish found, and that it did so *)
(* before scanNetworks() had flagged it as started.                        *)
(***************************************************************************)
EXTENDS Integers, FiniteSets

CONSTANTS
  MaxNets,    \* bound on the networks one scan finds
  MaxScans,   \* bound on the scans the driver accepts
  Int8        \* how many values an int8_t has: 256

ASSUME ScanAssumption == MaxNets \in Nat /\ MaxScans \in Nat
ASSUME Int8Assumption == Int8 \in Nat /\ Int8 > 3

VARIABLES
  _scanStarted, _scanComplete, _scanCount, _scanResult,
  size,       \* the result lists in memory, and how many networks each holds
  scans,      \* scans asked for
  driver,     \* the driver is scanning
  pc,         \* where the loop task is
  last, early

vars == <<_scanStarted, _scanComplete, _scanCount, _scanResult, size, scans,
          driver, pc, last, early>>

RUNNING == -1
FAILED == -2

Init ==
  /\ _scanStarted = FALSE /\ _scanComplete = FALSE
  /\ _scanCount = 0 /\ _scanResult = 0
  /\ size = [a \in {} |-> 0]
  /\ scans = 0 /\ driver = FALSE
  /\ pc = "idle" /\ last = 0 /\ early = FALSE

-----------------------------------------------------------------------------
\* A scanDelete() that forgets the list without freeing it.
FreeForgets ==
  /\ _scanResult' = 0
  /\ _scanCount' = 0
  /\ UNCHANGED size

\* if(_scanResult) { delete[]; _scanResult = 0; _scanCount = 0; }.  No scan is
\* in progress while there is a result (ResultsOnlyAtRest), so nothing comes
\* between these accesses.
FreeResult ==
  IF _scanResult # 0
    THEN /\ size' = [a \in DOMAIN size \ {_scanResult} |-> size[a]]
         /\ _scanResult' = 0
         /\ _scanCount' = 0
    ELSE UNCHANGED <<size, _scanResult, _scanCount>>

\* scanNetworks() up to wifi_station_scan: a call during a scan is refused;
\* otherwise the old results go.  The mode decides only what is returned in the
\* end, -1 when async and _scanCount, the scan done or not, otherwise; what
\* becomes of the station is in WifiMulti.
ScanNetworks ==
  /\ pc = "idle"
  /\ IF _scanStarted
       THEN UNCHANGED <<pc, size, _scanResult, _scanCount, _scanComplete>>
       ELSE /\ FreeResult
            /\ _scanComplete' = FALSE
            /\ pc' = "ask"
  /\ UNCHANGED <<_scanStarted, scans, driver, last, early>>

\* wifi_station_scan succeeds: the driver scans from here on.
Asked ==
  /\ pc = "ask" /\ scans < MaxScans
  /\ driver' = TRUE
  /\ scans' = scans + 1
  /\ pc' = "complete"
  /\ early' = FALSE
  /\ UNCHANGED <<_scanStarted, _scanComplete, _scanCount, _scanResult, size, last>>

Refused ==
  /\ pc = "ask"
  /\ pc' = "idle"
  /\ UNCHANGED <<_scanStarted, _scanComplete, _scanCount, _scanResult, size, scans,
                 driver, last, early>>

\* _scanComplete = false
ClearComplete ==
  /\ pc = "complete"
  /\ _scanComplete' = FALSE
  /\ pc' = "start"
  /\ UNCHANGED <<_scanStarted, _scanCount, _scanResult, size, scans, driver, last, early>>

\* _scanStarted = true
SetStarted ==
  /\ pc = "start"
  /\ _scanStarted' = TRUE
  /\ pc' = "return"
  /\ UNCHANGED <<_scanComplete, _scanCount, _scanResult, size, scans, driver, last, early>>

ScanReturns ==
  /\ pc = "return"
  /\ pc' = "idle"
  /\ UNCHANGED <<_scanStarted, _scanComplete, _scanCount, _scanResult, size, scans,
                 driver, last, early>>

\* The conversion of a size_t to int8_t that `return _scanCount` makes.
int8_t(n) == IF n % Int8 < Int8 \div 2 THEN n % Int8 ELSE (n % Int8) - Int8

\* What scanComplete() returns.  When it sees _scanStarted false no scan is in
\* progress, so what it reads next cannot change under it.
scanComplete ==
  IF _scanStarted THEN RUNNING ELSE IF _scanComplete THEN int8_t(_scanCount) ELSE FAILED

\* scanDelete() called by the sketch, even while a scan is in progress.
ScanDelete ==
  /\ pc = "idle"
  /\ FreeResult
  /\ pc' = "delete"
  /\ UNCHANGED <<_scanStarted, _scanComplete, scans, driver, last, early>>

\* A scanDelete() that forgets to withdraw _scanComplete.
DeleteKeepsFlag ==
  /\ pc = "delete"
  /\ pc' = "idle"
  /\ UNCHANGED <<_scanStarted, _scanComplete, _scanCount, _scanResult, size, scans,
                 driver, last, early>>

DeleteFlag ==
  /\ pc = "delete"
  /\ _scanComplete' = FALSE
  /\ pc' = "idle"
  /\ UNCHANGED <<_scanStarted, _scanCount, _scanResult, size, scans, driver, last, early>>

\* _getScanInfoByIndex: whether item i is found; getNetworkInfo(), SSID() and
\* the other readers change nothing.
Found(i) == _scanResult # 0 /\ i <= _scanCount

-----------------------------------------------------------------------------
\* _scanDone(result, OK): n networks are counted, copied and published.
ScanOk(n) ==
  /\ _scanCount' = n
  /\ IF n = 0
       THEN _scanResult' = 0 /\ UNCHANGED size
       ELSE /\ _scanResult' = scans
            /\ size' = [a \in DOMAIN size \cup {scans} |-> IF a = scans THEN n ELSE size[a]]

\* _scanDone(result, status) with any other status.
ScanBad ==
  /\ _scanCount' = 0
  /\ _scanResult' = 0
  /\ UNCHANGED size

\* The end of _scanDone, after either.
Published(n) ==
  /\ _scanStarted' = FALSE
  /\ _scanComplete' = TRUE
  /\ last' = n

ScanDone ==
  /\ driver
  /\ driver' = FALSE
  /\ \/ \E n \in 0..MaxNets : ScanOk(n) /\ Published(n)
     \/ ScanBad /\ Published(0)
  /\ early' = (early \/ pc \in {"complete", "start"})
  /\ UNCHANGED <<scans, pc>>

-----------------------------------------------------------------------------
LoopStep == Asked \/ Refused \/ ClearComplete \/ SetStarted \/ ScanReturns \/ DeleteFlag

Places == {"idle", "delete", "ask", "complete", "start", "return"}

TypeOK ==
  /\ _scanStarted \in BOOLEAN /\ _scanComplete \in BOOLEAN /\ driver \in BOOLEAN
  /\ early \in BOOLEAN /\ _scanCount \in 0..MaxNets
  /\ scans \in 0..MaxScans /\ last \in 0..MaxNets
  /\ _scanResult \in {0} \cup DOMAIN size
  /\ DOMAIN size \subseteq 1..MaxScans
  /\ \A a \in DOMAIN size : size[a] \in 1..MaxNets
  /\ pc \in Places

\* _scanCount is the length of the list _scanResult points to, whoever wrote
\* them last, and 0 without one: the readers' bound check and the loop of
\* ESP31BWiFiMulti::run over scanComplete() items rest on it.
CountIsLength == _scanCount = IF _scanResult = 0 THEN 0 ELSE size[_scanResult]

\* No result list is lost: _scanDone overwrites _scanResult, so it must find
\* it null, whatever mix of scans and scanDelete()s came before.
NoListLost == DOMAIN size \subseteq {_scanResult}

\* While the driver scans there is no result for _scanDone to pull from under
\* a reader or a scanDelete() of the loop task.
ResultsOnlyAtRest == driver => _scanResult = 0

\* All of these: the inductive account of the shared result list.
ResultsSound == TypeOK /\ CountIsLength /\ NoListLost /\ ResultsOnlyAtRest

\* Whenever the loop task may call it, scanComplete() gives a number of networks
\* only if that is what the last scan found, counted modulo 256, and they have
\* not been deleted since; and it answers "running", for which new scans are
\* refused, only while the driver scans, unless that scan ended before
\* scanNetworks() flagged it or found 255 networks, which int8_t turns into -1.
ReportsLastScan ==
  pc = "idle" =>
    /\ scanComplete >= 0 => scanComplete = last % Int8
    /\ scanComplete = RUNNING => driver \/ early \/ last % Int8 = Int8 - 1
=============================================================================
