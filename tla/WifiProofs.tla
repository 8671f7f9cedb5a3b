---------------------------- MODULE WifiProofs ----------------------------
(***************************************************************************)
(* Proofs, for every number of networks, scans and access points, that the *)
(* result list the loop task and the WiFi task share stays sound under     *)
(* run() and the sketch, that scanComplete() reports the last scan, and    *)
(* that run() joins the best network it can; and, for every list of        *)
(* handlers and every number of resolutions, that hostByName() returns     *)
(* what the resolver said, that no answer is written to a call that has    *)
(* returned, and that each event goes once to every handler for it.        *)
(***************************************************************************)
EXTENDS WifiMulti, WifiGeneric, SequenceTheorems, WellFoundedInduction, TLAPS

\* A scan in progress is one scanNetworks() is starting or one that is flagged.
DriverIsKnown == driver => pc \in {"complete", "start"} \/ _scanStarted

\* When the driver is asked there is neither a scan nor a result.
AskIsClean == pc = "ask" => ~_scanStarted /\ ~_scanComplete /\ _scanResult = 0

\* A completed scan's count is the last one's, unless it is being deleted.
CountIsLast == _scanComplete /\ pc # "delete" => _scanCount = last

DriverCounted == driver => scans > 0

\* A scan that is flagged, or about to be, is in progress or ended early.
FlaggedScan == _scanStarted \/ pc \in {"complete", "start"} => driver \/ early

ScanInv ==
  /\ ResultsSound
  /\ DriverIsKnown /\ AskIsClean /\ CountIsLast /\ DriverCounted /\ FlaggedScan
  /\ mpc = "delete" => pc = "idle"
  /\ mpc = "checked" => pc = "idle"

USE DEF ScanInv, ResultsSound

\* Freeing the result leaves no list and a count of 0.
LEMMA FreeResultSound ==
  ASSUME ScanInv, FreeResult
  PROVE  /\ _scanResult' = 0 /\ _scanCount' = 0
         /\ DOMAIN size' = {}
<1>1. CASE _scanResult # 0
  BY <1>1 DEF FreeResult, NoListLost
<1>2. CASE _scanResult = 0
  BY <1>2 DEF FreeResult, NoListLost, TypeOK, CountIsLength
<1> QED
  BY <1>1, <1>2

\* A step that leaves the scan alone keeps the invariant.
LEMMA ScanUntouched ==
  ASSUME ScanInv, UNCHANGED <<_scanStarted, _scanComplete, _scanCount, _scanResult, size, scans,
                              driver, pc, last, early>>,
         mpc' \in {"checked", "delete"} => pc = "idle"
  PROVE  ScanInv'
BY DEF TypeOK, CountIsLength, NoListLost, ResultsOnlyAtRest, DriverIsKnown, AskIsClean,
   CountIsLast, DriverCounted, FlaggedScan

\* The steps of scanNetworks() and scanDelete() after their first.
LEMMA LoopStepSound ==
  ASSUME ScanInv, LoopStep, mpc' \notin {"checked", "delete"}
  PROVE  ScanInv'
<1> USE DEF TypeOK, Places, CountIsLength, NoListLost, ResultsOnlyAtRest, DriverIsKnown, AskIsClean,
            CountIsLast, DriverCounted, FlaggedScan
<1>1. CASE Asked
  <2>1. /\ pc = "ask" /\ pc' = "complete" /\ driver' = TRUE /\ scans' = scans + 1
        /\ scans < MaxScans
        /\ UNCHANGED <<_scanStarted, _scanComplete, _scanCount, _scanResult, size, last>> /\ early' = FALSE
    BY <1>1 DEF Asked
  <2>2. scans + 1 \in 0..MaxScans /\ scans + 1 > 0
    BY <2>1, ScanAssumption
  <2> QED
    BY <2>1, <2>2
<1>2. CASE Refused
  BY <1>2 DEF Refused
<1>3. CASE ClearComplete
  BY <1>3 DEF ClearComplete
<1>4. CASE SetStarted
  BY <1>4 DEF SetStarted
<1>5. CASE ScanReturns
  BY <1>5 DEF ScanReturns
<1>6. CASE DeleteFlag
  BY <1>6 DEF DeleteFlag
<1> QED
  BY <1>1, <1>2, <1>3, <1>4, <1>5, <1>6 DEF LoopStep

\* The driver's callback finds no list, and publishes the one it made.
LEMMA ScanDoneSound ==
  ASSUME ScanInv, ScanDone, mpc' = mpc
  PROVE  ScanInv'
<1> USE DEF TypeOK, Places, CountIsLength, NoListLost, ResultsOnlyAtRest, DriverIsKnown, AskIsClean,
            CountIsLast, DriverCounted, FlaggedScan
<1>1. /\ driver /\ driver' = FALSE /\ scans' = scans /\ pc' = pc
      /\ scans \in 1..MaxScans /\ _scanResult = 0 /\ DOMAIN size = {}
  BY ScanAssumption DEF ScanDone
<1> DEFINE Outcome(n) ==
             /\ _scanStarted' = FALSE /\ _scanComplete' = TRUE
             /\ last' = n /\ _scanCount' = n
             /\ \/ n = 0 /\ _scanResult' = 0 /\ size' = size
                \/ n # 0 /\ _scanResult' = scans /\ DOMAIN size' = {scans} /\ size'[scans] = n
<1>2. PICK n \in 0..MaxNets : Outcome(n)
  <2>1. ASSUME NEW n \in 0..MaxNets, ScanOk(n), Published(n) PROVE Outcome(n)
    BY <2>1, <1>1 DEF ScanOk, Published
  <2>2. CASE ScanBad /\ Published(0)
    <3>1. 0 \in 0..MaxNets
      BY ScanAssumption
    <3> QED
      BY <2>2, <3>1 DEF ScanBad, Published
  <2> QED
    BY <2>1, <2>2 DEF ScanDone
<1>3. pc # "ask"
  BY <1>1
<1>4. early' \in BOOLEAN /\ (pc \in {"complete", "start"} => early')
  BY Zenon DEF ScanDone
<1>5. FlaggedScan'
  BY <1>1, <1>2, <1>4
<1>6. TypeOK' /\ CountIsLength' /\ NoListLost'
  <2>1. CASE n = 0
    BY <1>1, <1>2, <1>4, <2>1
  <2>2. CASE n # 0
    <3>1. n \in 1..MaxNets /\ scans # 0
      BY <1>1, <2>2, ScanAssumption
    <3> QED
      BY <1>1, <1>2, <1>4, <2>2, <3>1
  <2> QED
    BY <2>1, <2>2
<1> QED
  BY <1>1, <1>2, <1>3, <1>5, <1>6

\* scanNetworks() from its entry to the question to the driver.
LEMMA ScanNetworksSound ==
  ASSUME ScanInv, ScanNetworks, mpc' \notin {"checked", "delete"}
  PROVE  ScanInv'
<1> USE DEF TypeOK, Places, CountIsLength, NoListLost, ResultsOnlyAtRest, DriverIsKnown, AskIsClean,
            CountIsLast, DriverCounted, FlaggedScan
<1>1. CASE _scanStarted
  BY <1>1 DEF ScanNetworks
<1>2. CASE ~_scanStarted
  <2>1. /\ pc = "idle" /\ pc' = "ask" /\ _scanComplete' = FALSE /\ FreeResult
        /\ UNCHANGED <<_scanStarted, scans, driver, last, early>>
    BY <1>2 DEF ScanNetworks
  <2>2. _scanResult' = 0 /\ _scanCount' = 0 /\ DOMAIN size' = {}
    BY <2>1, FreeResultSound
  <2>3. TypeOK'
    <3>1. 0 \in 0..MaxNets
      BY ScanAssumption
    <3> QED
      BY <2>1, <2>2, <3>1
  <2>4. CountIsLength' /\ NoListLost' /\ ResultsOnlyAtRest'
    BY <2>2
  <2> QED
    BY <1>2, <2>1, <2>2, <2>3, <2>4
<1> QED
  BY <1>1, <1>2

\* scanDelete(), called by the sketch or by run().
LEMMA DeleteSound ==
  ASSUME ScanInv, FreeResult, pc = "idle",
         pc' = "delete" \/ (pc' = pc /\ _scanComplete' = FALSE),
         _scanComplete' \in {_scanComplete, FALSE},
         UNCHANGED <<_scanStarted, scans, driver, last, early>>,
         mpc' \notin {"checked", "delete"}
  PROVE  ScanInv'
<1>1. _scanResult' = 0 /\ _scanCount' = 0 /\ DOMAIN size' = {}
  BY FreeResultSound
<1>2. TypeOK'
  <2>1. 0 \in 0..MaxNets
    BY ScanAssumption
  <2> QED
    BY <1>1, <2>1 DEF TypeOK, Places
<1>3. CountIsLength' /\ NoListLost' /\ ResultsOnlyAtRest'
  BY <1>1 DEF CountIsLength, NoListLost, ResultsOnlyAtRest
<1> QED
  BY <1>1, <1>2, <1>3 DEF DriverIsKnown, AskIsClean, CountIsLast, DriverCounted, FlaggedScan

\* Every step keeps the invariant.
LEMMA ScanStep ==
  ASSUME ScanInv, [MultiNext]_allvars
  PROVE  ScanInv'
<1>1. ASSUME NEW s \in Ssids, NEW p \in BOOLEAN, AddAP(s, p) PROVE ScanInv'
  BY <1>1, ScanUntouched DEF AddAP, vars
<1>2. ASSUME NEW off \in BOOLEAN, Disconnect(off) PROVE ScanInv'
  BY <1>2, ScanUntouched DEF Disconnect, vars
<1>3. CASE Reconnect \/ Resolve \/ Drop
  BY <1>3, ScanUntouched DEF Reconnect, Resolve, Drop, vars
<1>4. CASE RunCheck
  BY <1>4, ScanUntouched DEF RunCheck, vars
<1>5. CASE RunScanning \/ RunAnalyse \/ RunBegin \/ RunScan \/ RunWaited
  BY <1>5, ScanUntouched DEF RunScanning, RunAnalyse, RunBegin, RunScan, RunWaited, vars
<1>6. CASE RunDelete
  BY <1>6, DeleteSound DEF RunDelete
<1>7. CASE ScanCall
  <2>1. LoopStep /\ mpc' \in {"out", mpc}
    BY <1>7 DEF ScanCall
  <2>2. pc # "idle"
    BY <2>1 DEF LoopStep, Asked, Refused, ClearComplete, SetStarted, ScanReturns, DeleteFlag
  <2> QED
    BY <2>1, <2>2, LoopStepSound
<1>8. CASE StartScan
  BY <1>8, ScanNetworksSound DEF StartScan
<1>9. CASE UseScan
  BY <1>9, DeleteSound DEF UseScan, ScanDelete, multivars
<1>10. CASE DriverDone
  BY <1>10, ScanDoneSound DEF DriverDone, multivars
<1>11. CASE UNCHANGED allvars
  BY <1>11, ScanUntouched DEF allvars, vars, multivars
<1> QED
  BY <1>1, <1>2, <1>3, <1>4, <1>5, <1>6, <1>7, <1>8, <1>9, <1>10, <1>11 DEF MultiNext, RunStep

LEMMA ScanInvariance == MultiSpec => []ScanInv
<1>1. ASSUME MultiInit PROVE ScanInv
  <2>1. 0 \in 0..MaxNets /\ 0 \in 0..MaxScans /\ DOMAIN size = {}
    BY <1>1, ScanAssumption DEF MultiInit, Init
  <2>2. TypeOK
    BY <1>1, <2>1 DEF MultiInit, Init, TypeOK, Places
  <2> QED
    BY <1>1, <2>1, <2>2 DEF MultiInit, Init, CountIsLength, NoListLost, ResultsOnlyAtRest,
       DriverIsKnown, AskIsClean, CountIsLast, DriverCounted, FlaggedScan
<1> QED
  BY <1>1, ScanStep, PTL DEF MultiSpec

\* The list of results, its pointer and its count agree whenever the WiFi task
\* publishes a scan between two accesses of the loop task, no list is leaked and
\* none is replaced under a reader, for any number of scans and networks.
THEOREM ScanResultsSound == MultiSpec => []ResultsSound
<1>1. ScanInv => ResultsSound
  OBVIOUS
<1> QED
  BY <1>1, ScanInvariance, PTL

\* What int8_t makes of a count: itself modulo Int8, or a negative number, which
\* is -1 only for one value modulo Int8.
LEMMA Int8Value ==
  ASSUME NEW n \in Nat
  PROVE  /\ int8_t(n) >= 0 => int8_t(n) = n % Int8
         /\ int8_t(n) = -1 => n % Int8 = Int8 - 1
<1>1. n % Int8 \in 0..Int8 - 1 /\ Int8 \in Nat
  BY Int8Assumption
<1> QED
  BY <1>1 DEF int8_t

\* scanComplete() gives the number of networks the last scan found, modulo the
\* int8_t it returns, and "running" only for a scan in progress, for one that
\* ended before it was flagged, and for a count of 255: for any number of scans
\* and networks.
THEOREM ReportedIsLast == MultiSpec => []ReportsLastScan
<1>1. ASSUME ScanInv PROVE ReportsLastScan
  <2> SUFFICES ASSUME pc = "idle"
               PROVE  /\ scanComplete >= 0 => scanComplete = last % Int8
                      /\ scanComplete = RUNNING => driver \/ early \/ last % Int8 = Int8 - 1
    BY DEF ReportsLastScan
  <2>1. CASE _scanStarted
    BY <1>1, <2>1 DEF scanComplete, RUNNING, FlaggedScan
  <2>2. CASE ~_scanStarted /\ _scanComplete
    <3>1. scanComplete = int8_t(last) /\ last \in Nat
      BY <1>1, <2>2, ScanAssumption DEF scanComplete, CountIsLast, TypeOK
    <3> QED
      BY <3>1, Int8Value DEF RUNNING
  <2>3. CASE ~_scanStarted /\ ~_scanComplete
    BY <2>3 DEF scanComplete, RUNNING, FAILED
  <2> QED
    BY <2>1, <2>2, <2>3
<1> QED
  BY <1>1, ScanInvariance, PTL

-------------------------------------------------------------------------------
(* Which network run() joins. *)

\* A set of natural numbers has a least element.
LEMMA LeastNat ==
  ASSUME NEW T, T \subseteq Nat, T # {}
  PROVE  \E x \in T : \A y \in T : x <= y
<1>1. PICK x \in T : \A y \in T : ~(<<y, x>> \in OpToRel(<, Nat))
  BY NatLessThanWellFounded, WFMin
<1>2. \A y \in T : ~(y < x)
  BY <1>1 DEF OpToRel
<1> QED
  BY <1>2

\* Induction up to n, for membership of a set.
LEMMA NatSetInduction ==
  ASSUME NEW n \in Nat, NEW S, 0 \in S, \A k \in 0..n-1 : k \in S => k + 1 \in S
  PROVE  \A k \in 0..n : k \in S
<1> SUFFICES ASSUME NEW k \in 0..n, k \notin S PROVE FALSE
  OBVIOUS
<1> DEFINE T == {j \in 0..n : j \notin S}
<1>1. PICK x \in T : \A y \in T : x <= y
  <2>1. T \subseteq Nat /\ T # {}
    OBVIOUS
  <2> HIDE DEF T
  <2> QED BY <2>1, LeastNat
<1>2. x # 0 /\ x \in 1..n
  BY <1>1
<1>3. x - 1 \in 0..n-1
  BY <1>2
<1>4. x - 1 \in S
  BY <1>1, <1>3
<1>5. (x - 1) + 1 = x
  BY <1>2
<1> QED
  BY <1>1, <1>3, <1>4, <1>5

\* g takes n steps of F from b.
Iterates(g, n, A, b, F) ==
  g \in [0..n -> A] /\ g[0] = b /\ \A m \in 1..n : g[m] = F[m][g[m-1]]

\* There is such a function.
LEMMA FoldExists ==
  ASSUME NEW n \in Nat, NEW A, NEW b \in A, NEW F \in [1..n -> [A -> A]]
  PROVE  \E g : Iterates(g, n, A, b, F)
<1> DEFINE P(k) == \E g \in [0..k -> A] : g[0] = b /\ \A m \in 1..k : g[m] = F[m][g[m-1]]
           S == {k \in 0..n : P(k)}
<1>1. 0 \in S
  <2>1. [m \in 0..0 |-> b] \in [0..0 -> A]
    OBVIOUS
  <2>2. P(0)
    <3> WITNESS [m \in 0..0 |-> b] \in [0..0 -> A]
    <3> QED OBVIOUS
  <2> QED BY <2>2
<1>2. ASSUME NEW k \in 0..n-1, k \in S PROVE k + 1 \in S
  <2>1. PICK g \in [0..k -> A] : g[0] = b /\ \A m \in 1..k : g[m] = F[m][g[m-1]]
    BY <1>2
  <2> DEFINE v == F[k+1][g[k]]
             h == [m \in 0..k+1 |-> IF m = k + 1 THEN v ELSE g[m]]
  <2>2. v \in A
    OBVIOUS
  <2> HIDE DEF v
  <2>3. h \in [0..k+1 -> A]
    BY <2>2
  <2>4. h[0] = b
    BY <2>1
  <2>5. ASSUME NEW m \in 1..k+1 PROVE h[m] = F[m][h[m-1]]
    <3>1. CASE m = k + 1
      <4>1. h[m] = v /\ m - 1 = k /\ h[m-1] = g[k]
        BY <3>1
      <4> QED BY <4>1, <3>1 DEF v
    <3>2. CASE m # k + 1
      <4>1. m \in 1..k /\ m - 1 \in 0..k /\ m - 1 # k + 1 /\ m \in 0..k+1 /\ m - 1 \in 0..k+1
        BY <3>2
      <4>2. h[m] = g[m] /\ h[m-1] = g[m-1]
        BY <4>1
      <4> QED BY <4>1, <4>2, <2>1
    <3> QED BY <3>1, <3>2
  <2> HIDE DEF h
  <2>6. P(k+1)
    BY <2>3, <2>4, <2>5
  <2>7. k + 1 \in 0..n
    OBVIOUS
  <2> QED BY <2>6, <2>7
<1>3. n \in S
  <2> HIDE DEF S
  <2>1. \A k \in 0..n : k \in S
    BY <1>1, <1>2, NatSetInduction
  <2> QED BY <2>1
<1> QED BY <1>3 DEF Iterates

AccessPoints == Seq([ssid : Ssids, pass : {"set", "null", "wild"}])

\* What the loop over the networks asks of one, but for its level.
Known(n) ==
  LET e == Entry(n.ssid)
  IN  e # 0 /\ (n.open \/ APlist[e].pass # "null")

\* acc is a best of the first m networks.
BestOf(nets, m, acc) ==
  /\ acc \in [best : 0..Len(nets), db : Int]
  /\ acc.best = 0 => acc.db = INT_MIN /\ \A j \in 1..m : ~Known(nets[j])
  /\ acc.best # 0 => /\ acc.best \in 1..m /\ Known(nets[acc.best])
                     /\ acc.db = nets[acc.best].level
                     /\ \A j \in 1..m : Known(nets[j]) => nets[j].level <= acc.db

\* Every level is above the loop's first one.
LEMMA IntMinIsLow == INT_MIN \in Int /\ \A l \in Levels : l \in Int /\ l > INT_MIN
BY MultiAssumption, SMT DEF INT_MIN

\* So is every network's.
LEMMA LevelOf ==
  ASSUME NEW nets \in Seq(Networks), NEW m \in 1..Len(nets)
  PROVE  nets[m] \in Networks /\ nets[m].level \in Int /\ nets[m].level > INT_MIN
<1>1. nets[m] \in Networks
  BY ElementOfSeq
<1>2. nets[m].level \in Levels
  BY <1>1 DEF Networks
<1> QED
  BY <1>1, <1>2, IntMinIsLow

\* One turn of the loop.
LEMMA BetterIsBest ==
  ASSUME NEW nets \in Seq(Networks), NEW m \in 1..Len(nets), NEW acc, BestOf(nets, m - 1, acc)
  PROVE  BestOf(nets, m, Better(nets, m, acc))
<1> DEFINE n == nets[m]
           new == [best |-> m, db |-> n.level]
<1>1. n \in Networks /\ n.level \in Int /\ n.level > INT_MIN
  BY LevelOf
<1>2. Better(nets, m, acc) = IF Known(n) /\ n.level > acc.db THEN new ELSE acc
  BY DEF Better, Known
<1>3. /\ acc \in [best : 0..Len(nets), db : Int] /\ acc.db \in Int /\ Len(nets) \in Nat
      /\ \A j \in 1..m : j = m \/ j \in 1..m - 1
  BY LenProperties DEF BestOf
<1>4. CASE Known(n) /\ n.level > acc.db
  <2>1. \A j \in 1..m : Known(nets[j]) => nets[j].level <= n.level
    <3> TAKE j \in 1..m
    <3> HAVE Known(nets[j])
    <3>1. CASE j = m
      BY <3>1, <1>1
    <3>2. CASE j \in 1..m - 1
      <4>1. nets[j].level \in Int
        BY <3>2, <1>3, LevelOf
      <4>2. nets[j].level <= acc.db
        BY <3>2 DEF BestOf
      <4> QED
        BY <1>1, <1>3, <1>4, <4>1, <4>2
    <3> QED
      BY <1>3, <3>1, <3>2
  <2>2. new \in [best : 0..Len(nets), db : Int] /\ new.best = m /\ new.db = n.level /\ m # 0
    BY <1>1, <1>3
  <2> HIDE DEF new
  <2> QED
    BY <1>2, <1>4, <2>1, <2>2 DEF BestOf
<1>5. CASE ~(Known(n) /\ n.level > acc.db)
  <2>1. acc.best = 0 => ~Known(n)
    BY <1>1, <1>3, <1>5 DEF BestOf
  <2>2. acc.best # 0 => (Known(n) => n.level <= acc.db) /\ acc.best \in 1..m
    BY <1>1, <1>3, <1>5 DEF BestOf
  <2>3. \A j \in 1..m : j = m \/ j \in 1..m - 1
    BY <1>3
  <2> HIDE DEF n
  <2>4. Better(nets, m, acc) = acc
    BY <1>2, <1>5
  <2>5. n = nets[m]
    BY DEF n
  <2> QED
    BY <2>1, <2>2, <2>3, <2>4, <2>5 DEF BestOf
<1> QED
  BY <1>4, <1>5

\* The loop's variables before each network: the recursion has a solution.
LEMMA BestSoFarSteps ==
  ASSUME NEW nets \in Seq(Networks)
  PROVE  /\ BestSoFar(nets)[0] = [best |-> 0, db |-> INT_MIN]
         /\ \A m \in 1..Len(nets) : BestSoFar(nets)[m] = Better(nets, m, BestSoFar(nets)[m - 1])
<1> DEFINE A == [best : 0..Len(nets), db : Int]
           b == [best |-> 0, db |-> INT_MIN]
           F == [m \in 1..Len(nets) |-> [a \in A |-> Better(nets, m, a)]]
           Solves(f) == f = [m \in 0..Len(nets) |-> IF m = 0 THEN b ELSE Better(nets, m, f[m - 1])]
<1>1. Len(nets) \in Nat
  BY LenProperties
<1>2. b \in A
  <2>1. 0 \in 0..Len(nets) /\ INT_MIN \in Int
    BY <1>1, IntMinIsLow
  <2> QED BY <2>1
<1>3. ASSUME NEW m \in 1..Len(nets), NEW a \in A PROVE Better(nets, m, a) \in A
  <2>1. nets[m].level \in Int /\ m \in 0..Len(nets)
    BY LevelOf
  <2> QED BY <2>1 DEF Better
<1>4. F \in [1..Len(nets) -> [A -> A]]
  BY <1>3
<1>5. \A m \in 1..Len(nets), a \in A : F[m][a] = Better(nets, m, a)
  OBVIOUS
<1> HIDE DEF A, b, F
<1>6. PICK g : Iterates(g, Len(nets), A, b, F)
  BY <1>1, <1>2, <1>4, FoldExists
<1>7. ASSUME NEW m \in 0..Len(nets) PROVE g[m] = IF m = 0 THEN b ELSE Better(nets, m, g[m - 1])
  <2>1. CASE m = 0
    BY <1>6, <2>1 DEF Iterates
  <2>2. CASE m # 0
    <3>1. m \in 1..Len(nets) /\ m - 1 \in 0..Len(nets)
      BY <1>1, <2>2
    <3> QED BY <1>5, <1>6, <2>2, <3>1 DEF Iterates
  <2> QED BY <2>1, <2>2
<1>8. Solves(g)
  <2>1. g = [m \in 0..Len(nets) |-> g[m]]
    BY <1>6 DEF Iterates
  <2> QED BY <1>7, <2>1
<1>9. BestSoFar(nets) = CHOOSE f : Solves(f)
  BY DEF BestSoFar, b
<1>10. Solves(BestSoFar(nets))
  <2> HIDE DEF Solves
  <2> QED BY <1>8, <1>9
<1> DEFINE f == BestSoFar(nets)
<1> HIDE DEF f
<1>11. f = [m \in 0..Len(nets) |-> IF m = 0 THEN b ELSE Better(nets, m, f[m - 1])]
  BY <1>10 DEF f
<1>12. f[0] = b /\ \A m \in 1..Len(nets) : f[m] = Better(nets, m, f[m - 1])
  <2>1. 0 \in 0..Len(nets) /\ \A m \in 1..Len(nets) : m \in 0..Len(nets) /\ m # 0
    BY <1>1
  <2> QED BY <1>11, <2>1
<1> QED
  BY <1>12 DEF f, b

\* run() ends its loop with the best of all the networks.
LEMMA BestNetworkIsBest ==
  ASSUME NEW nets \in Seq(Networks)
  PROVE  BestOf(nets, Len(nets), BestSoFar(nets)[Len(nets)])
<1> DEFINE S == {m \in 0..Len(nets) : BestOf(nets, m, BestSoFar(nets)[m])}
<1>1. Len(nets) \in Nat
  BY LenProperties
<1>2. 0 \in S
  <2>1. 0 \in 0..Len(nets) /\ INT_MIN \in Int /\ 1..0 = {}
    BY <1>1, IntMinIsLow
  <2> QED BY <2>1, BestSoFarSteps DEF BestOf
<1>3. ASSUME NEW k \in 0..Len(nets) - 1, k \in S PROVE k + 1 \in S
  <2>1. k + 1 \in 1..Len(nets) /\ k + 1 \in 0..Len(nets) /\ (k + 1) - 1 = k
    BY <1>1
  <2>2. BestOf(nets, (k + 1) - 1, BestSoFar(nets)[k])
    BY <1>3, <2>1
  <2>3. BestSoFar(nets)[k + 1] = Better(nets, k + 1, BestSoFar(nets)[k])
    BY <2>1, BestSoFarSteps
  <2>4. BestOf(nets, k + 1, BestSoFar(nets)[k + 1])
    BY <2>1, <2>2, <2>3, BetterIsBest
  <2> QED BY <2>1, <2>4
<1>4. Len(nets) \in S
  <2> HIDE DEF S
  <2>1. Len(nets) \in 0..Len(nets)
    BY <1>1
  <2> QED BY <1>1, <1>2, <1>3, <2>1, NatSetInduction
<1> QED
  BY <1>4

\* An entry that was found is in the list.
LEMMA EntryInList ==
  ASSUME NEW s, APlist \in AccessPoints, Entry(s) # 0
  PROVE  Entry(s) \in DOMAIN APlist /\ APlist[Entry(s)].pass \in {"set", "null", "wild"}
<1> DEFINE I == {m \in 1..Len(APlist) : APlist[m].ssid = s}
<1>1. Entry(s) = IF I # {} THEN Min(I) ELSE 0
  BY DEF Entry, SelectInSeq
<1>2. I \subseteq Nat /\ I \subseteq DOMAIN APlist /\ DOMAIN APlist = 1..Len(APlist)
  BY LenProperties DEF AccessPoints
<1> HIDE DEF I
<1>3. I # {} /\ Entry(s) = Min(I)
  BY <1>1
<1>4. \E x \in I : \A y \in I : x <= y
  BY <1>2, <1>3, LeastNat
<1>5. Min(I) \in I
  BY <1>4 DEF Min
<1>6. APlist[Entry(s)] \in [ssid : Ssids, pass : {"set", "null", "wild"}]
  BY <1>2, <1>3, <1>5, ElementOfSeq DEF AccessPoints
<1> QED
  BY <1>2, <1>3, <1>5, <1>6

\* best is a best of all the networks, or 0.
BestIn(nets, best) == \E acc : best = acc.best /\ BestOf(nets, Len(nets), acc)

\* The choice is kept, with the list it was made from, until run() returns, and
\* a connection is only asked for with the chosen network's configuration.
JoinInv ==
  /\ APlist \in AccessPoints
  /\ joined # UNDECIDED =>
       /\ mpc \in {"delete", "begin", "wait"} /\ pc = "idle"
       /\ joined.nets \in Seq(Networks) /\ BestIn(joined.nets, joined.best)
  /\ mpc \in {"delete", "begin", "wait"} => joined # UNDECIDED
  /\ mpc \in {"begin", "wait"} => joined.best # 0
  /\ asked => mpc = "wait" /\ conf = Configured(joined.nets[joined.best])

\* The invariant says what JoinsBest asks for.
LEMMA JoinInvIsBest == JoinInv => JoinsBest
<1> SUFFICES ASSUME JoinInv, joined # UNDECIDED, \A e \in DOMAIN APlist : APlist[e].pass # "wild"
             PROVE  /\ (joined.best = 0) = (Candidates = {})
                    /\ joined.best # 0 =>
                         /\ joined.best \in Candidates
                         /\ \A m \in Candidates : joined.nets[m].level <= joined.nets[joined.best].level
                         /\ asked => conf.ssid = joined.nets[joined.best].ssid
                                     /\ (conf.open \/ conf.pass = "set")
  BY DEF JoinsBest
<1> DEFINE nets == joined.nets
           best == joined.best
<1>1. PICK acc : nets \in Seq(Networks) /\ best = acc.best /\ BestOf(nets, Len(nets), acc)
  BY DEF JoinInv, BestIn
<1>2. DOMAIN nets = 1..Len(nets)
  BY <1>1, LenProperties
<1>3. \A s : Entry(s) # 0 => (APlist[Entry(s)].pass # "null") = (APlist[Entry(s)].pass = "set")
  BY EntryInList DEF JoinInv
<1>4. Candidates = {m \in 1..Len(nets) : Known(nets[m])}
  BY <1>2, <1>3 DEF Candidates, Known
<1>5. (best = 0) = (Candidates = {})
  BY <1>1, <1>4 DEF BestOf
<1>6. ASSUME best # 0
      PROVE  best \in Candidates /\ \A m \in Candidates : nets[m].level <= nets[best].level
  BY <1>1, <1>4, <1>6 DEF BestOf
<1>7. ASSUME best # 0, asked
      PROVE  conf.ssid = nets[best].ssid /\ (conf.open \/ conf.pass = "set")
  <2>1. Known(nets[best])
    BY <1>4, <1>6, <1>7
  <2> QED
    BY <1>3, <1>7, <2>1 DEF JoinInv, Configured, Known
<1> QED
  BY <1>5, <1>6, <1>7

\* What depends on the list alone keeps its value with it.
LEMMA SameList ==
  ASSUME APlist' = APlist
  PROVE  /\ \A s : Entry(s)' = Entry(s)
         /\ \A nets, best : BestIn(nets, best)' = BestIn(nets, best)
         /\ \A n : Configured(n)' = Configured(n)
<1>1. ASSUME NEW s PROVE Entry(s)' = Entry(s)
  BY DEF Entry, SelectInSeq, Min
<1>2. ASSUME NEW nets, NEW best PROVE BestIn(nets, best)' = BestIn(nets, best)
  <2>1. \A n : Known(n)' = Known(n)
    BY <1>1 DEF Known
  <2>2. \A acc : BestOf(nets, Len(nets), acc)' = BestOf(nets, Len(nets), acc)
    BY <2>1 DEF BestOf
  <2> QED BY <2>2 DEF BestIn
<1>3. ASSUME NEW n PROVE Configured(n)' = Configured(n)
  BY <1>1 DEF Configured
<1> QED
  BY <1>1, <1>2, <1>3

\* A step that touches neither the list, the choice nor the configuration.
LEMMA JoinUntouched ==
  ASSUME JoinInv, UNCHANGED <<APlist, joined, asked>>,
         mpc \notin {"delete", "begin", "wait"} => mpc' \notin {"delete", "begin", "wait"},
         mpc \in {"delete", "begin", "wait"} => mpc' = mpc /\ pc' = pc /\ conf' = conf
  PROVE  JoinInv'
<1>1. CASE joined = UNDECIDED
  BY <1>1 DEF JoinInv, UNDECIDED, AccessPoints
<1>2. CASE joined # UNDECIDED
  BY <1>2, SameList DEF JoinInv, UNDECIDED, AccessPoints
<1> QED
  BY <1>1, <1>2

LEMMA JoinStep ==
  ASSUME JoinInv, ScanInv, [MultiNext]_allvars
  PROVE  JoinInv'
<1>1. ASSUME NEW s \in Ssids, NEW p \in BOOLEAN, AddAP(s, p) PROVE JoinInv'
  <2>1. PICK pass \in {"set", "null", "wild"} : APlist' = Append(APlist, [ssid |-> s, pass |-> pass])
    BY <1>1 DEF AddAP
  <2>2. APlist' \in AccessPoints
    BY <2>1, AppendProperties DEF JoinInv, AccessPoints
  <2> QED
    BY <1>1, <2>2 DEF AddAP, JoinInv
<1>2. ASSUME NEW off \in BOOLEAN, Disconnect(off) PROVE JoinInv'
  BY <1>2, JoinUntouched DEF Disconnect, vars
<1>3. CASE Reconnect \/ Resolve \/ Drop
  BY <1>3, JoinUntouched DEF Reconnect, Resolve, Drop, vars
<1>4. CASE RunCheck \/ RunScanning \/ RunScan
  BY <1>4, JoinUntouched DEF RunCheck, RunScanning, RunScan, vars, stavars
<1>5. CASE RunAnalyse
  <2>1. PICK nets \in [1..scanComplete -> Networks] : joined' = [nets |-> nets, best |-> bestNetwork(nets)]
    BY <1>5 DEF RunAnalyse
  <2>2. scanComplete \in Nat /\ scanComplete > 0
    <3>1. scanComplete > 0
      BY <1>5 DEF RunAnalyse
    <3>2. scanComplete \in Int
      BY Int8Assumption, ScanAssumption DEF scanComplete, int8_t, RUNNING, FAILED, TypeOK
    <3> QED
      BY <3>1, <3>2
  <2>3. nets \in Seq(Networks) /\ Len(nets) = scanComplete
    BY <2>2, SeqDef
  <2>4. joined' # UNDECIDED
    BY <2>1, <2>2, <2>3, EmptySeq DEF UNDECIDED
  <2>5. BestIn(nets, bestNetwork(nets))
    BY <2>3, BestNetworkIsBest DEF BestIn, bestNetwork
  <2>6. APlist' = APlist /\ mpc = "checked" /\ mpc' = "delete" /\ pc' = "idle" /\ asked' = asked
    BY <1>5 DEF RunAnalyse, vars
  <2>7. BestIn(joined.nets, joined.best)'
    BY <2>1, <2>5, <2>6, SameList
  <2> QED
    BY <2>1, <2>3, <2>4, <2>6, <2>7 DEF JoinInv, AccessPoints
<1>6. CASE RunDelete
  <2>1. APlist' = APlist /\ mpc = "delete" /\ pc' = pc /\ asked' = asked /\ ~asked
    BY <1>6 DEF RunDelete, JoinInv
  <2>2. CASE joined.best = 0
    BY <1>6, <2>1, <2>2 DEF RunDelete, JoinInv, AccessPoints
  <2>3. CASE joined.best # 0
    BY <1>6, <2>1, <2>3, SameList DEF RunDelete, JoinInv, AccessPoints
  <2> QED
    BY <2>2, <2>3
<1>7. CASE RunBegin
  <2>1. /\ APlist' = APlist /\ mpc = "begin" /\ mpc' = "wait" /\ pc' = pc /\ joined' = joined
        /\ asked' => conf' = Configured(joined.nets[joined.best])
    BY <1>7 DEF RunBegin, vars
  <2>2. Configured(joined.nets[joined.best])' = Configured(joined.nets[joined.best])
    BY <2>1, SameList
  <2> QED
    BY <2>1, <2>2, SameList DEF JoinInv, AccessPoints
<1>8. CASE RunWaited
  <2>1. CASE Final
    BY <1>8, <2>1 DEF RunWaited, JoinInv, AccessPoints
  <2>2. CASE ~Final
    BY <1>8, <2>2, JoinUntouched DEF RunWaited, vars, stavars
  <2> QED
    BY <2>1, <2>2
<1>9. CASE ScanCall
  <2>1. pc # "idle"
    BY <1>9 DEF ScanCall, LoopStep, Asked, Refused, ClearComplete, SetStarted, ScanReturns, DeleteFlag
  <2>2. mpc \notin {"delete", "begin", "wait"}
    BY <2>1 DEF JoinInv
  <2> QED
    BY <1>9, <2>2, JoinUntouched DEF ScanCall
<1>10. CASE StartScan \/ UseScan
  BY <1>10, JoinUntouched DEF StartScan, UseScan, multivars
<1>11. CASE DriverDone \/ UNCHANGED allvars
  BY <1>11, JoinUntouched DEF DriverDone, ScanDone, allvars, vars, multivars, stavars
<1> QED
  BY <1>1, <1>2, <1>3, <1>4, <1>5, <1>6, <1>7, <1>8, <1>9, <1>10, <1>11 DEF MultiNext, RunStep

\* run() joins, of the networks the last scan found, the strongest it can join,
\* with that network's credentials, and none if it can join none, for lists of
\* any length.
THEOREM JoinedIsBest == MultiSpec => []JoinsBest
<1>1. ASSUME MultiInit PROVE JoinInv
  <2>1. <<>> \in AccessPoints
    BY EmptySeq DEF AccessPoints
  <2> QED
    BY <1>1, <2>1 DEF MultiInit, JoinInv
<1> QED
  BY <1>1, JoinStep, ScanInvariance, JoinInvIsBest, PTL DEF MultiSpec

-------------------------------------------------------------------------------
(* hostByName. *)

\* What is known of the query of a call that lasts.
Answered(c) ==
  /\ err[c] = "OK" => answer[c] = addr[c]
  /\ err[c] = "ARG" => answer[c] = 0
  /\ err[c] = "INPROGRESS" => aResult[c] = IF answer[c] = NoAnswer THEN 0 ELSE answer[c]
  /\ err[c] = "INPROGRESS" /\ answer[c] = NoAnswer /\ hpc[c] = "spin" => _dns_busy
  /\ answer[c] = NoAnswer => err[c] = "INPROGRESS"

\* As long as no two calls have met there is one at most; lwIP has its query or
\* has answered it, and while it waits for the answer _dns_busy is set.
OneCall ==
  /\ \A c, d \in Callers : hpc[c] # "idle" /\ hpc[d] # "idle" => c = d
  /\ \A q \in queries : /\ number[q[1]] = q[2] /\ hpc[q[1]] # "idle"
                        /\ err[q[1]] = "INPROGRESS" /\ answer[q[1]] = NoAnswer
  /\ \A c \in Callers : hpc[c] # "idle" => Answered(c)

HostInv ==
  /\ HostTypeOK
  /\ number \in [Callers -> 0..MaxCalls] /\ calls \in 0..MaxCalls
  /\ ~overlapped => OneCall

LEMMA AskTypes ==
  ASSUME HostInv, NEW c \in Callers, Ask(c)
  PROVE  HostTypeOK' /\ number' \in [Callers -> 0..MaxCalls] /\ calls' \in 0..MaxCalls
<1>1. calls + 1 \in 1..MaxCalls /\ calls + 1 \in 0..MaxCalls
  BY AddrsAssumption DEF HostInv, Ask
<1>2. number' \in [Callers -> 0..MaxCalls] /\ calls' \in 0..MaxCalls
  BY <1>1 DEF HostInv, Ask
<1>3. aResult' \in [Callers -> Answers]
  BY DEF HostInv, HostTypeOK, Ask, ClearsResult, Answers
<1>4. queries' \subseteq Callers \X (1..MaxCalls)
  BY <1>1 DEF HostInv, HostTypeOK, Ask, dns_gethostbyname
<1>5. /\ addr' \in [Callers -> Answers] /\ err' \in [Callers -> {"OK", "INPROGRESS", "ARG"}]
      /\ answer' \in [Callers -> Answers \cup {NoAnswer}]
  BY DEF HostInv, HostTypeOK, Ask, dns_gethostbyname, Answers
<1>6. /\ hpc' \in [Callers -> {"idle", "asked", "spin"}] /\ hret' \in [Callers -> {0, 1}]
      /\ _dns_busy' \in BOOLEAN /\ overlapped' \in BOOLEAN
  BY DEF HostInv, HostTypeOK, Ask
<1> QED
  BY <1>2, <1>3, <1>4, <1>5, <1>6 DEF HostTypeOK

\* No address is the mark for the lack of an answer.
LEMMA AnswersAreNat == NoAnswer \notin Answers /\ 0 \in Answers
BY AddrsAssumption DEF NoAnswer, Answers

\* A call begins.
LEMMA AskSound ==
  ASSUME HostInv, NEW c \in Callers, Ask(c)
  PROVE  HostInv'
<1>1. HostTypeOK' /\ number' \in [Callers -> 0..MaxCalls] /\ calls' \in 0..MaxCalls
  BY AskTypes
<1>2. ASSUME ~overlapped' PROVE OneCall'
  <2> USE DEF HostInv, HostTypeOK
  <2>1. OneCall /\ \A d \in Callers : hpc[d] = "idle"
    BY <1>2 DEF Ask
  <2>2. queries = {}
    BY <2>1 DEF OneCall
  <2>3. /\ hpc' = [hpc EXCEPT ![c] = "asked"] /\ number' = [number EXCEPT ![c] = calls + 1]
        /\ aResult' = [aResult EXCEPT ![c] = 0] /\ dns_gethostbyname(c)
    BY DEF Ask, ClearsResult
  <2>4. \A d \in Callers : hpc'[d] # "idle" => d = c
    BY <2>1, <2>3
  <2>5. \A q \in queries' : /\ number'[q[1]] = q[2] /\ hpc'[q[1]] # "idle"
                            /\ err'[q[1]] = "INPROGRESS" /\ answer'[q[1]] = NoAnswer
    BY <2>2, <2>3 DEF dns_gethostbyname
  <2>6. Answered(c)'
    BY <2>3, AnswersAreNat DEF dns_gethostbyname, Answered
  <2> QED
    BY <2>4, <2>5, <2>6 DEF OneCall
<1> QED
  BY <1>1, <1>2 DEF HostInv

\* _dns_busy is set from the answer at hand.
LEMMA SetBusySound ==
  ASSUME HostInv, NEW c \in Callers, SetBusy(c)
  PROVE  HostInv'
<1> USE DEF HostInv, HostTypeOK
<1>1. /\ hpc[c] = "asked" /\ hpc' = [hpc EXCEPT ![c] = "spin"] /\ _dns_busy' = (err[c] = "INPROGRESS")
      /\ UNCHANGED <<aResult, addr, err, hret, number, queries, calls, answer, overlapped>>
  BY DEF SetBusy
<1>2. HostTypeOK'
  BY <1>1
<1>3. ASSUME ~overlapped PROVE OneCall'
  <2>1. OneCall /\ \A d \in Callers : (hpc'[d] # "idle") <=> (hpc[d] # "idle")
    BY <1>1, <1>3
  <2>2. \A d \in Callers : hpc'[d] # "idle" => d = c
    BY <1>1, <2>1 DEF OneCall
  <2>3. Answered(c)'
    BY <1>1, <2>1 DEF OneCall, Answered
  <2>4. \A q \in queries : q[1] \in Callers
    OBVIOUS
  <2> QED
    BY <1>1, <2>1, <2>2, <2>3, <2>4 DEF OneCall
<1> QED
  BY <1>1, <1>2, <1>3

\* A call whose wait is over has its answer, and lwIP does not have its query.
LEMMA WaitIsOver ==
  ASSUME HostInv, NEW c \in Callers, hpc[c] = "spin", ~_dns_busy, ~overlapped
  PROVE  answer[c] # NoAnswer /\ queries = {}
<1>1. answer[c] # NoAnswer
  BY DEF HostInv, OneCall, Answered
<1>2. ASSUME NEW q \in queries PROVE FALSE
  <2>1. q[1] \in Callers /\ hpc[q[1]] # "idle" /\ answer[q[1]] = NoAnswer
    BY DEF HostInv, HostTypeOK, OneCall
  <2>2. q[1] = c
    BY <2>1 DEF HostInv, OneCall
  <2> QED BY <1>1, <2>1, <2>2
<1> QED
  BY <1>1, <1>2

LEMMA FinishSound ==
  ASSUME HostInv, NEW c \in Callers, Finish(c)
  PROVE  HostInv'
<1> USE DEF HostInv, HostTypeOK
<1>1. /\ hpc[c] = "spin" /\ ~_dns_busy /\ hpc' = [hpc EXCEPT ![c] = "idle"]
      /\ UNCHANGED <<_dns_busy, addr, err, number, queries, calls, answer, overlapped>>
  BY DEF Finish, NotBusy
<1>2. hret' \in [Callers -> {0, 1}] /\ aResult' \in [Callers -> Answers]
  BY DEF Finish
<1>3. HostTypeOK'
  BY <1>1, <1>2
<1>4. ASSUME ~overlapped PROVE OneCall'
  <2>1. queries' = {}
    BY <1>1, <1>4, WaitIsOver
  <2>2. OneCall /\ \A d \in Callers : hpc[d] # "idle" => d = c
    BY <1>1, <1>4 DEF OneCall
  <2>3. \A d \in Callers : hpc'[d] = "idle"
    BY <1>1, <2>2
  <2> QED
    BY <2>1, <2>3 DEF OneCall
<1> QED
  BY <1>1, <1>3, <1>4

\* lwIP answers: the one call gets what is meant for it.
LEMMA FoundSound ==
  ASSUME HostInv, NEW q \in queries, NEW a \in Answers, FoundCallback(q, a)
  PROVE  HostInv'
<1> USE DEF HostInv, HostTypeOK
<1> DEFINE c == q[1]
<1>1. c \in Callers
  OBVIOUS
<1>2. /\ queries' = queries \ {q} /\ _dns_busy' = FALSE
      /\ aResult' = IF a = 0 THEN aResult ELSE [aResult EXCEPT ![c] = a]
      /\ answer' = IF q[2] = number[c] THEN [answer EXCEPT ![c] = a] ELSE answer
      /\ UNCHANGED <<addr, err, hpc, hret, number, calls, overlapped>>
  BY DEF FoundCallback, Stores, Cleared
<1> HIDE DEF c
<1>3. HostTypeOK'
  BY <1>1, <1>2
<1>4. ASSUME ~overlapped PROVE OneCall'
  <2>1. /\ OneCall /\ number[c] = q[2] /\ hpc[c] # "idle" /\ err[c] = "INPROGRESS" /\ answer[c] = NoAnswer
        /\ answer' = [answer EXCEPT ![c] = a]
    BY <1>2, <1>4 DEF OneCall, c
  <2>2. \A d \in Callers : hpc'[d] # "idle" => d = c
    BY <1>1, <1>2, <2>1 DEF OneCall
  <2>3. queries' = {}
    <3>1. ASSUME NEW r \in queries PROVE r = q
      <4>1. r[1] \in Callers /\ r \in Callers \X (1..MaxCalls) /\ q \in Callers \X (1..MaxCalls)
        OBVIOUS
      <4>2. r[1] = c /\ r[2] = number[c]
        BY <1>1, <2>1, <4>1 DEF OneCall
      <4> QED BY <2>1, <4>1, <4>2 DEF c
    <3> QED BY <1>2, <3>1
  <2>4. Answered(c)
    BY <1>1, <2>1 DEF OneCall
  <2>5. answer'[c] = a /\ aResult'[c] = a
    BY <1>1, <1>2, <2>1, <2>4 DEF Answered
  <2>6. Answered(c)'
    BY <1>2, <2>1, <2>5, AnswersAreNat DEF Answered
  <2> QED
    BY <2>2, <2>3, <2>6 DEF OneCall
<1> QED
  BY <1>2, <1>3, <1>4

\* The invariant is about hostByName's variables alone.
LEMMA HostUntouched ==
  ASSUME HostInv, UNCHANGED hostvars
  PROVE  HostInv'
<1>1. ASSUME NEW c \in Callers PROVE Answered(c)' = Answered(c)
  BY DEF hostvars, Answered
<1> QED
  BY <1>1 DEF HostInv, HostTypeOK, OneCall, hostvars

LEMMA HostStepSound ==
  ASSUME HostInv, [GenericNext]_genericvars
  PROVE  HostInv'
<1>1. ASSUME NEW c \in Callers, Ask(c) PROVE HostInv'
  BY <1>1, AskSound
<1>2. ASSUME NEW c \in Callers, HostStep(c) PROVE HostInv'
  BY <1>2, SetBusySound, FinishSound, HostUntouched DEF HostStep, Spin
<1>3. ASSUME NEW q \in queries, NEW a \in Answers, FoundCallback(q, a) PROVE HostInv'
  BY <1>3, FoundSound
<1>4. "loop" \in Callers /\ "handler" \in Callers
  BY CallersAssumption
<1> QED
  BY <1>1, <1>2, <1>3, <1>4, HostUntouched DEF GenericNext, genericvars, Register, ResolveName, LoopInHost,
     HandlerInHost, Event, EventTaskStep, Tcpip

LEMMA HostInvariance == GenericSpec => []HostInv
<1>1. ASSUME GenericInit PROVE HostInv
  <2>1. 0 \in 0..MaxCalls /\ 0 \in Answers
    BY AddrsAssumption, AnswersAreNat
  <2> QED
    BY <1>1, <2>1 DEF GenericInit, HostInit, HostInv, HostTypeOK, OneCall
<1> QED
  BY <1>1, HostStepSound, PTL DEF GenericSpec

\* hostByName returns, unless two calls met, exactly the answer the resolver gave
\* to this call: an early, late or missing answer is never taken for another's.
THEOREM HostByNameReturnsTheAnswer == GenericSpec => ReturnsTheAnswer
<1>1. ASSUME HostInv, [GenericNext]_genericvars
      PROVE  [\A c \in Callers :
                hpc[c] = "spin" /\ hpc'[c] = "idle" /\ ~overlapped =>
                  /\ answer[c] # NoAnswer
                  /\ hret'[c] = (IF answer[c] = 0 THEN 0 ELSE 1)
                  /\ hret'[c] = 1 => aResult'[c] = answer[c]]_hostvars
  <2> SUFFICES ASSUME NEW c \in Callers, hpc[c] = "spin", hpc'[c] = "idle", ~overlapped
               PROVE  /\ answer[c] # NoAnswer
                      /\ hret'[c] = (IF answer[c] = 0 THEN 0 ELSE 1)
                      /\ hret'[c] = 1 => aResult'[c] = answer[c]
    OBVIOUS
  <2>1. Finish(c)
    <3>1. ASSUME NEW d \in Callers, Ask(d) PROVE FALSE
      BY <1>1, <3>1 DEF Ask, HostInv, HostTypeOK
    <3>2. ASSUME NEW d \in Callers, SetBusy(d) PROVE FALSE
      BY <1>1, <3>2 DEF SetBusy, HostInv, HostTypeOK
    <3>3. ASSUME NEW d \in Callers, Finish(d) PROVE d = c
      BY <1>1, <3>3 DEF Finish, HostInv, HostTypeOK
    <3>4. hpc' # hpc
      OBVIOUS
    <3>5. "loop" \in Callers /\ "handler" \in Callers
      BY CallersAssumption
    <3> QED
      BY <1>1, <3>1, <3>2, <3>3, <3>4, <3>5 DEF GenericNext, genericvars, hostvars, Register, ResolveName,
         LoopInHost, HandlerInHost, Event, EventTaskStep, Tcpip, HostStep, Spin, FoundCallback
  <2>2. ~_dns_busy /\ hret \in [Callers -> {0, 1}] /\ aResult \in [Callers -> Answers]
    BY <1>1, <2>1 DEF Finish, NotBusy, HostInv, HostTypeOK
  <2>3. answer[c] # NoAnswer /\ Answered(c) /\ err[c] \in {"OK", "INPROGRESS", "ARG"}
    BY <1>1, <2>2, WaitIsOver DEF HostInv, HostTypeOK, OneCall
  <2> QED
    BY <2>1, <2>2, <2>3 DEF Finish, Answered
<1> QED
  BY <1>1, HostInvariance, PTL DEF GenericSpec, ReturnsTheAnswer

-------------------------------------------------------------------------------
(* The event handlers. *)

\* kept is the first k entries without some: entry m of it was entry p[m].
ThinnedBy(p, list, k, kept) ==
  /\ p \in [1..Len(kept) -> 1..k]
  /\ \A m \in 1..Len(kept) : p[m] >= m /\ kept[m] = list[p[m]]
  /\ \A m, n \in 1..Len(kept) : m < n => p[m] < p[n]

Thinned(list, k, kept) ==
  kept \in Seq(Registration) /\ Len(kept) <= k /\ \E p : ThinnedBy(p, list, k, kept)

\* removeEvent's loop over the entries: the recursion has a solution.
LEMMA KeptOfSteps ==
  ASSUME NEW list \in Seq(Registration), NEW cb, NEW event
  PROVE  /\ KeptOf(list, cb, event)[0] = [kept |-> <<>>, passBy |-> FALSE]
         /\ \A k \in 1..Len(list) :
              KeptOf(list, cb, event)[k] = Turn(list[k], cb, event, KeptOf(list, cb, event)[k - 1])
<1> DEFINE A == [kept : Seq(Registration), passBy : BOOLEAN]
           b == [kept |-> <<>>, passBy |-> FALSE]
           F == [k \in 1..Len(list) |-> [a \in A |-> Turn(list[k], cb, event, a)]]
           Solves(f) == f = [k \in 0..Len(list) |-> IF k = 0 THEN b ELSE Turn(list[k], cb, event, f[k - 1])]
<1>1. Len(list) \in Nat
  BY LenProperties
<1>2. b \in A
  BY EmptySeq
<1>3. ASSUME NEW k \in 1..Len(list), NEW a \in A PROVE Turn(list[k], cb, event, a) \in A
  <2>1. list[k] \in Registration
    BY ElementOfSeq
  <2>2. Append(a.kept, list[k]) \in Seq(Registration)
    BY <2>1, AppendProperties
  <2> QED BY <2>2 DEF Turn
<1>4. F \in [1..Len(list) -> [A -> A]]
  BY <1>3
<1>5. \A k \in 1..Len(list), a \in A : F[k][a] = Turn(list[k], cb, event, a)
  OBVIOUS
<1> HIDE DEF A, b, F
<1>6. PICK g : Iterates(g, Len(list), A, b, F)
  BY <1>1, <1>2, <1>4, FoldExists
<1>7. ASSUME NEW k \in 0..Len(list) PROVE g[k] = IF k = 0 THEN b ELSE Turn(list[k], cb, event, g[k - 1])
  <2>1. CASE k = 0
    BY <1>6, <2>1 DEF Iterates
  <2>2. CASE k # 0
    <3>1. k \in 1..Len(list) /\ k - 1 \in 0..Len(list)
      BY <1>1, <2>2
    <3> QED BY <1>5, <1>6, <2>2, <3>1 DEF Iterates
  <2> QED BY <2>1, <2>2
<1>8. Solves(g)
  <2>1. g = [k \in 0..Len(list) |-> g[k]]
    BY <1>6 DEF Iterates
  <2> QED BY <1>7, <2>1
<1>9. KeptOf(list, cb, event) = CHOOSE f : Solves(f)
  BY DEF KeptOf, b
<1>10. Solves(KeptOf(list, cb, event))
  <2> HIDE DEF Solves
  <2> QED BY <1>8, <1>9
<1> DEFINE f == KeptOf(list, cb, event)
<1> HIDE DEF f
<1>11. f = [k \in 0..Len(list) |-> IF k = 0 THEN b ELSE Turn(list[k], cb, event, f[k - 1])]
  BY <1>10 DEF f
<1>12. f[0] = b /\ \A k \in 1..Len(list) : f[k] = Turn(list[k], cb, event, f[k - 1])
  <2>1. 0 \in 0..Len(list) /\ \A k \in 1..Len(list) : k \in 0..Len(list) /\ k # 0
    BY <1>1
  <2> QED BY <1>11, <2>1
<1> QED
  BY <1>12 DEF f, b

\* One turn erases the entry or keeps it after the others.
LEMMA TurnThins ==
  ASSUME NEW list \in Seq(Registration), NEW k \in 1..Len(list), NEW cb, NEW event, NEW acc,
         Thinned(list, k - 1, acc.kept)
  PROVE  Thinned(list, k, Turn(list[k], cb, event, acc).kept)
<1> DEFINE old == acc.kept
           new == Turn(list[k], cb, event, acc).kept
<1>1. Len(list) \in Nat /\ old \in Seq(Registration) /\ Len(old) \in Nat /\ Len(old) <= k - 1
  BY LenProperties DEF Thinned
<1>2. PICK p : ThinnedBy(p, list, k - 1, old)
  BY DEF Thinned
<1>3. new = old \/ new = Append(old, list[k])
  BY DEF Turn
<1> HIDE DEF old, new
<1>4. p \in [1..Len(old) -> 1..k]
  BY <1>1, <1>2 DEF ThinnedBy
<1>5. CASE new = old
  <2>1. ThinnedBy(p, list, k, new)
    BY <1>2, <1>4, <1>5 DEF ThinnedBy
  <2> QED BY <1>1, <1>5, <2>1 DEF Thinned, new
<1>6. CASE new = Append(old, list[k])
  <2> DEFINE q == [m \in 1..Len(old) + 1 |-> IF m = Len(old) + 1 THEN k ELSE p[m]]
  <2>1. list[k] \in Registration
    BY ElementOfSeq
  <2>2. /\ new \in Seq(Registration) /\ Len(new) = Len(old) + 1 /\ new[Len(old) + 1] = list[k]
        /\ \A m \in 1..Len(old) : new[m] = old[m]
    BY <1>1, <1>6, <2>1, AppendProperties
  <2>3. \A m \in 1..Len(new) : m = Len(old) + 1 \/ (m \in 1..Len(old) /\ m # Len(old) + 1)
    BY <1>1, <2>2
  <2>4. q[Len(old) + 1] = k /\ \A m \in 1..Len(old) : q[m] = p[m]
    BY <1>1
  <2>5. q \in [1..Len(new) -> 1..k]
    BY <1>1, <1>4, <2>2
  <2> HIDE DEF q
  <2>6. \A m \in 1..Len(new) : q[m] >= m /\ new[m] = list[q[m]]
    BY <1>1, <1>2, <2>2, <2>3, <2>4 DEF ThinnedBy
  <2>7. ASSUME NEW m \in 1..Len(new), NEW n \in 1..Len(new), m < n PROVE q[m] < q[n]
    <3>0. m \in 1..Len(old)
      BY <1>1, <2>2, <2>7
    <3>1. m \in 1..Len(old) /\ p[m] \in 1..k - 1
      BY <1>2, <3>0 DEF ThinnedBy
    <3> QED BY <1>1, <1>2, <2>3, <2>4, <2>7, <3>1 DEF ThinnedBy
  <2>8. ThinnedBy(q, list, k, new)
    BY <2>5, <2>6, <2>7 DEF ThinnedBy
  <2> QED BY <1>1, <2>2, <2>8 DEF Thinned, new
<1> QED
  BY <1>3, <1>5, <1>6

\* removeEvent keeps the order of the entries it leaves.
LEMMA ErasedThins ==
  ASSUME NEW list \in Seq(Registration), NEW cb, NEW event
  PROVE  Thinned(list, Len(list), Erased(list, cb, event))
<1> DEFINE f == KeptOf(list, cb, event)
           S == {k \in 0..Len(list) : Thinned(list, k, f[k].kept)}
<1>1. Len(list) \in Nat
  BY LenProperties
<1>2. 0 \in S
  <2>1. f[0].kept = <<>>
    BY KeptOfSteps
  <2>2. ThinnedBy(<<>>, list, 0, <<>>)
    BY EmptySeq DEF ThinnedBy
  <2>3. Thinned(list, 0, <<>>)
    BY <2>2, EmptySeq DEF Thinned
  <2>4. 0 \in 0..Len(list)
    BY <1>1
  <2> QED BY <2>1, <2>3, <2>4
<1>3. ASSUME NEW k \in 0..Len(list) - 1, k \in S PROVE k + 1 \in S
  <2>1. k + 1 \in 1..Len(list) /\ k + 1 \in 0..Len(list) /\ (k + 1) - 1 = k
    BY <1>1
  <2>2. Thinned(list, (k + 1) - 1, f[k].kept)
    BY <1>3, <2>1
  <2>3. f[k + 1] = Turn(list[k + 1], cb, event, f[k])
    BY <2>1, KeptOfSteps
  <2> HIDE DEF f
  <2>4. Thinned(list, k + 1, f[k + 1].kept)
    BY <2>1, <2>2, <2>3, TurnThins
  <2> QED BY <2>1, <2>4
<1>4. Len(list) \in S
  <2> HIDE DEF S
  <2>1. Len(list) \in 0..Len(list)
    BY <1>1
  <2> QED BY <1>1, <1>2, <1>3, <2>1, NatSetInduction
<1> QED
  BY <1>4 DEF Erased

\* Registrations are in the order they were made.
InOrder == \A m, n \in DOMAIN cbEventList : m < n => cbEventList[m].id < cbEventList[n].id

\* What the walk has called lies before what it has still to reach.
CalledBefore ==
  \A x \in called : \A m \in DOMAIN cbEventList :
    m > i \/ (m = i /\ ~running) => x < cbEventList[m].id

\* What the walk has passed it has called, if it was to be called, unless the
\* list slid.
PassedCalled ==
  ~slid /\ walk # NONE =>
    \A m \in DOMAIN cbEventList :
      /\ m < i \/ (m = i /\ running)
      /\ cbEventList[m].id \in begun /\ cbEventList[m].event \in {walk, ANY}
      => cbEventList[m].id \in called

EventsInv ==
  /\ EventsTypeOK
  /\ \A m \in DOMAIN cbEventList : cbEventList[m].id <= regs
  /\ Len(cbEventList) <= regs
  /\ i <= regs + 1 /\ (running => i <= regs /\ walk # NONE)
  /\ begun \subseteq 1..regs /\ called \subseteq 1..regs
  /\ InOrder /\ CalledBefore /\ PassedCalled

LEMMA EventTypes ==
  ASSUME EventsInv
  PROVE  /\ cbEventList \in Seq(Registration) /\ Len(cbEventList) \in Nat
         /\ DOMAIN cbEventList = 1..Len(cbEventList)
         /\ \A m \in DOMAIN cbEventList : cbEventList[m] \in Registration /\ cbEventList[m].id \in 1..MaxRegs
         /\ regs \in Nat /\ regs <= MaxRegs /\ i \in Nat \ {0} /\ MaxRegs \in Nat
<1>1. cbEventList \in Seq(Registration) /\ regs \in 0..MaxRegs /\ i \in 1..MaxRegs + 1 /\ MaxRegs \in Nat
  BY EventsAssumption DEF EventsInv, EventsTypeOK
<1>2. \A m \in 1..Len(cbEventList) : cbEventList[m] \in Registration
  BY <1>1, ElementOfSeq
<1> QED
  BY <1>1, <1>2, LenProperties DEF Registration

\* onEvent, also from a handler in the middle of a walk.
LEMMA OnEventSound ==
  ASSUME EventsInv, NEW cb \in Callbacks, NEW event \in Filters, OnEvent(cb, event)
  PROVE  EventsInv'
<1> DEFINE n == Len(cbEventList)
           e == [cb |-> cb, event |-> event, id |-> regs + 1]
<1>1. /\ regs < MaxRegs /\ regs' = regs + 1 /\ cbEventList' = Append(cbEventList, e)
      /\ UNCHANGED <<walk, i, running, begun, called, slid>>
  BY DEF OnEvent
<1>2. n \in Nat /\ DOMAIN cbEventList = 1..n /\ regs \in Nat /\ MaxRegs \in Nat /\ i \in Nat
  BY EventTypes
<1>3. e \in Registration /\ e.id = regs + 1
  BY <1>1, <1>2 DEF Registration
<1> HIDE DEF e
<1>4. /\ cbEventList' \in Seq(Registration) /\ Len(cbEventList') = n + 1 /\ DOMAIN cbEventList' = 1..n + 1
      /\ cbEventList'[n + 1] = e /\ \A m \in 1..n : cbEventList'[m] = cbEventList[m]
  <2>1. cbEventList \in Seq(Registration)
    BY EventTypes
  <2>2. cbEventList' \in Seq(Registration) /\ Len(cbEventList') = n + 1
    BY <1>1, <1>3, <2>1, AppendProperties
  <2>3. cbEventList'[n + 1] = e /\ \A m \in 1..n : cbEventList'[m] = cbEventList[m]
    BY <1>1, <1>3, <2>1, AppendProperties
  <2> QED BY <2>2, <2>3, LenProperties
<1> HIDE DEF n
<1>5. \A m \in 1..n + 1 : m = n + 1 \/ (m \in 1..n /\ m < n + 1)
  BY <1>2
<1>6. \A m \in 1..n : cbEventList[m].id \in Int /\ cbEventList[m].id <= regs /\ cbEventList[m].id < regs + 1
  BY <1>2, EventTypes DEF EventsInv
<1>7. (\A m \in DOMAIN cbEventList : cbEventList[m].id <= regs)'
  BY <1>1, <1>2, <1>3, <1>4, <1>5, <1>6
<1>8. InOrder'
  <2> SUFFICES ASSUME NEW m \in 1..n + 1, NEW k \in 1..n + 1, m < k
               PROVE  cbEventList'[m].id < cbEventList'[k].id
    BY <1>4 DEF InOrder
  <2>1. m \in 1..n
    BY <1>2
  <2> QED BY <1>2, <1>3, <1>4, <1>5, <1>6, <2>1 DEF EventsInv, InOrder
<1>9. \A x \in called : x \in Int /\ x < regs + 1
  BY <1>2 DEF EventsInv
<1>10. CalledBefore'
  BY <1>1, <1>2, <1>3, <1>4, <1>5, <1>9 DEF EventsInv, CalledBefore
<1>11. regs + 1 \notin begun
  BY <1>2 DEF EventsInv
<1>12. PassedCalled'
  BY <1>1, <1>2, <1>3, <1>4, <1>5, <1>11 DEF EventsInv, PassedCalled
<1>13. EventsTypeOK'
  BY <1>1, <1>2, <1>4 DEF EventsInv, EventsTypeOK
<1>14. (Len(cbEventList) <= regs /\ i <= regs + 1 /\ (running => i <= regs /\ walk # NONE))'
  BY <1>1, <1>2, <1>4 DEF EventsInv, n
<1>15. (begun \subseteq 1..regs /\ called \subseteq 1..regs)'
  BY <1>1, <1>2 DEF EventsInv
<1> QED
  BY <1>7, <1>8, <1>10, <1>12, <1>13, <1>14, <1>15 DEF EventsInv

\* removeEvent, also from a handler in the middle of a walk.
LEMMA RemoveEventSound ==
  ASSUME EventsInv, NEW cb \in Callbacks, NEW event \in Filters, RemoveEvent(cb, event)
  PROVE  EventsInv'
<1> DEFINE L == cbEventList
           M == cbEventList'
<1>1. /\ M = Erased(L, cb, event)
      /\ slid' = (slid \/ \E k \in 1..i : k <= Len(L) /\ L[k].id \notin Ids(M))
      /\ UNCHANGED <<regs, walk, i, running, begun, called>>
  BY DEF RemoveEvent
<1>2. /\ L \in Seq(Registration) /\ Len(L) \in Nat /\ DOMAIN L = 1..Len(L)
      /\ \A m \in 1..Len(L) : L[m].id \in Int /\ L[m].id <= regs
      /\ regs \in Nat /\ i \in Nat \ {0}
  BY EventTypes DEF EventsInv
<1>3. Thinned(L, Len(L), M)
  BY <1>1, <1>2, ErasedThins
<1>4. M \in Seq(Registration) /\ Len(M) \in Nat /\ Len(M) <= Len(L) /\ DOMAIN M = 1..Len(M)
  BY <1>3, LenProperties DEF Thinned
<1>5. PICK p : ThinnedBy(p, L, Len(L), M)
  BY <1>3 DEF Thinned
<1> HIDE DEF L, M
<1>6. \A m \in 1..Len(M) : p[m] \in 1..Len(L) /\ p[m] >= m /\ M[m] = L[p[m]]
  BY <1>5 DEF ThinnedBy
<1>7. \A m, n \in 1..Len(M) : m < n => p[m] < p[n]
  BY <1>5 DEF ThinnedBy
<1>8. InOrder'
  <2>1. \A m, n \in 1..Len(L) : m < n => L[m].id < L[n].id
    BY <1>2 DEF EventsInv, InOrder, L
  <2>2. \A m, n \in 1..Len(M) : m < n => M[m].id < M[n].id
    BY <1>6, <1>7, <2>1
  <2> QED BY <1>4, <2>2 DEF InOrder, M
<1>9. CalledBefore'
  <2>1. \A x \in called : \A m \in 1..Len(L) : m > i \/ (m = i /\ ~running) => x < L[m].id
    BY <1>2 DEF EventsInv, CalledBefore, L
  <2>2. \A m \in 1..Len(M) : m > i \/ (m = i /\ ~running) => p[m] > i \/ (p[m] = i /\ ~running)
    BY <1>2, <1>4, <1>6
  <2>3. \A x \in called : \A m \in 1..Len(M) : m > i \/ (m = i /\ ~running) => x < M[m].id
    BY <1>6, <2>1, <2>2
  <2> QED BY <1>1, <1>4, <2>3 DEF CalledBefore, M
<1>10. ASSUME ~slid' PROVE \A m \in 1..Len(M) : m <= i => p[m] = m
  <2> DEFINE T == {m \in 1..Len(M) : m <= i /\ p[m] # m}
  <2> SUFFICES ASSUME T # {} PROVE FALSE
    OBVIOUS
  <2>1. PICK x \in T : \A y \in T : x <= y
    <3>1. T \subseteq Nat
      BY <1>4
    <3> HIDE DEF T
    <3> QED BY <3>1, LeastNat
  <2>2. x \in 1..Len(M) /\ x <= i /\ p[x] > x /\ x \in 1..Len(L) /\ x \in 1..i /\ x <= Len(L)
    BY <1>2, <1>4, <1>6, <2>1
  <2>3. L[x].id \in Ids(M)
    BY <1>1, <1>10, <2>2
  <2>4. PICK y \in 1..Len(M) : L[p[y]].id = L[x].id
    BY <1>4, <1>6, <2>3 DEF Ids
  <2>5. p[y] = x
    <3>1. \A m, n \in 1..Len(L) : m < n => L[m].id < L[n].id
      BY <1>2 DEF EventsInv, InOrder, L
    <3>2. p[y] \in 1..Len(L) /\ L[x].id \in Int
      BY <1>2, <1>6, <2>2
    <3> QED BY <2>2, <2>4, <3>1, <3>2
  <2>6. y < x
    <3>1. x < y => p[x] < p[y]
      BY <1>7, <2>2
    <3>2. p[x] \in Int /\ y # x
      BY <1>6, <2>2, <2>5
    <3> QED BY <2>2, <2>5, <3>1, <3>2
  <2>7. y \in T
    BY <1>2, <2>2, <2>5, <2>6
  <2> HIDE DEF T
  <2> QED BY <2>1, <2>2, <2>6, <2>7
<1>11. PassedCalled'
  <2> SUFFICES ASSUME ~slid', walk # NONE, NEW m \in 1..Len(M), m < i \/ (m = i /\ running),
                      M[m].id \in begun, M[m].event \in {walk, ANY}
               PROVE  M[m].id \in called
    BY <1>1, <1>4 DEF PassedCalled, M
  <2>1. ~slid /\ m <= i
    <3>1. ~slid
      BY <1>1, Zenon
    <3>2. m <= i
      BY <1>2, <1>4
    <3> QED BY <3>1, <3>2
  <2>2. M[m] = L[m] /\ m \in 1..Len(L)
    BY <1>2, <1>6, <1>10, <2>1
  <2> QED BY <1>2, <2>1, <2>2 DEF EventsInv, PassedCalled, L
<1>12. \A m \in 1..Len(M) : M[m].id <= regs
  BY <1>2, <1>6
<1>13. EventsTypeOK'
  BY <1>1, <1>4 DEF EventsInv, EventsTypeOK, M
<1>14. Len(M) <= regs
  <2>1. Len(L) <= regs
    BY DEF EventsInv, L
  <2> QED BY <1>2, <1>4, <2>1
<1> QED
  BY <1>1, <1>4, <1>8, <1>9, <1>11, <1>12, <1>13, <1>14 DEF EventsInv, M

\* The steps of _eventCallback.
LEMMA WalkSound ==
  ASSUME EventsInv, (\E event \in Events : Deliver(event)) \/ EventTask
  PROVE  EventsInv'
<1> DEFINE L == cbEventList
<1>1. /\ L \in Seq(Registration) /\ Len(L) \in Nat /\ DOMAIN L = 1..Len(L)
      /\ \A m \in DOMAIN L : L[m].id \in Int /\ L[m].id \in 1..regs
      /\ regs \in Nat /\ i \in Nat \ {0} /\ regs <= MaxRegs /\ MaxRegs \in Nat
  <2>1. \A m \in DOMAIN L : L[m].id \in 1..MaxRegs /\ L[m].id <= regs
    BY EventTypes DEF EventsInv
  <2> QED BY <2>1, EventTypes
<1>2. ASSUME NEW event \in Events, Deliver(event) PROVE EventsInv'
  <2>1. /\ ~running /\ walk' = event /\ i' = 1 /\ begun' = Ids(L) /\ called' = {} /\ slid' = FALSE
        /\ UNCHANGED <<cbEventList, regs, running>>
    BY <1>2 DEF Deliver, EventsInv
  <2>2. Ids(L) \subseteq 1..regs /\ 1..regs \subseteq 1..MaxRegs
    BY <1>1 DEF Ids
  <2>3. CalledBefore' /\ PassedCalled' /\ InOrder'
    BY <1>1, <2>1 DEF EventsInv, CalledBefore, PassedCalled, InOrder
  <2>4. 1 \in 1..MaxRegs + 1 /\ 1 <= regs + 1
    BY <1>1
  <2>5. EventsTypeOK'
    BY <2>1, <2>2, <2>4 DEF EventsInv, EventsTypeOK
  <2> QED BY <2>1, <2>2, <2>3, <2>4, <2>5 DEF EventsInv
<1>3. CASE CallEntry
  <2>1. /\ walk # NONE /\ ~running /\ i \in DOMAIN L /\ running' = TRUE /\ called' = called \cup {L[i].id}
        /\ UNCHANGED <<cbEventList, regs, walk, i, begun, slid>>
    BY <1>1, <1>3 DEF CallEntry
  <2>2. i <= regs /\ L[i].id \in 1..regs /\ 1..regs \subseteq 1..MaxRegs
    BY <1>1, <2>1 DEF EventsInv
  <2>3. CalledBefore'
    BY <1>1, <2>1 DEF EventsInv, CalledBefore, InOrder
  <2>4. PassedCalled'
    BY <1>1, <2>1 DEF EventsInv, PassedCalled
  <2>5. EventsTypeOK'
    BY <2>1, <2>2 DEF EventsInv, EventsTypeOK
  <2> QED BY <2>1, <2>2, <2>3, <2>4, <2>5 DEF EventsInv, InOrder
<1>4. CASE HandlerReturns
  <2>1. /\ running /\ running' = FALSE /\ i' = i + 1 /\ i <= regs
        /\ UNCHANGED <<cbEventList, regs, walk, begun, called, slid>>
    BY <1>4 DEF HandlerReturns, EventsInv
  <2>2. i + 1 \in 1..MaxRegs + 1 /\ i + 1 <= regs + 1
    BY <1>1, <2>1
  <2>3. \A m \in DOMAIN L : (m > i + 1 \/ m = i + 1 => m > i) /\ (m < i + 1 => m < i \/ m = i)
    BY <1>1
  <2>4. CalledBefore' /\ PassedCalled'
    BY <2>1, <2>3 DEF EventsInv, CalledBefore, PassedCalled
  <2>5. EventsTypeOK'
    BY <2>1, <2>2 DEF EventsInv, EventsTypeOK
  <2> QED BY <2>1, <2>2, <2>4, <2>5 DEF EventsInv, InOrder
<1>5. CASE PassEntry
  <2>1. /\ ~running /\ i' = i + 1 /\ i \in DOMAIN L /\ L[i].event \notin {walk, ANY}
        /\ UNCHANGED <<cbEventList, regs, walk, running, begun, called, slid>>
    BY <1>1, <1>5 DEF PassEntry, Wants
  <2>2. i + 1 \in 1..MaxRegs + 1 /\ i + 1 <= regs + 1
    BY <1>1, <2>1 DEF EventsInv
  <2>3. \A m \in DOMAIN L : (m > i + 1 \/ m = i + 1 => m > i) /\ (m < i + 1 => m < i \/ m = i)
    BY <1>1
  <2>4. CalledBefore' /\ PassedCalled'
    BY <2>1, <2>3 DEF EventsInv, CalledBefore, PassedCalled
  <2>5. EventsTypeOK'
    BY <2>1, <2>2 DEF EventsInv, EventsTypeOK
  <2> QED BY <2>1, <2>2, <2>4, <2>5 DEF EventsInv, InOrder
<1>6. CASE EndWalk
  BY <1>6 DEF EndWalk, EventsInv, EventsTypeOK, InOrder, CalledBefore, PassedCalled
<1> QED
  BY <1>2, <1>3, <1>4, <1>5, <1>6 DEF EventTask

LEMMA EventsUntouched ==
  ASSUME EventsInv, UNCHANGED eventvars
  PROVE  EventsInv'
BY DEF EventsInv, EventsTypeOK, InOrder, CalledBefore, PassedCalled, eventvars

LEMMA EventsStepSound ==
  ASSUME EventsInv, [GenericNext]_genericvars
  PROVE  EventsInv'
<1>1. CASE Register
  BY <1>1, OnEventSound, RemoveEventSound DEF Register
<1>2. CASE Event \/ EventTaskStep
  BY <1>2, WalkSound DEF Event, EventTaskStep
<1>3. CASE ResolveName \/ LoopInHost \/ HandlerInHost \/ Tcpip \/ UNCHANGED genericvars
  BY <1>3, EventsUntouched DEF ResolveName, LoopInHost, HandlerInHost, Tcpip, genericvars
<1> QED
  BY <1>1, <1>2, <1>3 DEF GenericNext

LEMMA EventsInvariance == GenericSpec => []EventsInv
<1>1. ASSUME GenericInit PROVE EventsInv
  <2>1. 0 \in 0..MaxRegs /\ 1 \in 1..MaxRegs + 1 /\ 1 <= 0 + 1
    BY EventsAssumption
  <2>2. <<>> \in Seq(Registration) /\ Len(<<>>) = 0 /\ DOMAIN <<>> = {}
    BY EmptySeq
  <2>3. /\ cbEventList = <<>> /\ regs = 0 /\ walk = NONE /\ i = 1 /\ running = FALSE
        /\ begun = {} /\ called = {} /\ slid = FALSE
    BY <1>1 DEF GenericInit, EventsInit
  <2>4. EventsTypeOK
    BY <2>1, <2>2, <2>3 DEF EventsTypeOK
  <2>5. InOrder /\ CalledBefore /\ PassedCalled
    BY <2>2, <2>3 DEF InOrder, CalledBefore, PassedCalled
  <2> QED
    BY <2>1, <2>2, <2>3, <2>4, <2>5 DEF EventsInv
<1> QED
  BY <1>1, EventsStepSound, PTL DEF GenericSpec

\* The walk's index stays near the list however handlers change it, and lwIP
\* answers no call of hostByName that has returned, unless two calls met.
THEOREM CallersAreSafe == GenericSpec => []CallersSafe
<1>1. EventsInv /\ HostInv => CallersSafe
  BY DEF EventsInv, HostInv, OneCall, CallersSafe, GenericTypeOK, CallbackFindsCaller
<1> QED
  BY <1>1, EventsInvariance, HostInvariance, PTL

\* An event is given to no registration twice, and to every one that was there
\* and is still there, unless an entry the walk had reached was removed: for
\* lists of any length, with handlers that add and remove entries meanwhile.
THEOREM HandlersAreCalled == GenericSpec => HandlersCalled
<1>1. ASSUME EventsInv PROVE CalledOnce
  <2> SUFFICES ASSUME CallEntry PROVE cbEventList[i].id \notin called
    BY DEF CalledOnce
  <2>1. i \in DOMAIN cbEventList /\ ~running /\ cbEventList[i].id \in Int
    BY <1>1, EventTypes DEF CallEntry
  <2> QED BY <1>1, <2>1 DEF EventsInv, CalledBefore
<1>2. ASSUME EventsInv PROVE NobodyMissed
  <2> SUFFICES ASSUME EndWalk, ~slid, NEW k \in DOMAIN cbEventList,
                      cbEventList[k].id \in begun, cbEventList[k].event \in {walk, ANY}
               PROVE  cbEventList[k].id \in called
    BY DEF NobodyMissed
  <2>1. k < i /\ walk # NONE
    BY <1>2, EventTypes DEF EndWalk
  <2> QED BY <1>2, <2>1 DEF EventsInv, PassedCalled
<1> QED
  BY <1>1, <1>2, EventsInvariance, PTL DEF HandlersCalled
===============================================================================
