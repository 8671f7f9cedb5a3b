------------------------------- MODULE WifiMulti -------------------------------
(***************************************************************************)
(* ESP31BWiFiMulti::run (ESP31BWiFiMulti.cpp): the loop task calls it again*)
(* and again to keep the station on the best known network.  It composes   *)
(* the scan (WifiScan) with the station (ESP31BWiFiSTA.cpp), whose state   *)
(* the SDK's WiFi task changes at any time.                                *)
(*                                                                         *)
(* A pass phrase is "set", "null" or "wild": addAP() without one leaves    *)
(* the pointer uninitialised.  joined and asked are not program state: the *)
(* networks run() chose from and its choice, and whether it got as far as  *)
(* asking the SDK to connect.                                              *)
(***************************************************************************)
EXTENDS WifiScan, Sequences, SequencesExt

CONSTANTS
  Ssids,     \* the names of networks
  Levels,    \* signal levels
  MaxAPs     \* bound on the access points added

\* The driver's rssi is a sint8.
ASSUME MultiAssumption == Levels \subseteq -128..127 /\ MaxAPs \in Nat

VARIABLES
  APlist,
  mode,      \* the station is enabled
  conf,      \* the SDK's station_config
  link,      \* wifi_station_get_connect_status(), the failures as one
  mpc,       \* where run() is
  joined, asked

stavars == <<mode, conf, link>>
multivars == <<APlist, stavars, mpc, joined, asked>>
allvars == <<vars, multivars>>

NOBODY == [ssid |-> "", pass |-> "", open |-> FALSE]
UNDECIDED == [nets |-> <<>>, best |-> 0]

MultiInit ==
  /\ Init
  /\ APlist = <<>>
  /\ mode = FALSE /\ conf = NOBODY /\ link = "IDLE"
  /\ mpc = "out" /\ joined = UNDECIDED /\ asked = FALSE

-----------------------------------------------------------------------------
(* The station. *)

\* status() is WL_CONNECTED, WL_NO_SSID_AVAIL or WL_CONNECT_FAILED.
Final == link \in {"GOT_IP", "FAILED"}

\* enableSTA(true): whether it succeeds, and the mode after it.
enableSTA(ok) == mode' = (mode \/ ok) /\ (mode => ok)

\* disconnect(): the configuration is cleared.
Disconnected == conf' = NOBODY /\ link' = "IDLE"

\* disconnect(wifioff) by the sketch.
Disconnect(wifioff) ==
  /\ mpc = "out" /\ pc = "idle"
  /\ Disconnected
  /\ mode' \in IF wifioff THEN {mode, FALSE} ELSE {mode}
  /\ UNCHANGED <<vars, APlist, mpc, joined, asked>>

\* begin() without arguments, which enables the station, and reconnect(), which
\* finds it enabled.  Without a configuration the SDK has nobody to connect to.
Reconnect ==
  /\ mpc = "out" /\ pc = "idle"
  /\ conf # NOBODY
  /\ mode' = TRUE /\ link' = "CONNECTING"
  /\ UNCHANGED <<vars, APlist, conf, mpc, joined, asked>>

\* (External.) An attempt ends; a connection is lost, to be sought again or not.
Resolve ==
  /\ link = "CONNECTING"
  /\ link' \in {"GOT_IP", "FAILED"}
  /\ UNCHANGED <<vars, APlist, mode, conf, mpc, joined, asked>>

Drop ==
  /\ link = "GOT_IP"
  /\ link' \in {"CONNECTING", "IDLE"}
  /\ UNCHANGED <<vars, APlist, mode, conf, mpc, joined, asked>>

-----------------------------------------------------------------------------
(* The list of access points. *)

\* APlistAdd, with or without a pass phrase.
AddAP(ssid, passphrase) ==
  /\ mpc = "out" /\ pc = "idle" /\ Len(APlist) < MaxAPs
  /\ \E pass \in IF passphrase THEN {"set"} ELSE {"null", "wild"} :
       APlist' = Append(APlist, [ssid |-> ssid, pass |-> pass])
  /\ UNCHANGED <<vars, stavars, mpc, joined, asked>>

\* The place of the first entry for a name, 0 if it has none.
Entry(ssid) == SelectInSeq(APlist, LAMBDA e : e.ssid = ssid)

Networks == [ssid : Ssids, level : Levels, open : BOOLEAN]

\* (Mistake: the level is compared before the pass phrase is looked at, and the
\* best level kept either way.)
BetterAnyway(nets, i, acc) ==
  LET n == nets[i]
      e == Entry(n.ssid)
  IN  IF e = 0 \/ n.level <= acc.db THEN acc
      ELSE IF n.open \/ APlist[e].pass # "null" THEN [best |-> i, db |-> n.level]
      ELSE [acc EXCEPT !.db = n.level]

\* What the body of run()'s loop makes of network i.
Better(nets, i, acc) ==
  LET n == nets[i]
      e == Entry(n.ssid)
  IN  IF e # 0 /\ n.level > acc.db /\ (n.open \/ APlist[e].pass # "null")
        THEN [best |-> i, db |-> n.level] ELSE acc

INT_MIN == -2147483647 - 1

\* What run() has found after each of the networks, in the order of the list.
BestSoFar(nets) ==
  LET acc[i \in 0..Len(nets)] == IF i = 0 THEN [best |-> 0, db |-> INT_MIN]
                                 ELSE Better(nets, i, acc[i - 1])
  IN  acc

bestNetwork(nets) == BestSoFar(nets)[Len(nets)].best

-----------------------------------------------------------------------------
(* run().  When the station is connected it changes nothing. *)

\* status() is read.
RunCheck ==
  /\ mpc = "out" /\ pc = "idle" /\ link # "GOT_IP"
  /\ mpc' = "checked"
  /\ UNCHANGED <<vars, APlist, stavars, joined, asked>>

\* A scan is running, or 255 networks were found.
RunScanning ==
  /\ mpc = "checked" /\ scanComplete = RUNNING
  /\ mpc' = "out"
  /\ UNCHANGED <<vars, APlist, stavars, joined, asked>>

\* scanComplete() is positive, and run() looks at so many networks of the list,
\* which does not change meanwhile, for no scan is in progress.
RunAnalyse ==
  /\ mpc = "checked" /\ scanComplete > 0
  /\ \E nets \in [1..scanComplete -> Networks] :
       joined' = [nets |-> nets, best |-> bestNetwork(nets)]
  /\ mpc' = "delete"
  /\ UNCHANGED <<vars, APlist, stavars, asked>>

\* scanDelete()
RunDelete ==
  /\ mpc = "delete"
  /\ FreeResult
  /\ _scanComplete' = FALSE
  /\ mpc' = IF joined.best = 0 THEN "out" ELSE "begin"
  /\ joined' = IF joined.best = 0 THEN UNDECIDED ELSE joined
  /\ UNCHANGED <<_scanStarted, scans, driver, pc, last, early, APlist, stavars, asked>>

\* The configuration for network n; open stands for its BSSID, which tells apart
\* the networks of one name.
Configured(n) == [ssid |-> n.ssid, pass |-> APlist[Entry(n.ssid)].pass, open |-> n.open]

\* begin(ssid, passphrase, channel, bssid): without the station, with a wild pass
\* phrase too long, or with the configuration it has already, it does not
\* connect.  run() waits all the same.
RunBegin ==
  /\ mpc = "begin"
  /\ mpc' = "wait"
  /\ LET new == Configured(joined.nets[joined.best])
     IN  \E ok, short \in BOOLEAN :
           /\ enableSTA(ok)
           /\ short \/ new.pass = "wild"
           /\ IF ok /\ short /\ conf # new
                THEN conf' = new /\ link' = "CONNECTING" /\ asked' = TRUE
                ELSE asked' = FALSE /\ UNCHANGED <<conf, link>>
  /\ UNCHANGED <<vars, APlist, joined>>

\* (Mistake: only a connection ends the wait.)
RunWaitsForIp ==
  /\ mpc = "wait"
  /\ IF link = "GOT_IP" THEN mpc' = "out" /\ joined' = UNDECIDED /\ asked' = FALSE
                        ELSE UNCHANGED <<mpc, joined, asked>>
  /\ UNCHANGED <<vars, APlist, stavars>>

\* The wait at line 118 looks at the status.
RunWaited ==
  /\ mpc = "wait"
  /\ IF Final THEN mpc' = "out" /\ joined' = UNDECIDED /\ asked' = FALSE
              ELSE UNCHANGED <<mpc, joined, asked>>
  /\ UNCHANGED <<vars, APlist, stavars>>

\* Nothing known, or a count that int8_t makes negative or 0: disconnect() and a
\* new scan.
RunScan ==
  /\ mpc = "checked" /\ scanComplete # RUNNING /\ scanComplete <= 0
  /\ Disconnected
  /\ mpc' = "scan"
  /\ UNCHANGED <<vars, APlist, mode, joined, asked>>

-----------------------------------------------------------------------------
(* The scan, called from run() or by the sketch. *)

\* scanNetworks() up to wifi_station_scan, with what it does to the station.
StartScan ==
  /\ mpc \in {"out", "scan"}
  /\ ScanNetworks
  /\ IF _scanStarted THEN UNCHANGED stavars
     ELSE /\ mode' \in {mode, TRUE}
          /\ IF link \in {"GOT_IP", "IDLE"} THEN UNCHANGED <<conf, link>> ELSE Disconnected
  /\ mpc' = IF mpc = "scan" THEN "scanning" ELSE mpc
  /\ UNCHANGED <<APlist, joined, asked>>

\* run() returns when its scanNetworks() does.
ScanCall ==
  /\ LoopStep
  /\ mpc' = IF pc' = "idle" THEN "out" ELSE mpc
  /\ UNCHANGED <<APlist, stavars, joined, asked>>

\* The sketch deletes the results.
UseScan ==
  /\ mpc = "out"
  /\ ScanDelete
  /\ UNCHANGED multivars

DriverDone == ScanDone /\ UNCHANGED multivars

RunStep ==
  RunScanning \/ RunAnalyse \/ RunDelete \/ RunBegin \/ RunScan \/ ScanCall
    \/ (mpc = "scan" /\ StartScan)

MultiNext ==
  \/ \E s \in Ssids, p \in BOOLEAN : AddAP(s, p)
  \/ \E off \in BOOLEAN : Disconnect(off)
  \/ Reconnect
  \/ Resolve
  \/ Drop
  \/ RunCheck
  \/ RunStep
  \/ RunWaited
  \/ StartScan
  \/ UseScan
  \/ DriverDone

MultiSpec == MultiInit /\ [][MultiNext]_allvars

\* The loop task runs and the SDK ends what it began.  run() polls every 10 ms,
\* so a final status that comes again and again does not escape it for ever.
MultiFairSpec ==
  /\ MultiSpec
  /\ WF_allvars(RunStep) /\ WF_allvars(DriverDone) /\ WF_allvars(Resolve)
  /\ SF_allvars(RunWaited)

-----------------------------------------------------------------------------
(* Correctness. *)

\* Networks run() could join: named in the list, and open or with a pass phrase
\* in the first entry of that name.
Candidates ==
  {i \in DOMAIN joined.nets :
    LET e == Entry(joined.nets[i].ssid)
    IN  e # 0 /\ (joined.nets[i].open \/ APlist[e].pass = "set")}

\* run() joins none of the networks it saw if it can join none, and otherwise
\* one than which none it could join is stronger, with that one's credentials.
\* Not covered: lists with an uninitialised pass phrase pointer.
JoinsBest ==
  joined # UNDECIDED /\ (\A e \in DOMAIN APlist : APlist[e].pass # "wild") =>
    /\ (joined.best = 0) = (Candidates = {})
    /\ joined.best # 0 =>
         /\ joined.best \in Candidates
         /\ \A i \in Candidates : joined.nets[i].level <= joined.nets[joined.best].level
         /\ asked => conf.ssid = joined.nets[joined.best].ssid
                     /\ (conf.open \/ conf.pass = "set")

\* Once run() has asked the SDK to connect it returns, unless the connection is
\* made and lost for good between two of its polls.
RunReturns == mpc = "wait" /\ asked ~> mpc # "wait" \/ link = "IDLE"
=============================================================================
