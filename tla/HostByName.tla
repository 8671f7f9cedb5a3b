------------------------------- MODULE HostByName ------------------------------
(***************************************************************************)
(* ESP31BWiFiGenericClass::hostByName and its DNS callback                 *)
(* (ESP31BWiFiGeneric.cpp).  A caller asks lwIP for an address; when the   *)
(* answer is not at hand it spins on the one static _dns_busy until        *)
(* wifi_dns_found_callback, run by lwIP's tcpip thread, clears it.  The    *)
(* callback writes through a pointer to the caller's aResult, which is     *)
(* valid only while the call lasts.  The tcpip thread outranks the callers *)
(* and may run between any two of their steps.                             *)
(*                                                                         *)
(* An address is a number, 0 the address 0.0.0.0 and the lack of one.      *)
(* Calls are numbered; a query is <<caller, number>>.  answer and          *)
(* overlapped are not program state: what the resolver has said to a       *)
(* caller's present call, and whether two calls have met.                  *)
(***************************************************************************)
EXTENDS Integers

CONSTANTS
  Callers,    \* the tasks that call hostByName
  Addrs,      \* the addresses hosts have
  MaxCalls    \* bound on the calls of hostByName

ASSUME AddrsAssumption == Addrs \subseteq Nat \ {0} /\ MaxCalls \in Nat

VARIABLES
  _dns_busy,
  aResult,    \* each caller's IPAddress
  addr,       \* its local addr, filled in when lwIP knows the address
  err,        \* what dns_gethostbyname returned to it
  hpc,        \* where it is in hostByName
  hret,       \* what its last call returned
  number,     \* the number of its present or last call
  queries,    \* the queries lwIP still has to answer
  calls,      \* calls made
  answer, overlapped

hostvars == <<_dns_busy, aResult, addr, err, hpc, hret, number, queries, calls, answer, overlapped>>

Answers == Addrs \cup {0}
NoAnswer == -1

HostInit ==
  /\ _dns_busy = FALSE
  /\ aResult = [c \in Callers |-> 0] /\ addr = [c \in Callers |-> 0]
  /\ err = [c \in Callers |-> "OK"]
  /\ hpc = [c \in Callers |-> "idle"] /\ hret = [c \in Callers |-> 0]
  /\ number = [c \in Callers |-> 0]
  /\ queries = {} /\ calls = 0
  /\ answer = [c \in Callers |-> NoAnswer] /\ overlapped = FALSE

\* lwIP's dns_gethostbyname knows the address (a dotted quad or a cached name),
\* has queued a query, or fails; "ARG" stands for any of its errors.
dns_gethostbyname(c) ==
  \/ \E a \in Answers :
       /\ err' = [err EXCEPT ![c] = "OK"]
       /\ addr' = [addr EXCEPT ![c] = a]
       /\ answer' = [answer EXCEPT ![c] = a]
       /\ UNCHANGED queries
  \/ /\ err' = [err EXCEPT ![c] = "INPROGRESS"]
     /\ queries' = queries \cup {<<c, calls + 1>>}
     /\ answer' = [answer EXCEPT ![c] = NoAnswer]
     /\ UNCHANGED addr
  \/ /\ err' = [err EXCEPT ![c] = "ARG"]
     /\ answer' = [answer EXCEPT ![c] = 0]
     /\ UNCHANGED <<addr, queries>>

\* A hostByName that leaves aResult as the caller had it.
KeepsResult(c) == UNCHANGED aResult

\* aResult = 0
ClearsResult(c) == aResult' = [aResult EXCEPT ![c] = 0]

Ask(c) ==
  /\ hpc[c] = "idle"
  /\ calls < MaxCalls
  /\ calls' = calls + 1
  /\ number' = [number EXCEPT ![c] = calls + 1]
  /\ ClearsResult(c)
  /\ dns_gethostbyname(c)
  /\ hpc' = [hpc EXCEPT ![c] = "asked"]
  /\ overlapped' = (overlapped \/ \E d \in Callers : hpc[d] # "idle")
  /\ UNCHANGED <<_dns_busy, hret>>

\* _dns_busy = err == ERR_INPROGRESS
SetBusy(c) ==
  /\ hpc[c] = "asked"
  /\ _dns_busy' = (err[c] = "INPROGRESS")
  /\ hpc' = [hpc EXCEPT ![c] = "spin"]
  /\ UNCHANGED <<aResult, addr, err, hret, number, queries, calls, answer, overlapped>>

\* A wait that gives up.
NotBusyOrTired == TRUE

\* while(_dns_busy) delayMicroseconds(1)
NotBusy == ~_dns_busy

\* The test after the loop, and the assignment to aResult that goes with it.
Finish(c) ==
  /\ hpc[c] = "spin"
  /\ NotBusy
  /\ LET found == err[c] = "INPROGRESS" /\ aResult[c] # 0
         known == err[c] = "OK" /\ addr[c] # 0
     IN  /\ hret' = [hret EXCEPT ![c] = IF found \/ known THEN 1 ELSE 0]
         /\ aResult' = IF known THEN [aResult EXCEPT ![c] = addr[c]] ELSE aResult
  /\ hpc' = [hpc EXCEPT ![c] = "idle"]
  /\ UNCHANGED <<_dns_busy, addr, err, number, queries, calls, answer, overlapped>>

\* A turn of the loop that changes nothing.
Spin(c) == hpc[c] = "spin" /\ ~NotBusy /\ UNCHANGED hostvars

HostStep(c) == SetBusy(c) \/ Spin(c) \/ Finish(c)

\* A callback that tells the waiting call only of success.
ClearedOnSuccess(a) == _dns_busy' = (_dns_busy /\ a = 0)

\* _dns_busy = false, whatever the answer
Cleared(a) == _dns_busy' = FALSE

\* if(ipaddr) *callback_arg = ipaddr->addr
Stores(c, a) == aResult' = IF a = 0 THEN aResult ELSE [aResult EXCEPT ![c] = a]

\* wifi_dns_found_callback: lwIP answers a query, with a = 0 for a null ipaddr
\* (no such host, or a timeout).
FoundCallback(q, a) ==
  /\ q \in queries
  /\ queries' = queries \ {q}
  /\ Stores(q[1], a)
  /\ Cleared(a)
  /\ answer' = IF q[2] = number[q[1]] THEN [answer EXCEPT ![q[1]] = a] ELSE answer
  /\ UNCHANGED <<addr, err, hpc, hret, number, calls, overlapped>>

-----------------------------------------------------------------------------
HostTypeOK ==
  /\ _dns_busy \in BOOLEAN /\ overlapped \in BOOLEAN
  /\ aResult \in [Callers -> Answers] /\ addr \in [Callers -> Answers]
  /\ err \in [Callers -> {"OK", "INPROGRESS", "ARG"}]
  /\ hpc \in [Callers -> {"idle", "asked", "spin"}]
  /\ hret \in [Callers -> {0, 1}]
  /\ queries \subseteq Callers \X (1..MaxCalls)
  /\ answer \in [Callers -> Answers \cup {NoAnswer}]

\* hostByName has not returned while lwIP holds a pointer to its aResult: the
\* callback never writes to a frame that is gone.  Not so when two tasks' calls
\* have met: the answer to one ends the wait of the other.
CallbackFindsCaller ==
  ~overlapped => \A q \in queries : number[q[1]] = q[2] /\ hpc[q[1]] # "idle"

\* When hostByName returns it reports success exactly if the resolver gave
\* this call an address, and then that address is in aResult.
ReturnsTheAnswer ==
  [][\A c \in Callers :
       hpc[c] = "spin" /\ hpc'[c] = "idle" /\ ~overlapped =>
         /\ answer[c] # NoAnswer
         /\ hret'[c] = (IF answer[c] = 0 THEN 0 ELSE 1)
         /\ hret'[c] = 1 => aResult'[c] = answer[c]]_hostvars

\* A call that reached its wait before the answer came returns.
LateAnswerReturns ==
  \A c \in Callers : hpc[c] = "spin" /\ queries # {} ~> hpc[c] = "idle" \/ overlapped
=============================================================================
