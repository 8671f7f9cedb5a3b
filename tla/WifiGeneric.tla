------------------------------ MODULE WifiGeneric ------------------------------
(***************************************************************************)
(* Who runs when in ESP31BWiFiGeneric.cpp: the sketch's loop task, and the *)
(* SDK's event task, which outranks it and calls the sketch's handlers     *)
(* from _eventCallback.  Both may register handlers and resolve names.     *)
(*                                                                         *)
(* hostByName spins without yielding: while a handler is in it the loop    *)
(* task stands still.  A handler may block for other reasons, and then the *)
(* loop task goes on.                                                      *)
(***************************************************************************)
EXTENDS WifiEvents, HostByName

ASSUME CallersAssumption == Callers = {"loop", "handler"}

genericvars == <<eventvars, hostvars>>

GenericInit == EventsInit /\ HostInit

\* The loop task has the processor.
LoopRuns == walk = NONE \/ (running /\ hpc["handler"] = "idle")

\* Who can call something now: the loop task, or the handler that is running,
\* when not inside hostByName.
Free(c) ==
  /\ hpc[c] = "idle"
  /\ IF c = "loop" THEN LoopRuns ELSE running

Register ==
  /\ \E c \in Callers : Free(c)
  /\ \E cb \in Callbacks, event \in Filters : OnEvent(cb, event) \/ RemoveEvent(cb, event)
  /\ UNCHANGED hostvars

ResolveName == \E c \in Callers : Free(c) /\ Ask(c) /\ UNCHANGED eventvars

LoopInHost == LoopRuns /\ HostStep("loop") /\ UNCHANGED eventvars

HandlerInHost == HostStep("handler") /\ UNCHANGED eventvars

Event == \E event \in Events : Deliver(event) /\ UNCHANGED hostvars

EventTaskStep == hpc["handler"] = "idle" /\ EventTask /\ UNCHANGED hostvars

Tcpip == (\E q \in queries, a \in Answers : FoundCallback(q, a)) /\ UNCHANGED eventvars

GenericNext == Register \/ ResolveName \/ LoopInHost \/ HandlerInHost \/ Event \/ EventTaskStep \/ Tcpip

GenericSpec == GenericInit /\ [][GenericNext]_genericvars

\* The event task runs, and its handlers return; events leave the loop task time
\* again and again; lwIP answers every query in the end, for it retries and then
\* reports a timeout.
GenericFairSpec ==
  /\ GenericSpec
  /\ WF_genericvars(EventTaskStep) /\ WF_genericvars(HandlerInHost)
  /\ SF_genericvars(LoopInHost)
  /\ WF_genericvars(Tcpip)

-----------------------------------------------------------------------------
GenericTypeOK == EventsTypeOK /\ HostTypeOK

\* The walk's index stays near the list, and no callback of lwIP writes to a call
\* that has returned (CallbackFindsCaller).
CallersSafe == GenericTypeOK /\ CallbackFindsCaller
=============================================================================
