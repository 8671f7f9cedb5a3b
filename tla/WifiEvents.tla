------------------------------- MODULE WifiEvents ------------------------------
(***************************************************************************)
(* The WiFi event handlers of a sketch (ESP31BWiFiGeneric.cpp): onEvent    *)
(* and removeEvent change the vector cbEventList, _eventCallback walks it  *)
(* by index and calls the handlers of an event.                            *)
(*                                                                         *)
(* _eventCallback runs in the SDK's event task, which outranks the loop    *)
(* task.  A handler is the sketch's code: it may itself call onEvent and   *)
(* removeEvent, and it may block, which lets the loop task do so; either   *)
(* way the list may change while the walk stands at an entry (who may run  *)
(* when is in WifiGeneric).  No lock protects the vector; a change that is *)
(* cut in half by the event task is outside this model.                    *)
(*                                                                         *)
(* A registration is [cb, event, id]; its id, given in order, is not       *)
(* program state, nor are begun and called, the ids registered when the    *)
(* walk began and those it has called, and slid: an entry the walk had     *)
(* reached was erased, so that the others have moved under it.             *)
(***************************************************************************)
EXTENDS Integers, Sequences

CONSTANTS
  Callbacks,  \* the handlers
  Events,     \* the event ids
  NONE,       \* no event is being delivered
  ANY,        \* WIFI_EVENT_MAX, the filter that lets every event pass
  MaxRegs     \* bound on the registrations made

ASSUME EventsAssumption == ANY \notin Events /\ NONE \notin Events /\ MaxRegs \in Nat

VARIABLES
  cbEventList,
  regs,       \* registrations made
  walk,       \* the event being delivered, or NONE
  i,          \* the index _eventCallback has reached, counted from 1
  running,    \* a handler has been called and has not returned
  begun, called, slid

eventvars == <<cbEventList, regs, walk, i, running, begun, called, slid>>

Filters == Events \cup {ANY}
Ids(list) == {list[k].id : k \in DOMAIN list}

EventsInit ==
  /\ cbEventList = <<>> /\ regs = 0
  /\ walk = NONE /\ i = 1 /\ running = FALSE
  /\ begun = {} /\ called = {} /\ slid = FALSE

\* onEvent(cb, event).  push_back has no bound but memory; MaxRegs is the model's.
\* It makes every walk of a model finite, which the code's need not be: a handler
\* that registers another whenever it is called is never done.
OnEvent(cb, event) ==
  /\ regs < MaxRegs
  /\ regs' = regs + 1
  /\ cbEventList' = Append(cbEventList, [cb |-> cb, event |-> event, id |-> regs + 1])
  /\ UNCHANGED <<walk, i, running, begun, called, slid>>

Matches(entry, cb, event) == entry.cb = cb /\ entry.event = event

\* A turn of removeEvent's loop: erase(begin + i) moves the next entry into place
\* i, and i++ then passes it by.
Turn(entry, cb, event, acc) ==
  IF Matches(entry, cb, event) /\ ~acc.passBy
    THEN [kept |-> acc.kept, passBy |-> TRUE]
    ELSE [kept |-> Append(acc.kept, entry), passBy |-> FALSE]

\* What the loop has kept of the first k entries.
KeptOf(list, cb, event) ==
  LET acc[k \in 0..Len(list)] == IF k = 0 THEN [kept |-> <<>>, passBy |-> FALSE]
                                 ELSE Turn(list[k], cb, event, acc[k - 1])
  IN  acc

Erased(list, cb, event) == KeptOf(list, cb, event)[Len(list)].kept

\* removeEvent(cb, event)
RemoveEvent(cb, event) ==
  /\ cbEventList' = Erased(cbEventList, cb, event)
  /\ slid' = (slid \/ \E k \in 1..i : k <= Len(cbEventList) /\ cbEventList[k].id \notin Ids(cbEventList'))
  /\ UNCHANGED <<regs, walk, i, running, begun, called>>

-----------------------------------------------------------------------------
\* The SDK delivers an event.  (stopAll() on a disconnect is in TcpHandles.)
Deliver(event) ==
  /\ walk = NONE
  /\ walk' = event
  /\ i' = 1
  /\ begun' = Ids(cbEventList)
  /\ called' = {} /\ slid' = FALSE
  /\ UNCHANGED <<cbEventList, regs, running>>

\* A filter that misses WIFI_EVENT_MAX.
WantsExactly(entry) == entry.event = walk

Wants(entry) == entry.event = walk \/ entry.event = ANY

\* One turn of the loop: the entry is copied, and its callback called if the
\* filter lets the event pass.
CallEntry ==
  /\ walk # NONE /\ ~running
  /\ i <= Len(cbEventList)
  /\ Wants(cbEventList[i])
  /\ running' = TRUE
  /\ called' = called \cup {cbEventList[i].id}
  /\ UNCHANGED <<cbEventList, regs, walk, i, begun, slid>>

HandlerReturns ==
  /\ running
  /\ running' = FALSE
  /\ i' = i + 1
  /\ UNCHANGED <<cbEventList, regs, walk, begun, called, slid>>

PassEntry ==
  /\ walk # NONE /\ ~running
  /\ i <= Len(cbEventList)
  /\ ~Wants(cbEventList[i])
  /\ i' = i + 1
  /\ UNCHANGED <<cbEventList, regs, walk, running, begun, called, slid>>

EndWalk ==
  /\ walk # NONE /\ ~running
  /\ i > Len(cbEventList)
  /\ walk' = NONE
  /\ UNCHANGED <<cbEventList, regs, i, running, begun, called, slid>>

EventTask == CallEntry \/ HandlerReturns \/ PassEntry \/ EndWalk

-----------------------------------------------------------------------------
Registration == [cb : Callbacks, event : Filters, id : 1..MaxRegs]

EventsTypeOK ==
  /\ cbEventList \in Seq(Registration)
  /\ regs \in 0..MaxRegs
  /\ walk \in Events \cup {NONE}
  /\ i \in 1..MaxRegs + 1
  /\ running \in BOOLEAN /\ slid \in BOOLEAN
  /\ begun \subseteq 1..MaxRegs /\ called \subseteq 1..MaxRegs

\* No registration is called twice for one event, however the handlers change
\* the list under the walk.
CalledOnce == CallEntry => cbEventList[i].id \notin called

\* A walk passes over no registration it was there for, unless the list slid
\* under it: by its end all those that want the event and are still there have
\* been called.
NobodyMissed ==
  EndWalk /\ ~slid =>
    \A k \in DOMAIN cbEventList :
      cbEventList[k].id \in begun /\ cbEventList[k].event \in {walk, ANY}
        => cbEventList[k].id \in called

\* Both, of every step: each event goes to every handler that waits for it, and
\* to each once.
HandlersCalled == [][CalledOnce /\ NobodyMissed]_eventvars
=============================================================================
