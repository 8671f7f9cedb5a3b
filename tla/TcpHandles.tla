------------------------------ MODULE TcpHandles -------------------------------
(***************************************************************************)
(* Who owns a ClientContext: WiFiClient objects (WiFiClient.cpp), which    *)
(* share contexts by reference count, and WiFiServer (WiFiServer.cpp),     *)
(* which chains accepted contexts, with a count of 0, until available()    *)
(* hands them out.                                                         *)
(*                                                                         *)
(* Three tasks take part.  The sketch's loop task, at the idle priority,   *)
(* creates, copies, assigns, connects, stops and destroys WiFiClients; it  *)
(* may be pre-empted between any two accesses to the shared pointers, so   *)
(* an operation that loads a pointer, drops its reference and stores       *)
(* another takes several steps here.  lwIP's tcpip thread runs _accept and *)
(* _connected; the WiFi event task runs stopAll when the station loses its *)
(* connection.  Those run to completion as far as the loop task can see.   *)
(*                                                                         *)
(* Contexts are numbered in the order they are made; 0 is the null         *)
(* pointer.  fault names the access to freed memory that ends the model's  *)
(* account of the program.  late and raced are not program state: a        *)
(* connect() has given up on an answer that may still come, and an accept  *)
(* came inside available().                                                *)
(***************************************************************************)
EXTENDS Integers, FiniteSets, Sequences

CONSTANTS
  Handles,     \* the WiFiClient objects a sketch may have at a time
  MaxCtx,      \* bound on the contexts made
  MaxConnects  \* bound on the calls of connect()

ASSUME HandlesAssumption == IsFiniteSet(Handles) /\ MaxCtx \in Nat /\ MaxConnects \in Nat

Ctx == 1..MaxCtx

VARIABLES
  exists,    \* the WiFiClients in the list from _s_first
  cli,       \* their _client
  live,      \* contexts allocated and not deleted
  cnt,       \* _refcnt
  made,      \* contexts made so far
  origin,    \* the connect() a context answers; 0 for an accepted one
  nxt,       \* ClientContext::_next
  head,      \* WiFiServer::_unclaimed
  listen,    \* the listening pcb: "none", "open", or "closed" but still in _pcb
  pend,      \* tcp_connects lwIP has not answered: [h, id]
  calls,     \* connect()s so far
  op,        \* where the loop task is
  claimed,   \* contexts available() has handed out
  fault, late, raced

vars == <<exists, cli, live, cnt, made, origin, nxt, head, listen, pend, calls, op,
          claimed, fault, late, raced>>

\* The loop task: at "unref" it holds the old pointer c of h, at "store" it
\* has dropped that reference, at "ref" h has a new pointer not yet counted;
\* at "copy" h is being built from c; at "add" it is in _s_first, but its _next
\* does not lead to the others yet; at "avail" it has loaded the successor c of
\* the head; at "wait" it polls _client in connect().
Idle == [at |-> "idle"]

At(place) == op.at = place

NoFault == fault = "none"

\* The unclaimed chain, from _unclaimed along _next: what is in every set that
\* holds the head and the successor of each of its members.
Closed(S) == head \in S \cup {0} /\ \A c \in S : nxt[c] \in S \cup {0}

Chain == {c \in Ctx : \A S \in SUBSET Ctx : Closed(S) => c \in S}

\* ClientContext::unref by one holder: the last one deletes the context.
Unref(c) ==
  IF c = 0 THEN UNCHANGED <<cnt, live>>
  ELSE /\ cnt' = [cnt EXCEPT ![c] = @ - 1]
       /\ live' = IF cnt[c] = 1 THEN live \ {c} ELSE live

Ref(c) == cnt' = IF c = 0 THEN cnt ELSE [cnt EXCEPT ![c] = @ + 1]

Init ==
  /\ exists = {}
  /\ cli = [h \in Handles |-> 0]
  /\ live = {}
  /\ cnt = [c \in Ctx |-> 0]
  /\ made = 0
  /\ origin = [c \in Ctx |-> 0]
  /\ nxt = [c \in Ctx |-> 0]
  /\ head = 0
  /\ listen = "none"
  /\ pend = {}
  /\ calls = 0
  /\ op = Idle
  /\ claimed = <<>>
  /\ fault = "none"
  /\ late = FALSE
  /\ raced = FALSE

-------------------------------------------------------------------------------
(* The loop task. *)

server == <<made, origin, nxt, head, listen, claimed, raced>>
asking == <<pend, calls, late>>

\* WiFiClient(): it becomes the first of the list ...
Construct(h) ==
  /\ NoFault /\ At("idle") /\ h \notin exists
  /\ exists' = exists \cup {h}
  /\ cli' = [cli EXCEPT ![h] = 0]
  /\ op' = [at |-> "add", h |-> h]
  /\ UNCHANGED <<live, cnt, server, asking, fault>>

\* ... and gets its successor.
AddNext ==
  /\ NoFault /\ At("add")
  /\ op' = Idle
  /\ UNCHANGED <<exists, cli, live, cnt, server, asking, fault>>

\* WiFiClient(const WiFiClient&): the pointer is loaded ...
CopyLoad(h, g) ==
  /\ NoFault /\ At("idle") /\ h \notin exists /\ g \in exists
  /\ op' = [at |-> "copy", h |-> h, c |-> cli[g]]
  /\ UNCHANGED <<exists, cli, live, cnt, server, asking, fault>>

\* ... then counted, and the copy enters the list.
CopyRef ==
  /\ NoFault /\ At("copy")
  /\ exists' = exists \cup {op.h}
  /\ cli' = [cli EXCEPT ![op.h] = op.c]
  /\ Ref(op.c)
  /\ op' = [at |-> "add", h |-> op.h]
  /\ UNCHANGED <<live, server, asking, fault>>

\* ~WiFiClient(): out of the list first, so nobody else sees the pointer.
Destroy(h) ==
  /\ NoFault /\ At("idle") /\ h \in exists
  /\ exists' = exists \ {h}
  /\ cli' = [cli EXCEPT ![h] = 0]
  /\ Unref(cli[h])
  /\ UNCHANGED <<server, asking, op, fault>>

\* stop(), operator= and connect() begin by dropping what h points to.
Drop(h, then, g) ==
  op' = [at |-> IF cli[h] = 0 THEN "store" ELSE "unref",
         h |-> h, c |-> cli[h], then |-> then, from |-> g]

Stop(h) ==
  /\ NoFault /\ At("idle") /\ h \in exists /\ cli[h] # 0
  /\ Drop(h, "stop", h)
  /\ UNCHANGED <<exists, cli, live, cnt, server, asking, fault>>

\* operator=, also from the object itself.
Assign(h, g) ==
  /\ NoFault /\ At("idle") /\ h \in exists /\ g \in exists
  /\ Drop(h, "assign", g)
  /\ UNCHANGED <<exists, cli, live, cnt, server, asking, fault>>

Connect(h) ==
  /\ NoFault /\ At("idle") /\ h \in exists /\ calls < MaxConnects
  /\ Drop(h, "connect", h)
  /\ UNCHANGED <<exists, cli, live, cnt, server, asking, fault>>

DropRef ==
  /\ NoFault /\ At("unref")
  /\ Unref(op.c)
  /\ op' = [op EXCEPT !.at = "store"]
  /\ UNCHANGED <<exists, cli, server, asking, fault>>

\* The new pointer is stored: null, or the other object's.  connect() goes on
\* to tcp_connect, with itself as the argument of the callbacks; without a
\* route or a pcb it returns at once.
StoreNull ==
  /\ NoFault /\ At("store") /\ op.then = "stop"
  /\ cli' = [cli EXCEPT ![op.h] = 0]
  /\ op' = Idle
  /\ UNCHANGED <<exists, live, cnt, server, asking, fault>>

\* (The only one to hold a context, assigned to itself, has deleted it.)
StoreOther ==
  /\ NoFault /\ At("store") /\ op.then = "assign"
  /\ IF cli[op.from] \in live \cup {0}
       THEN /\ cli' = [cli EXCEPT ![op.h] = cli[op.from]]
            /\ op' = [at |-> "ref", h |-> op.h, c |-> cli[op.from]]
            /\ UNCHANGED fault
       ELSE /\ fault' = "reference to a deleted context"
            /\ UNCHANGED <<cli, op>>
  /\ UNCHANGED <<exists, live, cnt, server, asking>>

\* (Mistake: connect() does not clear the pointer it dropped.)
StoreConnectKeeps ==
  /\ NoFault /\ At("store") /\ op.then = "connect"
  /\ \/ /\ calls' = calls + 1
        /\ pend' = pend \cup {[h |-> op.h, id |-> calls + 1]}
        /\ op' = [at |-> "wait", h |-> op.h]
     \/ /\ op' = Idle
        /\ UNCHANGED <<pend, calls>>
  /\ UNCHANGED <<exists, cli, live, cnt, server, late, fault>>

StoreConnect ==
  /\ NoFault /\ At("store") /\ op.then = "connect"
  /\ cli' = [cli EXCEPT ![op.h] = IF op.c # 0 THEN 0 ELSE @]
  /\ \/ /\ calls' = calls + 1
        /\ pend' = pend \cup {[h |-> op.h, id |-> calls + 1]}
        /\ op' = [at |-> "wait", h |-> op.h]
     \/ /\ op' = Idle
        /\ UNCHANGED <<pend, calls>>
  /\ UNCHANGED <<exists, live, cnt, server, late, fault>>

AssignRef ==
  /\ NoFault /\ At("ref")
  /\ Ref(op.c)
  /\ op' = Idle
  /\ UNCHANGED <<exists, cli, live, server, asking, fault>>

\* connect() sees _client set, or gives up after two seconds.
ConnectOk ==
  /\ NoFault /\ At("wait") /\ cli[op.h] # 0
  /\ op' = Idle
  /\ UNCHANGED <<exists, cli, live, cnt, server, asking, fault>>

ConnectTimeout ==
  /\ NoFault /\ At("wait") /\ cli[op.h] = 0
  /\ late' = (late \/ \E p \in pend : p.h = op.h)
  /\ op' = Idle
  /\ UNCHANGED <<exists, cli, live, cnt, server, pend, calls, fault>>

\* begin()
Begin ==
  /\ NoFault /\ At("idle") /\ listen # "open"
  /\ listen' = "open"
  /\ UNCHANGED <<exists, cli, live, cnt, made, origin, nxt, head, claimed, raced, asking, op, fault>>

\* close() and stop(): _pcb keeps its value, so a second call closes it again.
CloseServer ==
  /\ NoFault /\ At("idle") /\ listen # "none"
  /\ listen' = "closed"
  /\ fault' = IF listen = "closed" THEN "double close" ELSE fault
  /\ UNCHANGED <<exists, cli, live, cnt, made, origin, nxt, head, claimed, raced, asking, op>>

\* available(): the head gets a WiFiClient, its successor is loaded ...
\* (Mistake: the new WiFiClient is not counted.)
AvailableUncounted(h) ==
  /\ NoFault /\ At("idle") /\ h \notin exists /\ head # 0
  /\ exists' = exists \cup {h}
  /\ cli' = [cli EXCEPT ![h] = head]
  /\ claimed' = Append(claimed, head)
  /\ op' = [at |-> "avail", h |-> h, c |-> nxt[head]]
  /\ UNCHANGED <<live, cnt, made, origin, nxt, head, listen, raced, asking, fault>>

Available(h) ==
  /\ NoFault /\ At("idle") /\ h \notin exists /\ head # 0
  /\ exists' = exists \cup {h}
  /\ cli' = [cli EXCEPT ![h] = head]
  /\ Ref(head)
  /\ claimed' = Append(claimed, head)
  /\ op' = [at |-> "avail", h |-> h, c |-> nxt[head]]
  /\ UNCHANGED <<live, made, origin, nxt, head, listen, raced, asking, fault>>

\* ... and stored in _unclaimed.
\* (Mistake: the head stays where it is.)
AvailableKeepsHead ==
  /\ NoFault /\ At("avail")
  /\ op' = Idle
  /\ UNCHANGED <<exists, cli, live, cnt, made, origin, nxt, head, listen, claimed, raced, asking, fault>>

AvailableStore ==
  /\ NoFault /\ At("avail")
  /\ head' = op.c
  /\ op' = Idle
  /\ UNCHANGED <<exists, cli, live, cnt, made, origin, nxt, listen, claimed, raced, asking, fault>>

-------------------------------------------------------------------------------
(* The other tasks. *)

\* slist_append_tail: the last of the chain learns its successor.
\* (Mistake: the item replaces what follows the head.)
LinkBehindHead(c) ==
  IF head = 0
    THEN head' = c /\ UNCHANGED nxt
    ELSE nxt' = [nxt EXCEPT ![head] = c] /\ UNCHANGED head

Link(c) ==
  IF head = 0
    THEN head' = c /\ UNCHANGED nxt
    ELSE LET last == CHOOSE d \in Chain : nxt[d] = 0
         IN  nxt' = [nxt EXCEPT ![last] = c] /\ UNCHANGED head

\* _accept
Accept ==
  /\ NoFault /\ listen = "open" /\ made < MaxCtx
  /\ made' = made + 1
  /\ live' = live \cup {made + 1}
  /\ Link(made + 1)
  /\ raced' = (raced \/ At("avail"))
  /\ UNCHANGED <<exists, cli, cnt, origin, listen, claimed, asking, op, fault>>

\* _connected: the WiFiClient named when tcp_connect was called gets a new
\* context, whatever has become of it since.
Connected(p) ==
  /\ NoFault /\ p \in pend /\ made < MaxCtx
  /\ pend' = pend \ {p}
  /\ IF p.h \in exists
       THEN /\ made' = made + 1
            /\ live' = live \cup {made + 1}
            /\ origin' = [origin EXCEPT ![made + 1] = p.id]
            /\ cnt' = [cnt EXCEPT ![made + 1] = 1]
            /\ cli' = [cli EXCEPT ![p.h] = made + 1]
            /\ UNCHANGED fault
       ELSE /\ fault' = "callback on a destroyed WiFiClient"
            /\ UNCHANGED <<made, live, origin, cnt, cli>>
  /\ UNCHANGED <<exists, nxt, head, listen, claimed, raced, calls, late, op>>

\* _err while connecting: lwIP has freed the pcb; nothing is recorded.
ConnectError(p) ==
  /\ NoFault /\ p \in pend
  /\ pend' = pend \ {p}
  /\ fault' = IF p.h \in exists THEN fault ELSE "callback on a destroyed WiFiClient"
  /\ UNCHANGED <<exists, cli, live, cnt, server, calls, late, op>>

\* stopAll(): every listed WiFiClient with a context drops it.  It finds a
\* pointer to a deleted context, or deletes one the loop task is about to
\* use, when it comes in the middle of an operation that holds it.
InUse == \/ op.at \in {"unref", "store", "ref", "copy"} /\ op.c # 0
         \/ At("avail")

\* What a walk from _s_first comes to: only the newest, while it has no _next.
Listed == IF At("add") THEN {op.h} ELSE exists

\* The listed WiFiClients with a context other than keep let go of it; keep
\* is 0 to spare none.
Dropped(keep) == {h \in Listed : cli[h] \notin {0, keep}}

Released(gone) ==
  /\ cnt' = [c \in Ctx |-> cnt[c] - Cardinality({h \in gone : cli[h] = c})]
  /\ live' = {c \in live : cnt'[c] # 0 \/ \A h \in gone : cli[h] # c}

Release(gone) ==
  /\ Released(gone)
  /\ cli' = [h \in Handles |-> IF h \in gone THEN 0 ELSE cli[h]]

StopAll ==
  /\ NoFault
  /\ Dropped(0) # {}
  /\ IF InUse
       THEN fault' = "stopAll under an operation" /\ UNCHANGED <<cli, cnt, live>>
       ELSE Release(Dropped(0)) /\ UNCHANGED fault
  /\ UNCHANGED <<exists, server, asking, op>>

\* stopAllExcept(h), called by the sketch itself.
StopAllExcept(h) ==
  /\ NoFault /\ At("idle") /\ h \in exists
  /\ Dropped(cli[h]) # {}
  /\ Release(Dropped(cli[h]))
  /\ UNCHANGED <<exists, server, asking, op, fault>>

LoopStep == AddNext \/ CopyRef \/ DropRef \/ StoreNull \/ StoreOther \/ StoreConnect \/ AssignRef
            \/ ConnectOk \/ ConnectTimeout \/ AvailableStore

Next ==
  \/ \E h \in Handles : Construct(h) \/ Destroy(h) \/ Stop(h) \/ Connect(h) \/ Available(h)
  \/ \E h \in Handles : StopAllExcept(h)
  \/ \E h, g \in Handles : CopyLoad(h, g) \/ Assign(h, g)
  \/ LoopStep
  \/ Begin \/ CloseServer
  \/ Accept \/ StopAll
  \/ \E p \in pend : Connected(p) \/ ConnectError(p)

Spec == Init /\ [][Next]_vars

\* The loop task is scheduled; a sketch that serves clients keeps polling
\* available(), whatever else it does, and destroys the WiFiClient it is done
\* with, as handleClient() does on return.
FairSpec ==
  /\ Spec
  /\ WF_vars(LoopStep)
  /\ SF_vars(\E h \in Handles : Available(h))
  /\ SF_vars(\E h \in Handles : Destroy(h))

-------------------------------------------------------------------------------
(* Correctness. *)

TypeOK ==
  /\ exists \subseteq Handles
  /\ cli \in [Handles -> Ctx \cup {0}]
  /\ live \subseteq 1..made
  /\ cnt \in [Ctx -> Nat]
  /\ made \in 0..MaxCtx
  /\ origin \in [Ctx -> 0..MaxConnects]
  /\ nxt \in [Ctx -> Ctx \cup {0}]
  /\ head \in Ctx \cup {0}
  /\ listen \in {"none", "open", "closed"}
  /\ pend \subseteq [h : Handles, id : 1..MaxConnects]
  /\ calls \in 0..MaxConnects
  /\ op.at \in {"idle", "add", "copy", "unref", "store", "ref", "avail", "wait"}
  /\ claimed \in Seq(Ctx)

\* The WiFiClients that hold a counted reference to c: not the one whose old
\* reference has just been dropped, nor the one whose new one is not counted.
Owners(c) ==
  {h \in exists : cli[h] = c /\ ~(op.at \in {"store", "ref"} /\ op.h = h /\ op.c = c)}

\* The count of a live context is never less than the number of WiFiClients
\* that hold it, and equal to it while no connect() has given up on an answer,
\* so the context is closed and deleted exactly when the last one lets go.
RefCounts ==
  NoFault => \A c \in live : /\ cnt[c] >= Cardinality(Owners(c))
                             /\ ~late => cnt[c] = Cardinality(Owners(c))

\* No pointer leads to a deleted context: not a WiFiClient's, but for the one
\* stop() is about to clear, and not the server's chain.
NoDangling ==
  NoFault =>
    /\ \A h \in exists : cli[h] # 0 /\ h \in Owners(cli[h]) => cli[h] \in live
    /\ At("idle") => Chain \subseteq live

\* While no connect() has given up on an answer and no accept has come inside
\* available(), every live context can be reached, so its connection can be
\* closed: none is leaked.
NoLeak ==
  NoFault /\ ~late /\ ~raced =>
    \A c \in live : Owners(c) # {} \/ c \in Chain

\* All of these: who owns which context.
Ownership == TypeOK /\ RefCounts /\ NoDangling /\ NoLeak

\* available() hands out each accepted context once, in the order accepted.
ClaimedOnceInOrder ==
  \A i, j \in 1..Len(claimed) : i < j => claimed[i] < claimed[j]

\* connect() that succeeds returns the connection it asked for, unless an
\* earlier connect() gave up on an answer.
ConnectsItself ==
  NoFault /\ ~late /\ At("wait") /\ cli[op.h] # 0 => origin[cli[op.h]] = calls

\* A sketch that keeps calling available() gets every accepted client, unless
\* an accept came inside available() or the program touched freed memory.
AcceptedIsClaimed ==
  \A c \in Ctx :
    (c \in Chain /\ c \in live) ~> ((\E i \in 1..Len(claimed) : claimed[i] = c) \/ raced \/ ~NoFault)
===============================================================================
