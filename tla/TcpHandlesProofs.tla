--------------------------- MODULE TcpHandlesProofs ---------------------------
(***************************************************************************)
(* Theorems about the owners of the ClientContexts, for any number of      *)
(* WiFiClients, contexts and connects: the counts agree with the holders   *)
(* whatever task drops a reference, no pointer leads to a deleted context, *)
(* nothing is leaked, accepted clients are handed out once and in order,   *)
(* and connect() returns its own connection.                               *)
(***************************************************************************)
EXTENDS TcpHandles, FiniteSetTheorems, SequenceTheorems, WellFoundedInduction, TLAPS

\* The shapes of op.
Places ==
  \/ op = Idle
  \/ op \in [at : {"copy", "ref", "avail"}, h : Handles, c : Ctx \cup {0}]
  \/ op \in [at : {"unref", "store"}, h : Handles, c : Ctx \cup {0},
             then : {"stop", "assign", "connect"}, from : Handles]
  \/ op \in [at : {"add", "wait"}, h : Handles]

\* The objects of an operation of the loop task are there until it ends.
Operands ==
  /\ op.at \in {"add", "unref", "store", "ref", "avail", "wait"} => op.h \in exists
  /\ op.at \in {"unref", "store"} => op.from \in exists
  /\ op.at \in {"unref", "store"} /\ op.then = "connect" => calls < MaxConnects
  /\ At("copy") => op.h \notin exists
  /\ At("unref") => op.c # 0

\* Pointers lead to contexts that were made, and _next to younger ones.
Made ==
  /\ \A h \in exists : cli[h] <= made
  /\ \A c \in Ctx : c > made => cnt[c] = 0
  /\ head <= made
  /\ \A c \in Ctx : nxt[c] # 0 => c < nxt[c] /\ nxt[c] <= made
  /\ op.at \in {"copy", "ref", "unref", "store", "avail"} => op.c <= made

Shape == TypeOK /\ Places /\ Operands /\ Made

\* Who has a counted reference to c: its owners, and the loop task about to
\* drop one that a late answer has taken from its WiFiClient.
Held(c) == Owners(c) \cup {h \in Handles : At("unref") /\ h = op.h /\ c = op.c}

Counted ==
  \A c \in Ctx : /\ Cardinality(Held(c)) <= cnt[c]
                 /\ ~late => cnt[c] = Cardinality(Held(c))
                 /\ cnt[c] > 0 => c \in live

\* What the loop task is about to count is held by somebody, and so is what
\* it has let go of, unless that deleted it.
Kept ==
  /\ op.at \in {"ref", "copy"} /\ op.c # 0 => cnt[op.c] >= 1
  /\ op.at = "store" /\ op.c \in live => cnt[op.c] >= 1

\* Contexts nobody has a reference to: those in the chain, but for the one
\* available() is handing out, and but for the race no others.
Waiting == {c \in live : cnt[c] = 0}

Unclaimed ==
  /\ \A c \in Chain : (At("avail") => c # head) => c \in Waiting
  /\ ~raced => Waiting \subseteq Chain
  /\ At("avail") => /\ head # 0 /\ cnt[head] >= 1
                    /\ op.c = nxt[head] \/ (raced /\ op.c = 0)

\* What has been handed out is older than what is in the chain.
Claims ==
  /\ \A i \in 1..Len(claimed) : claimed[i] <= made
  /\ ClaimedOnceInOrder
  /\ head # 0 => \A i \in 1..Len(claimed) : claimed[i] <= head
  /\ head # 0 /\ ~At("avail") => \A i \in 1..Len(claimed) : claimed[i] < head

\* Until a connect() gives up on an answer, answers come to the connect() that
\* waits for them, and nobody's pointer changes under an operation.
OnTime ==
  ~late =>
    /\ \A p \in pend : At("wait") /\ p.h = op.h /\ p.id = calls /\ cli[op.h] = 0
    /\ At("wait") /\ cli[op.h] # 0 => origin[cli[op.h]] = calls
    /\ op.at \in {"unref", "store", "ref"} => cli[op.h] = op.c

HInv == Shape /\ Counted /\ Kept /\ Unclaimed /\ Claims /\ OnTime

-------------------------------------------------------------------------------
(* The fields of op. *)

Busy == {"copy", "ref", "avail", "unref", "store"}

LEMMA Fields ==
  ASSUME Places
  PROVE  /\ op.at \in {"idle", "add", "wait"} \cup Busy
         /\ op.at = "idle" => op = Idle
         /\ op.at # "idle" => op.h \in Handles
         /\ op.at \in Busy => op.c \in Ctx \cup {0}
         /\ op.at \in {"unref", "store"} => op.then \in {"stop", "assign", "connect"} /\ op.from \in Handles
  BY DEF Places, Idle, Busy

-------------------------------------------------------------------------------
(* Shape: the step of every action. *)

LEMMA ShapeInit == Init => Shape
  BY HandlesAssumption DEF Init, Shape, TypeOK, Places, Operands, Made, Idle, Ctx, At

LEMMA Types ==
  ASSUME Shape
  PROVE  /\ exists \subseteq Handles /\ cli \in [Handles -> Ctx \cup {0}]
         /\ live \subseteq Ctx /\ cnt \in [Ctx -> Nat]
         /\ nxt \in [Ctx -> Ctx \cup {0}] /\ head \in Ctx \cup {0}
         /\ claimed \in Seq(Ctx)
         /\ made \in Nat /\ made <= MaxCtx /\ \A c \in live : c <= made
         /\ \A c \in Ctx : c \in Nat /\ c # 0 /\ c >= 1
         /\ 0 \notin Ctx
         /\ \A n \in Nat : n >= 1 /\ n <= MaxCtx => n \in Ctx
  BY HandlesAssumption DEF Shape, TypeOK, Ctx

LEMMA UnrefTypes ==
  ASSUME Shape, NEW c \in Ctx \cup {0}, c # 0 => cnt[c] >= 1, Unref(c)
  PROVE  /\ cnt' \in [Ctx -> Nat] /\ live' \subseteq live
         /\ \A d \in Ctx : cnt[d] = 0 => cnt'[d] = 0
<1>1. CASE c = 0
  BY <1>1, Types DEF Unref
<1>2. CASE c # 0
  <2>1. c \in Ctx /\ cnt' = [cnt EXCEPT ![c] = cnt[c] - 1] /\ live' = IF cnt[c] = 1 THEN live \ {c} ELSE live
    BY <1>2 DEF Unref
  <2>2. cnt[c] - 1 \in Nat
    BY <1>2, <2>1, Types
  <2> QED BY <2>1, <2>2, Types
<1> QED BY <1>1, <1>2

LEMMA RefTypes ==
  ASSUME Shape, NEW c \in Ctx \cup {0}, c <= made, Ref(c)
  PROVE  /\ cnt' \in [Ctx -> Nat]
         /\ \A d \in Ctx : d > made => cnt'[d] = 0
  BY Types DEF Shape, Made, Ref
-------------------------------------------------------------------------------
(* Counting holders. *)

LEMMA HeldFinite ==
  ASSUME exists \subseteq Handles, NEW c
  PROVE  /\ Held(c) \subseteq Handles /\ IsFiniteSet(Held(c)) /\ Cardinality(Held(c)) \in Nat
         /\ Cardinality(Held(c)) = 0 <=> Held(c) = {}
<1>1. Held(c) \subseteq Handles
  BY DEF Held, Owners
<1>2. IsFiniteSet(Held(c))
  BY <1>1, HandlesAssumption, FS_Subset
<1> HIDE DEF Held
<1> QED BY <1>1, <1>2, FS_CardinalityType, FS_EmptySet

\* One with a holder is counted and not deleted.
LEMMA HolderCounts ==
  ASSUME Shape, Counted, NEW c \in Ctx, NEW h \in Held(c)
  PROVE  cnt[c] \in Nat /\ cnt[c] >= 1 /\ c \in live
<1>1. Cardinality(Held(c)) \in Nat /\ Cardinality(Held(c)) # 0
  BY HeldFinite, Types
<1>2. Cardinality(Held(c)) <= cnt[c] /\ (cnt[c] > 0 => c \in live)
  BY DEF Counted
<1> QED BY <1>1, <1>2, Types

\* Nobody is counted anew; if nothing is late, nobody is forgotten either.
LEMMA CountKept ==
  ASSUME Shape, Counted, exists' \subseteq Handles, cnt' = cnt, live \subseteq live', late => late',
         \A c \in Ctx : Held(c)' \subseteq Held(c),
         ~late' => \A c \in Ctx : Held(c)' = Held(c)
  PROVE  Counted'
<1> SUFFICES ASSUME NEW c \in Ctx
             PROVE  /\ Cardinality(Held(c)') <= cnt[c]
                    /\ ~late' => cnt[c] = Cardinality(Held(c)')
                    /\ cnt[c] > 0 => c \in live'
  BY DEF Counted
<1> DEFINE S == Held(c)
           T == Held(c)'
<1>1. IsFiniteSet(S) /\ Cardinality(S) \in Nat /\ T \subseteq S
  BY HeldFinite, Types
<1>2. Cardinality(S) <= cnt[c] /\ (~late => cnt[c] = Cardinality(S)) /\ (cnt[c] > 0 => c \in live)
  BY DEF Counted
<1>3. ~late' => T = S
  OBVIOUS
<1> HIDE DEF S, T
<1>4. Cardinality(T) <= Cardinality(S) /\ Cardinality(T) \in Nat
  BY <1>1, FS_Subset, FS_CardinalityType
<1>5. cnt[c] \in Nat
  BY Types
<1>6. Cardinality(T) <= cnt[c]
  BY <1>1, <1>2, <1>4, <1>5
<1>7. ~late' => cnt[c] = Cardinality(T)
  BY <1>2, <1>3
<1> QED BY <1>2, <1>6, <1>7 DEF T

\* h is counted as a holder of x.
LEMMA CountUp ==
  ASSUME Shape, Counted, NEW x \in Ctx, NEW h \in Handles, h \notin Held(x), x \in live,
         cnt' = [cnt EXCEPT ![x] = cnt[x] + 1], live' = live, late' = late,
         Held(x)' \subseteq Held(x) \cup {h}, ~late => Held(x)' = Held(x) \cup {h},
         \A c \in Ctx : c # x => Held(c)' = Held(c)
  PROVE  Counted'
<1> SUFFICES ASSUME NEW c \in Ctx
             PROVE  /\ Cardinality(Held(c)') <= cnt'[c]
                    /\ ~late => cnt'[c] = Cardinality(Held(c)')
                    /\ cnt'[c] > 0 => c \in live
  BY DEF Counted
<1> DEFINE S == Held(c)
           T == Held(c)'
           U == S \cup {h}
<1>1. IsFiniteSet(S) /\ Cardinality(S) \in Nat
  BY HeldFinite, Types
<1>2. Cardinality(S) <= cnt[c] /\ (~late => cnt[c] = Cardinality(S)) /\ (cnt[c] > 0 => c \in live)
  BY DEF Counted
<1>3. cnt[c] \in Nat
  BY Types
<1>4. CASE c # x
  <2>1. T = S /\ cnt'[c] = cnt[c]
    BY <1>4, Types
  <2> QED BY <1>2, <2>1
<1>5. CASE c = x
  <2>1. cnt'[c] = cnt[c] + 1 /\ c \in live /\ h \notin S /\ T \subseteq U /\ (~late => T = U)
    BY <1>5, Types
  <2> HIDE DEF S, T
  <2>2. IsFiniteSet(U) /\ Cardinality(U) = Cardinality(S) + 1
    BY <1>1, <2>1, FS_AddElement
  <2> HIDE DEF U
  <2>3. Cardinality(T) <= Cardinality(U) /\ Cardinality(T) \in Nat
    BY <2>1, <2>2, FS_Subset, FS_CardinalityType
  <2>4. Cardinality(T) <= cnt'[c]
    BY <1>1, <1>2, <1>3, <2>1, <2>2, <2>3
  <2>5. ~late => cnt'[c] = Cardinality(T)
    BY <1>2, <2>1, <2>2
  <2> QED BY <2>1, <2>4, <2>5 DEF T
<1> QED BY <1>4, <1>5

\* h lets go of x, and the last one deletes it.
LEMMA CountDown ==
  ASSUME Shape, Counted, NEW x \in Ctx, NEW h \in Held(x), Unref(x), late' = late,
         Held(x)' = Held(x) \ {h},
         \A c \in Ctx : c # x => Held(c)' = Held(c)
  PROVE  Counted' /\ Waiting' = Waiting
<1>1. cnt[x] \in Nat /\ cnt[x] >= 1 /\ x \in live
  BY HolderCounts
<1>2. x # 0 /\ cnt' = [cnt EXCEPT ![x] = cnt[x] - 1] /\ live' = IF cnt[x] = 1 THEN live \ {x} ELSE live
  BY Types DEF Unref
<1>3. cnt'[x] = cnt[x] - 1 /\ \A c \in Ctx : c # x => cnt'[c] = cnt[c]
  BY <1>2, Types
<1>4. Waiting' = Waiting
  <2>1. x \notin Waiting /\ x \notin Waiting'
    BY <1>1, <1>2, <1>3 DEF Waiting
  <2>2. \A c \in Ctx : c # x => (c \in Waiting' <=> c \in Waiting)
    BY <1>2, <1>3 DEF Waiting
  <2>3. Waiting \subseteq Ctx /\ Waiting' \subseteq Ctx
    BY <1>2, Types DEF Waiting
  <2> QED BY <2>1, <2>2, <2>3
<1>5. ASSUME NEW c \in Ctx
      PROVE  /\ Cardinality(Held(c)') <= cnt'[c]
             /\ ~late => cnt'[c] = Cardinality(Held(c)')
             /\ cnt'[c] > 0 => c \in live'
  <2> DEFINE S == Held(c)
             T == Held(c)'
  <2>1. IsFiniteSet(S) /\ Cardinality(S) \in Nat
    BY HeldFinite, Types
  <2>2. Cardinality(S) <= cnt[c] /\ (~late => cnt[c] = Cardinality(S)) /\ (cnt[c] > 0 => c \in live)
    BY DEF Counted
  <2>3. CASE c # x
    <3>1. T = S /\ cnt'[c] = cnt[c] /\ (c \in live => c \in live')
      BY <1>2, <1>3, <2>3
    <3> QED BY <2>2, <3>1
  <2>4. CASE c = x
    <3>1. T = S \ {h} /\ h \in S
      BY <2>4
    <3>2. cnt'[c] = cnt[c] - 1 /\ (cnt'[c] > 0 => c \in live')
      BY <1>1, <1>2, <1>3, <2>4
    <3> HIDE DEF S
    <3>3. Cardinality(T) = Cardinality(S) - 1
      BY <2>1, <3>1, FS_RemoveElement
    <3> HIDE DEF T
    <3>4. Cardinality(T) <= cnt'[c] /\ (~late => cnt'[c] = Cardinality(T))
      BY <1>1, <2>1, <2>2, <2>4, <3>2, <3>3
    <3> QED BY <3>2, <3>4 DEF T
  <2> QED BY <2>3, <2>4
<1>6. Counted'
  BY <1>5 DEF Counted
<1> QED BY <1>4, <1>6

\* Steps that change neither pointers nor the place of the loop task.
LEMMA HeldSame ==
  ASSUME exists' = exists, cli' = cli, op' = op
  PROVE  \A c \in Ctx : Held(c)' = Held(c)
  BY DEF Held, Owners, At

\* Places at which the loop task has no pointer of its own, or null.
Free == op.at \in {"idle", "add", "wait", "avail", "copy"} \/ (op.at \in {"store", "ref"} /\ op.c = 0)

LEMMA HeldWhenFree ==
  ASSUME Shape, Free, NEW c \in Ctx
  PROVE  Held(c) = {h \in exists : cli[h] = c}
<1>1. ~At("unref") /\ (op.at \in {"store", "ref"} => op.c # c)
  BY Types DEF Free, At
<1> QED BY <1>1, Types DEF Held, Owners

LEMMA HeldWhenFreeNext ==
  ASSUME Free', NEW c \in Ctx
  PROVE  Held(c)' = {h \in exists' : cli'[h] = c}
<1>1. op'.at # "unref" /\ (op'.at \in {"store", "ref"} => op'.c # c)
  BY DEF Free, Ctx
<1> QED BY <1>1 DEF Held, Owners, At
-------------------------------------------------------------------------------
(* Shape. *)

\* A step that makes no context and leaves the chain alone.
LEMMA ShapeStep ==
  ASSUME Shape, exists' \subseteq Handles, cli' \in [Handles -> Ctx \cup {0}],
         \A h \in exists' : cli'[h] <= made,
         cnt' \in [Ctx -> Nat], live' \subseteq live, \A d \in Ctx : d > made => cnt'[d] = 0,
         UNCHANGED <<made, origin, nxt, listen, claimed, head>>,
         pend' \subseteq [h : Handles, id : 1..MaxConnects], calls' \in 0..MaxConnects,
         Places', Operands', op'.at \in Busy => op'.c <= made
  PROVE  Shape'
<1>1. TypeOK'
  <2>1. op'.at \in {"idle", "add", "wait"} \cup Busy
    BY DEF Places, Idle, Busy
  <2> QED BY <2>1 DEF Shape, TypeOK, Busy
<1>2. Made'
  BY DEF Shape, Made, Busy
<1> QED BY <1>1, <1>2 DEF Shape

LEMMA Known ==
  ASSUME Shape
  PROVE  /\ TypeOK /\ Places /\ Operands /\ Made
         /\ op.at \in {"idle", "add", "wait"} \cup Busy
         /\ op.at = "idle" => op = Idle
         /\ op.at # "idle" => op.h \in Handles
         /\ op.at \in Busy => op.c \in Ctx \cup {0} /\ op.c <= made
         /\ op.at \in {"unref", "store"} => op.then \in {"stop", "assign", "connect"} /\ op.from \in Handles
         /\ pend \subseteq [h : Handles, id : 1..MaxConnects] /\ calls \in 0..MaxConnects
         /\ \A h \in exists : cli[h] <= made
         /\ \A d \in Ctx : d > made => cnt[d] = 0
  BY Fields DEF Shape, Made, Busy, TypeOK

LEMMA IdlePlace ==
  ASSUME op' = Idle
  PROVE  Places' /\ Operands' /\ ~(op'.at \in Busy) /\ op'.at = "idle"
  BY DEF Places, Operands, Idle, Busy, At

LEMMA AddPlace ==
  ASSUME NEW h \in Handles, h \in exists', op' = [at |-> "add", h |-> h]
  PROVE  Places' /\ Operands' /\ ~(op'.at \in Busy) /\ op'.at = "add"
  BY DEF Places, Operands, Idle, Busy, At

LEMMA ShapeDrop ==
  ASSUME Shape, NEW h \in exists, NEW g \in exists, NEW then \in {"stop", "assign", "connect"},
         then = "connect" => calls < MaxConnects,
         Drop(h, then, g), UNCHANGED <<exists, cli, live, cnt, server, asking, fault>>
  PROVE  Shape'
<1> DEFINE place == IF cli[h] = 0 THEN "store" ELSE "unref"
<1>1. op' = [at |-> place, h |-> h, c |-> cli[h], then |-> then, from |-> g]
  BY DEF Drop
<1>2. place \in {"unref", "store"} /\ (place = "unref" => cli[h] # 0)
  OBVIOUS
<1> HIDE DEF place
<1>3. cli[h] \in Ctx \cup {0} /\ cli[h] <= made /\ h \in Handles /\ g \in Handles
  BY Known, Types
<1>4. Places' /\ Operands' /\ op'.c <= made
  BY <1>1, <1>2, <1>3 DEF Places, Operands, At, asking
<1> QED BY <1>4, Known, Types, ShapeStep DEF server, asking

LEMMA ShapeLoop ==
  ASSUME HInv, NEW h \in Handles, NEW g \in Handles,
         \/ Construct(h) \/ AddNext \/ CopyLoad(h, g) \/ CopyRef
         \/ Destroy(h) \/ Stop(h) \/ Assign(h, g) \/ Connect(h) \/ DropRef
         \/ StoreNull \/ StoreOther \/ StoreConnect \/ AssignRef \/ ConnectOk \/ ConnectTimeout
  PROVE  Shape'
<1> USE DEF HInv
<1>1. CASE Construct(h)
  <2>1. op' = [at |-> "add", h |-> h] /\ h \in exists'
    BY <1>1 DEF Construct
  <2>2. cli' \in [Handles -> Ctx \cup {0}] /\ exists' \subseteq Handles /\ \A k \in exists' : cli'[k] <= made
    BY <1>1, Known, Types DEF Construct
  <2>3. Places' /\ Operands' /\ ~(op'.at \in Busy)
    BY <2>1, AddPlace
  <2> QED BY <1>1, <2>2, <2>3, Known, Types, ShapeStep DEF Construct, server, asking
<1>15. CASE AddNext
  <2>1. op' = Idle
    BY <1>15 DEF AddNext
  <2> QED BY <1>15, <2>1, Known, Types, IdlePlace, ShapeStep DEF AddNext, server, asking
<1>2. CASE CopyLoad(h, g)
  <2>1. op' = [at |-> "copy", h |-> h, c |-> cli[g]] /\ exists' = exists /\ h \notin exists /\ g \in exists
    BY <1>2 DEF CopyLoad
  <2>2. cli[g] \in Ctx \cup {0} /\ cli[g] <= made
    BY <2>1, Known, Types DEF Made
  <2>3. Places' /\ Operands' /\ op'.c <= made
    BY <2>1, <2>2 DEF Places, Operands, At
  <2> QED BY <1>2, <2>3, Known, Types, ShapeStep DEF CopyLoad, server, asking
<1>3. CASE CopyRef
  <2>1. op.h \in Handles /\ op.c \in Ctx \cup {0} /\ op.c <= made
    BY <1>3, Known DEF CopyRef, At, Busy
  <2>2. cnt' \in [Ctx -> Nat] /\ \A d \in Ctx : d > made => cnt'[d] = 0
    BY <1>3, <2>1, RefTypes DEF CopyRef
  <2>3. cli' \in [Handles -> Ctx \cup {0}] /\ exists' \subseteq Handles /\ \A k \in exists' : cli'[k] <= made
    BY <1>3, <2>1, Known, Types DEF CopyRef, Made
  <2>4. Places' /\ Operands' /\ ~(op'.at \in Busy)
    <3>1. op' = [at |-> "add", h |-> op.h] /\ op.h \in exists'
      BY <1>3 DEF CopyRef
    <3>2. PICK k \in Handles : k = op.h
      BY <2>1
    <3> QED BY <3>1, <3>2, AddPlace
  <2> QED BY <1>3, <2>2, <2>3, <2>4, Known, Types, ShapeStep DEF CopyRef, server, asking
<1>4. CASE Destroy(h)
  <2>1. cli[h] \in Ctx \cup {0} /\ h \in exists
    BY <1>4, Types DEF Destroy
  <2>2. cli[h] # 0 => cnt[cli[h]] >= 1
    <3>1. ASSUME cli[h] # 0 PROVE h \in Held(cli[h])
      BY <1>4, <2>1, <3>1 DEF Destroy, At, Held, Owners
    <3> QED BY <2>1, <3>1, HolderCounts
  <2>3. cnt' \in [Ctx -> Nat] /\ live' \subseteq live /\ \A d \in Ctx : cnt[d] = 0 => cnt'[d] = 0
    BY <1>4, <2>1, <2>2, UnrefTypes DEF Destroy
  <2>4. cli' \in [Handles -> Ctx \cup {0}] /\ exists' \subseteq Handles /\ \A k \in exists' : cli'[k] <= made
    BY <1>4, Known, Types DEF Destroy, Made
  <2>5. op' = Idle
    BY <1>4, Known DEF Destroy, At
  <2>6. \A d \in Ctx : d > made => cnt'[d] = 0
    BY <2>3, Known DEF Made
  <2> QED BY <1>4, <2>3, <2>4, <2>5, <2>6, Known, Types, IdlePlace, ShapeStep DEF Destroy, server, asking
<1>5. CASE Stop(h)
  BY <1>5, ShapeDrop DEF Stop
<1>6. CASE Assign(h, g)
  BY <1>6, ShapeDrop DEF Assign
<1>7. CASE Connect(h)
  BY <1>7, ShapeDrop DEF Connect
<1>8. CASE DropRef
  <2>1. op.at = "unref" /\ op.c \in Ctx /\ op.h \in Handles
    BY <1>8, Known DEF DropRef, At, Busy, Operands
  <2>2. cnt[op.c] >= 1
    <3>1. op.h \in Held(op.c)
      BY <2>1 DEF Held, At
    <3> QED BY <2>1, <3>1, HolderCounts
  <2>3. cnt' \in [Ctx -> Nat] /\ live' \subseteq live /\ \A d \in Ctx : cnt[d] = 0 => cnt'[d] = 0
    BY <1>8, <2>1, <2>2, UnrefTypes DEF DropRef
  <2>4. op' = [op EXCEPT !.at = "store"]
    BY <1>8 DEF DropRef
  <2>5. op \in [at : {"unref", "store"}, h : Handles, c : Ctx \cup {0}, then : {"stop", "assign", "connect"}, from : Handles]
    BY <2>1, Known DEF Places, Idle
  <2>6. /\ op' \in [at : {"unref", "store"}, h : Handles, c : Ctx \cup {0}, then : {"stop", "assign", "connect"}, from : Handles]
        /\ op'.at = "store" /\ op'.h = op.h /\ op'.c = op.c /\ op'.then = op.then /\ op'.from = op.from
    BY <2>4, <2>5
  <2>7. Places'
    BY <2>6 DEF Places
  <2>8. Operands'
    BY <1>8, <2>1, <2>6, Known DEF Operands, DropRef, At, asking
  <2>9. op'.c <= made
    BY <2>1, <2>6, Known DEF Busy
  <2>10. \A d \in Ctx : d > made => cnt'[d] = 0
    BY <2>3, Known DEF Made
  <2>11. cli' \in [Handles -> Ctx \cup {0}] /\ exists' \subseteq Handles /\ \A k \in exists' : cli'[k] <= made
    BY <1>8, Known, Types DEF DropRef, Made
  <2> QED BY <1>8, <2>3, <2>7, <2>8, <2>9, <2>10, <2>11, Known, Types, ShapeStep DEF DropRef, server, asking
<1>9. CASE StoreNull
  <2>1. op' = Idle
    BY <1>9 DEF StoreNull
  <2>2. cli' \in [Handles -> Ctx \cup {0}] /\ exists' \subseteq Handles /\ \A k \in exists' : cli'[k] <= made
    <3>1. op.h \in Handles /\ cli' = [cli EXCEPT ![op.h] = 0] /\ exists' = exists
      BY <1>9, Known DEF StoreNull, At
    <3> QED BY <3>1, Known, Types
  <2> QED BY <1>9, <2>1, <2>2, Known, Types, IdlePlace, ShapeStep DEF StoreNull, server, asking
<1>10. CASE StoreOther
  <2>1. op.at = "store" /\ op.from \in exists /\ op.h \in exists /\ op.h \in Handles /\ op.from \in Handles
    <3>1. op.at = "store"
      BY <1>10 DEF StoreOther, At
    <3>2. Operands /\ op.h \in Handles /\ op.from \in Handles
      BY <3>1, Known
    <3> QED BY <3>1, <3>2 DEF Operands
  <2>0. CASE cli[op.from] \notin live \cup {0}
    <3>1. UNCHANGED <<exists, cli, live, cnt, server, asking, op>>
      BY <1>10, <2>0 DEF StoreOther
    <3> QED BY <3>1 DEF server, asking, Shape, TypeOK, Places, Operands, Made, At
  <2> SUFFICES ASSUME cli[op.from] \in live \cup {0} PROVE Shape'
    BY <2>0
  <2>2. op' = [at |-> "ref", h |-> op.h, c |-> cli[op.from]] /\ exists' = exists
    BY <1>10 DEF StoreOther
  <2>3. cli[op.from] \in Ctx \cup {0} /\ cli[op.from] <= made
    BY <2>1, Known, Types
  <2>4. Places' /\ Operands' /\ op'.c <= made
    BY <2>1, <2>2, <2>3 DEF Places, Operands, At
  <2>5. cli' \in [Handles -> Ctx \cup {0}] /\ exists' \subseteq Handles /\ \A k \in exists' : cli'[k] <= made
    BY <1>10, <2>1, <2>3, Known, Types DEF StoreOther
  <2> QED BY <1>10, <2>4, <2>5, Known, Types, ShapeStep DEF StoreOther, server, asking
<1>11. CASE StoreConnect
  <2>1. op.at = "store" /\ op.h \in exists /\ op.h \in Handles
    BY <1>11, Known DEF StoreConnect, At, Operands
  <2>2. cli' \in [Handles -> Ctx \cup {0}] /\ exists' \subseteq Handles /\ \A k \in exists' : cli'[k] <= made
    <3>1. cli' = [cli EXCEPT ![op.h] = IF op.c # 0 THEN 0 ELSE cli[op.h]] /\ exists' = exists
      BY <1>11 DEF StoreConnect
    <3>2. CASE op.c = 0
      BY <2>1, <3>1, <3>2, Known, Types
    <3>3. CASE op.c # 0
      BY <2>1, <3>1, <3>3, Known, Types
    <3> QED BY <3>2, <3>3
  <2>3. Places' /\ Operands' /\ ~(op'.at \in Busy)
    <3>1. CASE op' = Idle
      BY <3>1, IdlePlace
    <3>2. CASE op' = [at |-> "wait", h |-> op.h]
      BY <1>11, <2>1, <3>2 DEF Places, Operands, Busy, At, StoreConnect
    <3> QED BY <1>11, <3>1, <3>2 DEF StoreConnect
  <2>4. pend' \subseteq [h : Handles, id : 1..MaxConnects] /\ calls' \in 0..MaxConnects
    <3>1. calls \in 0..MaxConnects /\ calls < MaxConnects /\ MaxConnects \in Nat
      <4>1. op.then = "connect"
        BY <1>11 DEF StoreConnect
      <4>2. Operands /\ calls \in 0..MaxConnects
        BY Known
      <4> QED BY <2>1, <4>1, <4>2, HandlesAssumption DEF Operands
    <3> QED BY <1>11, <2>1, <3>1, Known DEF StoreConnect
  <2> QED BY <1>11, <2>2, <2>3, <2>4, Known, Types, ShapeStep DEF StoreConnect, server
<1>12. CASE AssignRef
  <2>1. op.h \in Handles /\ op.c \in Ctx \cup {0} /\ op.c <= made
    BY <1>12, Known DEF AssignRef, At, Busy
  <2>2. cnt' \in [Ctx -> Nat] /\ \A d \in Ctx : d > made => cnt'[d] = 0
    BY <1>12, <2>1, RefTypes DEF AssignRef
  <2>3. op' = Idle
    BY <1>12 DEF AssignRef
  <2> QED BY <1>12, <2>2, <2>3, Known, Types, IdlePlace, ShapeStep DEF AssignRef, server, asking
<1>13. CASE ConnectOk
  <2>1. op' = Idle
    BY <1>13 DEF ConnectOk
  <2> QED BY <1>13, <2>1, Known, Types, IdlePlace, ShapeStep DEF ConnectOk, server, asking
<1>14. CASE ConnectTimeout
  <2>1. op' = Idle
    BY <1>14 DEF ConnectTimeout
  <2> QED BY <1>14, <2>1, Known, Types, IdlePlace, ShapeStep DEF ConnectTimeout, server
<1> QED BY <1>1, <1>2, <1>3, <1>4, <1>5, <1>6, <1>7, <1>8, <1>9, <1>10, <1>11, <1>12, <1>13, <1>14, <1>15
-------------------------------------------------------------------------------
(* The unclaimed chain. *)

LEMMA ChainLeast ==
  ASSUME NEW S \in SUBSET Ctx, Closed(S)
  PROVE  Chain \subseteq S
  BY DEF Chain

LEMMA ChainClosed ==
  ASSUME Shape
  PROVE  Chain \in SUBSET Ctx /\ Closed(Chain) /\ (head = 0 => Chain = {})
<1>1. Chain \in SUBSET Ctx
  BY DEF Chain
<1>2. ASSUME head # 0 PROVE head \in Chain
  BY <1>2, Types DEF Chain, Closed
<1>3. ASSUME NEW c \in Chain, nxt[c] # 0 PROVE nxt[c] \in Chain
  <2>1. c \in Ctx /\ nxt[c] \in Ctx
    BY <1>1, <1>3, Types
  <2>2. ASSUME NEW S \in SUBSET Ctx, Closed(S) PROVE nxt[c] \in S
    <3>1. c \in S
      BY <2>2, ChainLeast
    <3>2. nxt[c] \in S \cup {0}
      BY <2>2, <3>1 DEF Closed
    <3> QED BY <1>3, <3>2
  <2> QED BY <2>1, <2>2 DEF Chain
<1>4. ASSUME head = 0 PROVE Chain = {}
  <2>1. Closed({})
    BY <1>4 DEF Closed
  <2> QED BY <2>1, ChainLeast
<1> QED BY <1>1, <1>2, <1>3, <1>4 DEF Closed

\* _next leads to younger contexts, so the chain is younger than its head.
LEMMA ChainYounger ==
  ASSUME Shape, NEW n \in Nat, head # 0 => head >= n
  PROVE  \A c \in Chain : c >= n /\ c <= made
<1> DEFINE S == {c \in Ctx : c >= n /\ c <= made}
<1>1. head \in S \cup {0}
  BY Types, Known DEF Made
<1>2. ASSUME NEW c \in S PROVE nxt[c] \in S \cup {0}
  <2>1. c \in Ctx /\ c >= n /\ c \in Nat /\ nxt[c] \in Ctx \cup {0}
    BY <1>2, Types
  <2>2. nxt[c] # 0 => nxt[c] \in Nat /\ c < nxt[c] /\ nxt[c] <= made
    BY <2>1, Types, Known DEF Made
  <2> QED BY <2>1, <2>2
<1>3. Chain \subseteq S
  BY <1>1, <1>2, ChainLeast DEF Closed
<1> QED BY <1>3

LEMMA LeastNat ==
  ASSUME NEW T, T \subseteq Nat, T # {}
  PROVE  \E x \in T : \A y \in T : x <= y
<1>1. PICK x \in T : \A y \in T : ~(<<y, x>> \in OpToRel(<, Nat))
  BY NatLessThanWellFounded, WFMin
<1>2. \A y \in T : ~(y < x)
  BY <1>1 DEF OpToRel
<1> QED BY <1>2

\* It has a last member, which slist_append_tail finds.
LEMMA ChainEnds ==
  ASSUME Shape, head # 0
  PROVE  \E d \in Chain : nxt[d] = 0
<1> SUFFICES ASSUME \A d \in Chain : nxt[d] # 0 PROVE FALSE
  OBVIOUS
<1> DEFINE T == {made - c : c \in Chain}
<1>1. Chain \in SUBSET Ctx /\ Closed(Chain) /\ \A c \in Chain : c \in Nat /\ c <= made
  <2>1. \A c \in Chain : c >= 0 /\ c <= made
    BY Types, ChainYounger
  <2> QED BY <2>1, ChainClosed, Types
<1>2. T \subseteq Nat /\ T # {}
  <2>1. \A c \in Chain : made - c \in Nat
    BY <1>1, Types
  <2>2. head \in Chain
    BY <1>1 DEF Closed
  <2> QED BY <2>1, <2>2
<1>3. PICK x \in T : \A y \in T : x <= y
  <2> HIDE DEF T
  <2> QED BY <1>2, LeastNat
<1>4. PICK d \in Chain : x = made - d
  BY <1>3
<1>5. nxt[d] \in Chain /\ d < nxt[d]
  BY <1>1, <1>4, Known DEF Closed, Made
<1>6. made - nxt[d] \in T
  BY <1>5
<1>7. d \in Nat /\ nxt[d] \in Nat /\ made \in Nat
  BY <1>1, <1>4, <1>5, Types
<1>8. ~(x <= made - nxt[d])
  BY <1>4, <1>5, <1>7
<1> QED BY <1>3, <1>6, <1>8

\* What slist_append_tail does to the chain: nothing but the new member is
\* added, and nothing lost.
LEMMA Linked ==
  ASSUME Shape, made < MaxCtx, Link(made + 1)
  PROVE  /\ made + 1 \in Ctx
         /\ nxt' \in [Ctx -> Ctx \cup {0}] /\ head' \in Ctx \cup {0} /\ head' <= made + 1
         /\ \A c \in Ctx : nxt'[c] # 0 => c < nxt'[c] /\ nxt'[c] <= made + 1
         /\ Chain' = Chain \cup {made + 1}
         /\ head = 0 => head' = made + 1
         /\ head # 0 => head' = head
<1>1. PICK n \in Ctx : n = made + 1
  BY Types, HandlesAssumption DEF Ctx
<1>2. n \in Nat /\ n # 0 /\ made < n /\ made \in Nat
  BY <1>1, Types
<1>3. nxt[n] = 0
  BY <1>2, Types, Known DEF Made
<1>4. PICK C \in SUBSET Ctx : C = Chain
  BY ChainClosed
<1>5. Closed(C)
  BY <1>4, ChainClosed
<1>6. \A c \in Ctx : nxt[c] # 0 => c < nxt[c] /\ nxt[c] <= n
  <2>1. \A c \in Ctx : nxt[c] # 0 => c < nxt[c] /\ nxt[c] <= made /\ nxt[c] \in Nat
    BY Types, Known DEF Made
  <2> QED BY <1>2, <2>1
<1>7. head <= n /\ n <= n
  <2>1. head \in Nat /\ head <= made
    BY Types, Known DEF Made
  <2> QED BY <1>2, <2>1
<1>8. CASE head = 0
  <2>1. head' = n /\ nxt' = nxt /\ C = {}
    BY <1>1, <1>4, <1>8, ChainClosed DEF Link
  <2>2. n \in Chain'
    BY <1>2, <2>1 DEF Chain, Closed
  <2>3. Closed({n})'
    BY <1>2, <1>3, <2>1 DEF Closed
  <2>4. Chain' \subseteq {n}
    BY <2>3 DEF Chain
  <2>5. Chain' = C \cup {n}
    BY <2>1, <2>2, <2>4
  <2> QED BY <1>1, <1>4, <1>6, <1>7, <1>8, <2>1, <2>5, Types
<1>9. CASE head # 0
  <2>1. PICK d \in C : nxt[d] = 0 /\ nxt' = [nxt EXCEPT ![d] = n] /\ head' = head
    BY <1>1, <1>4, <1>9, ChainEnds DEF Link
  <2>2. d \in Ctx /\ d <= made /\ d # n /\ d \in Nat /\ d < n
    <3>1. d \in Ctx /\ d <= made /\ d \in Nat
      BY <1>4, Types, ChainYounger
    <3> QED BY <1>2, <3>1
  <2>3. nxt'[d] = n /\ \A c \in Ctx : c # d => nxt'[c] = nxt[c]
    BY <2>1, <2>2, Types
  <2>4. Closed(C \cup {n})'
    <3>1. head' \in C \cup {n} \cup {0}
      BY <1>5, <2>1 DEF Closed
    <3>2. ASSUME NEW c \in C \cup {n} PROVE nxt'[c] \in C \cup {n} \cup {0}
      <4>1. CASE c = d
        BY <2>3, <4>1
      <4>2. CASE c = n
        BY <1>3, <2>2, <2>3, <4>2
      <4>3. CASE c # d /\ c # n
        <5>1. c \in C /\ nxt'[c] = nxt[c]
          BY <2>3, <3>2, <4>3
        <5> QED BY <1>5, <5>1 DEF Closed
      <4> QED BY <4>1, <4>2, <4>3
    <3> QED BY <3>1, <3>2 DEF Closed
  <2>5. Chain' \subseteq C \cup {n}
    BY <2>4 DEF Chain
  <2>6. ASSUME NEW S \in SUBSET Ctx, Closed(S)' PROVE C \subseteq S /\ n \in S
    <3>1. Closed(S)
      <4>1. head \in S \cup {0}
        BY <2>1, <2>6 DEF Closed
      <4>2. ASSUME NEW c \in S PROVE nxt[c] \in S \cup {0}
        <5>1. nxt'[c] \in S \cup {0}
          BY <2>6 DEF Closed
        <5> QED BY <2>1, <2>3, <5>1
      <4> QED BY <4>1, <4>2 DEF Closed
    <3>2. C \subseteq S
      BY <1>4, <3>1, ChainLeast
    <3>3. nxt'[d] \in S \cup {0}
      BY <2>6, <3>2 DEF Closed
    <3> QED BY <1>2, <2>3, <3>2, <3>3
  <2>7. C \cup {n} \subseteq Chain'
    BY <2>6 DEF Chain
  <2>8. \A c \in Ctx : nxt'[c] # 0 => c < nxt'[c] /\ nxt'[c] <= n
    BY <1>6, <1>7, <2>2, <2>3
  <2>9. nxt' \in [Ctx -> Ctx \cup {0}]
    BY <2>1, Types
  <2>10. Chain' = C \cup {n}
    BY <2>5, <2>7
  <2> QED BY <1>1, <1>4, <1>7, <1>9, <2>1, <2>8, <2>9, <2>10, Types
<1> QED BY <1>8, <1>9

\* available() takes the head off the chain.
LEMMA Unlinked ==
  ASSUME Shape, head # 0, nxt' = nxt, head' \in {0, nxt[head]}
  PROVE  /\ Chain' \subseteq Chain \ {head}
         /\ head' = nxt[head] => Chain \subseteq Chain' \cup {head}
<1>1. Chain \in SUBSET Ctx /\ Closed(Chain) /\ head \in Ctx
  BY ChainClosed, Types
<1>2. PICK S \in SUBSET Ctx : S = {c \in Chain : c > head}
  BY <1>1
<1>21. Closed(S)'
  <2>1. head' \in S \cup {0}
    <3>1. nxt[head] # 0 => nxt[head] \in Chain /\ head < nxt[head]
      BY <1>1, Known DEF Closed, Made
    <3>2. nxt[head] # 0 => nxt[head] > head
      BY <1>1, <3>1, Types
    <3> QED BY <1>2, <3>1, <3>2
  <2>2. ASSUME NEW c \in S PROVE nxt'[c] \in S \cup {0}
    <3>1. c \in Chain /\ c \in Ctx /\ c > head
      BY <1>2
    <3>2. nxt[c] # 0 => nxt[c] \in Chain /\ nxt[c] \in Ctx /\ c < nxt[c]
      BY <1>1, <3>1, Known DEF Closed, Made
    <3>3. nxt[c] # 0 => nxt[c] > head
      BY <1>1, <3>1, <3>2, Types
    <3> QED BY <1>2, <3>2, <3>3
  <2> QED BY <2>1, <2>2 DEF Closed
<1>3. Chain' \subseteq S
  BY <1>21 DEF Chain
<1>4. ASSUME head' = nxt[head], NEW c \in Chain, c # head PROVE c \in Chain'
  <2>1. ASSUME NEW U \in SUBSET Ctx, Closed(U)' PROVE c \in U
    <3>1. Closed(U \cup {head})
      BY <1>1, <1>4, <2>1 DEF Closed
    <3>2. Chain \subseteq U \cup {head}
      BY <1>1, <3>1, ChainLeast
    <3> QED BY <1>4, <3>2
  <2> QED BY <1>1, <1>4, <2>1 DEF Chain
<1>5. head \notin S /\ S \subseteq Chain
  BY <1>1, <1>2, Types
<1> QED BY <1>3, <1>4, <1>5

LEMMA ChainSame ==
  ASSUME head' = head, nxt' = nxt
  PROVE  Chain' = Chain
  BY DEF Chain, Closed
-------------------------------------------------------------------------------
(* Shape, under the other operations and tasks. *)

\* The holders of c a release drops.
LetGo(keep, c) == {h \in Dropped(keep) : cli[h] = c}

LEMMA ReleaseTypes ==
  ASSUME Shape, Counted, Free, NEW keep \in Ctx \cup {0}, Release(Dropped(keep)), exists' = exists
  PROVE  /\ cnt' \in [Ctx -> Nat] /\ live' \subseteq live
         /\ cli' \in [Handles -> Ctx \cup {0}] /\ \A h \in exists : cli'[h] \in {0, cli[h]}
         /\ \A c \in Ctx : /\ LetGo(keep, c) \subseteq Held(c)
                           /\ cnt'[c] = cnt[c] - Cardinality(LetGo(keep, c))
                           /\ c \in live' <=> c \in live /\ (LetGo(keep, c) = {} \/ cnt'[c] # 0)
                           /\ {h \in exists : cli'[h] = c} = Held(c) \ LetGo(keep, c)
<1>1. /\ cnt' = [c \in Ctx |-> cnt[c] - Cardinality(LetGo(keep, c))]
      /\ live' = {c \in live : cnt'[c] # 0 \/ \A h \in Dropped(keep) : cli[h] # c}
      /\ cli' = [h \in Handles |-> IF h \in Dropped(keep) THEN 0 ELSE cli[h]]
  BY DEF Release, Released, LetGo
<1>2. Dropped(keep) \subseteq exists
  BY Known DEF Dropped, Listed, At, Operands
<1>3. ASSUME NEW c \in Ctx
      PROVE  /\ LetGo(keep, c) \subseteq Held(c)
             /\ {h \in exists : cli'[h] = c} = Held(c) \ LetGo(keep, c)
             /\ (\A h \in Dropped(keep) : cli[h] # c) <=> LetGo(keep, c) = {}
  <2>1. Held(c) = {h \in exists : cli[h] = c} /\ c # 0 /\ exists \subseteq Handles
    BY HeldWhenFree, Types
  <2> QED BY <1>1, <1>2, <2>1 DEF LetGo
<1>4. ASSUME NEW c \in Ctx PROVE cnt'[c] = cnt[c] - Cardinality(LetGo(keep, c)) /\ cnt'[c] \in Nat
  <2>1. IsFiniteSet(Held(c)) /\ Cardinality(Held(c)) \in Nat /\ cnt[c] \in Nat /\ Cardinality(Held(c)) <= cnt[c]
    BY HeldFinite, Types DEF Counted
  <2>2. Cardinality(LetGo(keep, c)) \in Nat /\ Cardinality(LetGo(keep, c)) <= Cardinality(Held(c))
    BY <1>3, <2>1, FS_Subset, FS_CardinalityType
  <2>3. cnt'[c] = cnt[c] - Cardinality(LetGo(keep, c))
    BY <1>1
  <2> QED BY <2>1, <2>2, <2>3
<1>5. cnt' \in [Ctx -> Nat]
  <2>1. cnt' = [c \in Ctx |-> cnt'[c]]
    BY <1>1
  <2> QED BY <1>4, <2>1
<1>6. \A c \in Ctx : c \in live' <=> c \in live /\ (LetGo(keep, c) = {} \/ cnt'[c] # 0)
  BY <1>1, <1>3
<1>7. cli' \in [Handles -> Ctx \cup {0}] /\ \A h \in exists : cli'[h] \in {0, cli[h]}
  BY <1>1, Types
<1>8. live' \subseteq live
  BY <1>1
<1> QED BY <1>3, <1>4, <1>5, <1>6, <1>7, <1>8

\* A pointer the loop task has no use for is dropped under its feet without harm.
LEMMA FreeWhenUnused ==
  ASSUME Shape, ~InUse
  PROVE  Free
  BY Known DEF InUse, Free, At, Busy, Operands

LEMMA ReleaseShape ==
  ASSUME Shape, Counted, Free, NEW keep \in Ctx \cup {0}, Release(Dropped(keep)),
         UNCHANGED <<exists, server, asking, op>>
  PROVE  Shape'
<1>1. Places' /\ Operands' /\ (op'.at \in Busy => op'.c <= made)
  BY Known DEF Places, Operands, At, asking
<1>2. \A d \in Ctx : d > made => cnt'[d] = 0
  <2>1. ASSUME NEW d \in Ctx, d > made PROVE cnt'[d] = 0
    <3>1. cnt[d] = 0 /\ IsFiniteSet(Held(d)) /\ LetGo(keep, d) \subseteq Held(d)
      BY <2>1, Known, HeldFinite, Types, ReleaseTypes
    <3>2. Cardinality(LetGo(keep, d)) \in Nat
      BY <3>1, FS_Subset, FS_CardinalityType
    <3>3. cnt'[d] = cnt[d] - Cardinality(LetGo(keep, d)) /\ cnt'[d] \in Nat
      BY ReleaseTypes
    <3> QED BY <3>1, <3>2, <3>3
  <2> QED BY <2>1
<1>3. \A h \in exists' : cli'[h] <= made
  <2>1. \A h \in exists : cli'[h] \in {0, cli[h]}
    BY ReleaseTypes
  <2> QED BY <2>1, Known, Types
<1>4. cnt' \in [Ctx -> Nat] /\ live' \subseteq live /\ cli' \in [Handles -> Ctx \cup {0}]
  BY ReleaseTypes
<1> QED BY <1>1, <1>2, <1>3, <1>4, Known, Types, ShapeStep DEF server, asking

LEMMA ShapeOthers ==
  ASSUME HInv, NEW h, NEW p,
         \/ Begin \/ CloseServer \/ AvailableStore \/ StopAll \/ StopAllExcept(h)
         \/ (h \in Handles /\ Available(h))
         \/ Accept \/ Connected(p) \/ ConnectError(p)
  PROVE  Shape'
<1> USE DEF HInv
<1>1. CASE Begin
  BY <1>1 DEF Begin, asking, Shape, TypeOK, Places, Operands, Made, At
<1>2. CASE CloseServer
  BY <1>2 DEF CloseServer, asking, Shape, TypeOK, Places, Operands, Made, At
<1>3. CASE AvailableStore
  <2>1. op' = Idle /\ op.c \in Ctx \cup {0} /\ op.c <= made
    BY <1>3, Known DEF AvailableStore, At, Busy
  <2>2. Places' /\ Operands' /\ op'.at = "idle"
    BY <2>1, IdlePlace
  <2>3. TypeOK'
    BY <1>3, <2>1, <2>2 DEF AvailableStore, Shape, TypeOK, asking
  <2>4. Made'
    BY <1>3, <2>1, <2>2 DEF AvailableStore, Shape, Made
  <2> QED BY <2>2, <2>3, <2>4 DEF Shape
<1>4. CASE StopAll
  <2>1. CASE InUse
    BY <1>4, <2>1 DEF StopAll, server, asking, Shape, TypeOK, Places, Operands, Made, At
  <2>2. CASE ~InUse
    BY <1>4, <2>2, FreeWhenUnused, ReleaseShape DEF StopAll
  <2> QED BY <2>1, <2>2
<1>5. CASE StopAllExcept(h)
  <2>1. Free /\ cli[h] \in Ctx \cup {0}
    BY <1>5, Types DEF StopAllExcept, Free, At
  <2> QED BY <1>5, <2>1, ReleaseShape DEF StopAllExcept
<1>6. CASE h \in Handles /\ Available(h)
  <2>1. /\ head # 0 /\ head \in Ctx /\ head <= made /\ op' = [at |-> "avail", h |-> h, c |-> nxt[head]]
        /\ exists' = exists \cup {h} /\ cli' = [cli EXCEPT ![h] = head]
        /\ claimed' = Append(claimed, head) /\ Ref(head)
    BY <1>6, Types, Known DEF Available, Made
  <2>2. nxt[head] \in Ctx \cup {0} /\ nxt[head] <= made
    BY <2>1, Types, Known DEF Made
  <2>3. Places' /\ Operands' /\ op'.at = "avail" /\ op'.c <= made
    BY <1>6, <2>1, <2>2 DEF Places, Operands, At
  <2>4. cnt' \in [Ctx -> Nat] /\ \A d \in Ctx : d > made => cnt'[d] = 0
    BY <2>1, RefTypes
  <2>5. claimed' \in Seq(Ctx) /\ cli' \in [Handles -> Ctx \cup {0}] /\ exists' \subseteq Handles
    BY <1>6, <2>1, Types
  <2>6. TypeOK'
    BY <1>6, <2>3, <2>4, <2>5 DEF Available, Shape, TypeOK, asking
  <2>7. Made'
    <3>1. \A k \in exists' : cli'[k] <= made
      BY <1>6, <2>1, Types, Known
    <3> QED BY <1>6, <2>3, <2>4, <3>1 DEF Available, Shape, Made
  <2> QED BY <2>3, <2>6, <2>7 DEF Shape
<1>7. CASE Accept
  <2>1. /\ made + 1 \in Ctx
        /\ nxt' \in [Ctx -> Ctx \cup {0}] /\ head' \in Ctx \cup {0} /\ head' <= made + 1
        /\ \A c \in Ctx : nxt'[c] # 0 => c < nxt'[c] /\ nxt'[c] <= made + 1
    BY <1>7, Linked DEF Accept
  <2>2. made' = made + 1 /\ made < MaxCtx /\ made \in Nat /\ live' = live \cup {made + 1}
    BY <1>7, Types DEF Accept
  <2>3. made' \in 0..MaxCtx /\ live' \subseteq 1..made'
    <3>1. live \subseteq 1..made
      BY Known DEF TypeOK
    <3> QED BY <2>2, <3>1, HandlesAssumption
  <2>4. TypeOK'
    BY <1>7, <2>1, <2>3 DEF Accept, Shape, TypeOK, asking
  <2>5. Places' /\ Operands'
    BY <1>7, Known DEF Accept, Places, Operands, At, asking
  <2>6. Made'
    <3>1. \A k \in exists' : cli'[k] <= made'
      <4>1. \A k \in exists : k \in Handles /\ cli[k] \in Nat /\ cli[k] <= made
        BY Known, Types
      <4> QED BY <1>7, <2>2, <4>1 DEF Accept
    <3>2. \A c \in Ctx : c > made' => cnt'[c] = 0
      BY <1>7, <2>2, Known, Types DEF Accept
    <3>3. op'.at \in Busy => op'.c <= made'
      BY <1>7, <2>2, Known, Types DEF Accept
    <3> QED BY <2>1, <2>2, <3>1, <3>2, <3>3 DEF Made, Busy
  <2> QED BY <2>4, <2>5, <2>6 DEF Shape
<1>8. CASE Connected(p)
  <2>1. CASE p.h \notin exists
    <3>1. pend' \subseteq pend /\ UNCHANGED <<exists, cli, live, cnt, made, origin, nxt, head, listen, calls, op, claimed>>
      BY <1>8, <2>1 DEF Connected
    <3> QED BY <3>1 DEF Shape, TypeOK, Places, Operands, Made, At
  <2>2. CASE p.h \in exists
    <3>1. /\ pend' \subseteq pend /\ made' = made + 1 /\ made < MaxCtx /\ made \in Nat /\ live' = live \cup {made + 1}
          /\ origin' = [origin EXCEPT ![made + 1] = p.id] /\ cnt' = [cnt EXCEPT ![made + 1] = 1]
          /\ cli' = [cli EXCEPT ![p.h] = made + 1]
          /\ UNCHANGED <<exists, nxt, head, listen, calls, op, claimed>>
      BY <1>8, <2>2, Types DEF Connected
    <3>2. p.h \in Handles /\ p.id \in 0..MaxConnects /\ made + 1 \in Ctx
      <4>1. p.h \in Handles /\ p.id \in 1..MaxConnects
        BY <1>8, Known DEF Connected
      <4> QED BY <3>1, <4>1, HandlesAssumption DEF Ctx
    <3>3. made' \in 0..MaxCtx /\ live' \subseteq 1..made'
      <4>1. live \subseteq 1..made
        BY Known DEF TypeOK
      <4> QED BY <3>1, <4>1, HandlesAssumption
    <3>4. origin' \in [Ctx -> 0..MaxConnects] /\ cnt' \in [Ctx -> Nat] /\ cli' \in [Handles -> Ctx \cup {0}]
      <4>1. origin \in [Ctx -> 0..MaxConnects]
        BY Known DEF TypeOK
      <4> QED BY <3>1, <3>2, <4>1, Types
    <3>5. TypeOK'
      BY <3>1, <3>3, <3>4 DEF Shape, TypeOK
    <3>6. Places' /\ Operands'
      BY <3>1, Known DEF Places, Operands, At
    <3>7. Made'
      <4>1. \A k \in exists' : cli'[k] <= made'
        <5>1. \A k \in Handles : cli'[k] = IF k = p.h THEN made + 1 ELSE cli[k]
          BY <3>1, <3>2, Types
        <5>2. \A k \in exists : k \in Handles /\ cli[k] \in Nat /\ cli[k] <= made
          BY Known, Types
        <5> QED BY <3>1, <5>1, <5>2
      <4>2. \A c \in Ctx : c > made' => cnt'[c] = 0
        BY <3>1, <3>2, Known, Types
      <4>3. op'.at \in Busy => op'.c <= made'
        BY <3>1, Known, Types
      <4>4. head' <= made' /\ \A c \in Ctx : nxt'[c] # 0 => c < nxt'[c] /\ nxt'[c] <= made'
        BY <3>1, Known, Types DEF Made
      <4> QED BY <4>1, <4>2, <4>3, <4>4 DEF Made, Busy
    <3> QED BY <3>5, <3>6, <3>7 DEF Shape
  <2> QED BY <2>1, <2>2
<1>9. CASE ConnectError(p)
  <2>1. pend' \subseteq pend /\ UNCHANGED <<exists, cli, live, cnt, made, origin, nxt, head, listen, calls, op, claimed>>
    BY <1>9 DEF ConnectError, server
  <2> QED BY <2>1 DEF Shape, TypeOK, Places, Operands, Made, At
<1> QED BY <1>1, <1>2, <1>3, <1>4, <1>5, <1>6, <1>7, <1>8, <1>9
-------------------------------------------------------------------------------
(* Counts: the step of every action. *)

\* One that was counted and is counted again was not waiting and is not.
LEMMA WaitingUp ==
  ASSUME Shape, NEW x \in Ctx, cnt[x] >= 1, cnt' = [cnt EXCEPT ![x] = cnt[x] + 1], live' = live
  PROVE  Waiting' = Waiting
<1>1. cnt[x] \in Nat /\ cnt'[x] = cnt[x] + 1 /\ \A c \in Ctx : c # x => cnt'[c] = cnt[c]
  BY Types
<1>2. cnt'[x] # 0 /\ cnt[x] # 0
  BY <1>1
<1> QED BY <1>1, <1>2, Types DEF Waiting

\* The beginning of stop(), operator= and connect().
LEMMA CountDrop ==
  ASSUME HInv, NEW h \in exists, NEW g, NEW then, At("idle"), Drop(h, then, g),
         UNCHANGED <<exists, cli, live, cnt, late>>
  PROVE  Counted' /\ Kept' /\ Waiting' = Waiting
<1> USE DEF HInv
<1>1. op'.at \in {"store", "unref"} /\ op'.h = h /\ op'.c = cli[h] /\ (op'.at = "store" => cli[h] = 0)
  BY DEF Drop
<1>2. h \in Handles /\ exists' \subseteq Handles
  BY Types
<1>3. ASSUME NEW c \in Ctx PROVE Held(c)' = Held(c)
  <2>1. Held(c) = {k \in exists : cli[k] = c}
    BY HeldWhenFree DEF Free, At
  <2>2. c # 0
    BY Types
  <2>3. CASE op'.at = "store"
    <3>1. Held(c)' = {k \in exists' : cli'[k] = c}
      BY <1>1, <2>2, <2>3 DEF Held, Owners, At
    <3> QED BY <2>1, <3>1
  <2>4. CASE op'.at = "unref"
    <3>1. Held(c)' = {k \in exists' : cli'[k] = c} \cup {k \in Handles : k = h /\ c = cli[h]}
      BY <1>1, <2>4 DEF Held, Owners, At
    <3> QED BY <1>2, <2>1, <3>1
  <2> QED BY <1>1, <2>3, <2>4
<1>4. Counted'
  BY <1>2, <1>3, CountKept
<1>5. Kept'
  BY <1>1, Types DEF Kept
<1> QED BY <1>4, <1>5 DEF Waiting

\* An operation that holds no pointer ends.
LEMMA CountIdle ==
  ASSUME HInv, op.at \in {"add", "wait", "avail"}, op' = Idle, exists' \subseteq Handles, exists' = exists, cli' = cli,
         cnt' = cnt, live' = live, late => late'
  PROVE  Counted' /\ Kept' /\ Waiting' = Waiting
<1> USE DEF HInv
<1>1. Free /\ Free' /\ Kept'
  BY DEF Free, Idle, Kept
<1>2. \A c \in Ctx : Held(c)' = Held(c)
  BY <1>1, HeldWhenFree, HeldWhenFreeNext
<1>3. Counted'
  BY <1>2, CountKept
<1> QED BY <1>1, <1>3 DEF Waiting

LEMMA CountNothing ==
  ASSUME HInv, UNCHANGED <<exists, cli, op, cnt, live, late>>
  PROVE  Counted' /\ Kept' /\ Waiting' = Waiting
<1> USE DEF HInv
<1>1. Counted'
  BY HeldSame, CountKept, Types
<1> QED BY <1>1 DEF Kept, Waiting

\* At "store" the WiFiClient of the operation holds nothing, unless a late
\* answer has come to it.
LEMMA HeldAtStore ==
  ASSUME HInv, op.at = "store", NEW c \in Ctx
  PROVE  /\ {k \in exists : cli[k] = c} \ {op.h} \subseteq Held(c)
         /\ ~late => {k \in exists : cli[k] = c} \ {op.h} = Held(c)
<1>1. Held(c) = {k \in exists : cli[k] = c /\ ~(op.h = k /\ op.c = c)}
  BY DEF Held, Owners, At
<1>2. ~late => cli[op.h] = op.c
  BY DEF HInv, OnTime
<1> QED BY <1>1, <1>2

\* stopAll and stopAllExcept.
LEMMA CountRelease ==
  ASSUME HInv, Free, NEW keep \in Ctx \cup {0}, Release(Dropped(keep)), UNCHANGED <<exists, op, late>>,
         op.at \in {"ref", "copy"} => op.c = 0
  PROVE  Counted' /\ Kept' /\ Waiting' = Waiting
<1> USE DEF HInv
<1>1. live' \subseteq live
  BY ReleaseTypes
<1>2. ASSUME NEW c \in Ctx
      PROVE  /\ Cardinality(Held(c)') <= cnt'[c]
             /\ ~late => cnt'[c] = Cardinality(Held(c)')
             /\ cnt'[c] > 0 => c \in live'
             /\ c \in live' /\ cnt'[c] = 0 <=> c \in live /\ cnt[c] = 0
  <2> DEFINE S == Held(c)
             T == Held(c)'
             G == LetGo(keep, c)
  <2>1. /\ IsFiniteSet(S) /\ Cardinality(S) \in Nat /\ cnt[c] \in Nat /\ Cardinality(S) <= cnt[c]
        /\ (~late => cnt[c] = Cardinality(S)) /\ (cnt[c] > 0 => c \in live)
        /\ (Cardinality(S) = 0 <=> S = {})
    BY HeldFinite, Types DEF Counted
  <2>2. /\ G \subseteq S /\ cnt'[c] = cnt[c] - Cardinality(G)
        /\ c \in live' <=> c \in live /\ (G = {} \/ cnt'[c] # 0)
    BY ReleaseTypes
  <2>3. T = S \ G
    <3>1. Held(c)' = {k \in exists' : cli'[k] = c}
      BY HeldWhenFreeNext DEF Free
    <3>2. {k \in exists : cli'[k] = c} = Held(c) \ LetGo(keep, c)
      BY ReleaseTypes
    <3> QED BY <3>1, <3>2
  <2> HIDE DEF S, T, G
  <2>4. IsFiniteSet(G) /\ S \cap G = G
    BY <2>1, <2>2, FS_Subset
  <2>5. Cardinality(G) \in Nat /\ (G = {} <=> Cardinality(G) = 0)
    BY <2>4, FS_CardinalityType, FS_EmptySet
  <2>6. Cardinality(T) = Cardinality(S) - Cardinality(G)
    <3>1. Cardinality(S \ G) = Cardinality(S) - Cardinality(S \cap G)
      BY <2>1, FS_Difference
    <3> QED BY <2>3, <2>4, <3>1
  <2>7. Cardinality(T) <= cnt'[c] /\ (~late => cnt'[c] = Cardinality(T))
    BY <2>1, <2>2, <2>5, <2>6
  <2>8. cnt'[c] > 0 => c \in live'
    BY <2>1, <2>2, <2>5
  <2>9. ASSUME c \in live', cnt'[c] = 0 PROVE c \in live /\ cnt[c] = 0
    BY <2>1, <2>2, <2>5, <2>9
  <2>10. ASSUME c \in live, cnt[c] = 0 PROVE c \in live' /\ cnt'[c] = 0
    <3>1. S = {} /\ G = {} /\ Cardinality(G) = 0
      BY <2>1, <2>2, <2>5, <2>10
    <3> QED BY <2>2, <2>10, <3>1
  <2> QED BY <2>7, <2>8, <2>9, <2>10 DEF T
<1>3. Counted'
  BY <1>2 DEF Counted
<1>4. Kept'
  <2>1. op.at = "store" => op.c \notin live'
    BY <1>1, Types DEF Free
  <2> QED BY <2>1 DEF Kept
<1>5. Waiting' = Waiting
  <2>1. live \subseteq Ctx /\ live' \subseteq Ctx
    BY <1>1, Types
  <2> QED BY <1>2, <2>1 DEF Waiting
<1> QED BY <1>3, <1>4, <1>5

LEMMA CountLoop ==
  ASSUME HInv, NEW h \in Handles, NEW g \in Handles,
         \/ Construct(h) \/ AddNext \/ CopyLoad(h, g) \/ CopyRef
         \/ Destroy(h) \/ Stop(h) \/ Assign(h, g) \/ Connect(h) \/ DropRef
         \/ StoreNull \/ StoreOther \/ StoreConnect \/ AssignRef \/ ConnectOk \/ ConnectTimeout
  PROVE  Counted' /\ Kept' /\ Waiting' = Waiting
<1> USE DEF HInv
<1>0. Shape'
  BY ShapeLoop
<1>01. exists' \subseteq Handles
  BY <1>0 DEF Shape, TypeOK
<1>1. CASE Construct(h)
  <2>1. /\ At("idle") /\ op'.at = "add" /\ h \notin exists /\ exists' = exists \cup {h}
        /\ cli' = [cli EXCEPT ![h] = 0] /\ cnt' = cnt /\ live' = live /\ late' = late
    BY <1>1 DEF Construct, asking
  <2>2. Free /\ Free'
    BY <2>1 DEF Free, At
  <2>3. ASSUME NEW c \in Ctx PROVE Held(c)' = Held(c)
    <3>1. Held(c) = {k \in exists : cli[k] = c} /\ Held(c)' = {k \in exists' : cli'[k] = c}
      BY <1>0, <2>2, HeldWhenFree, HeldWhenFreeNext
    <3> QED BY <2>1, <3>1, Types
  <2>4. Counted'
    BY <1>01, <2>1, <2>3, CountKept
  <2>5. Kept' /\ Waiting' = Waiting
    BY <2>1 DEF Kept, Waiting
  <2> QED BY <2>4, <2>5
<1>15. CASE AddNext
  <2>1. op.at = "add" /\ op' = Idle /\ exists' = exists /\ cli' = cli /\ cnt' = cnt /\ live' = live /\ late' = late
    BY <1>15 DEF AddNext, At, asking
  <2> QED BY <1>01, <2>1, CountIdle
<1>2. CASE CopyLoad(h, g)
  <2>1. /\ At("idle") /\ op' = [at |-> "copy", h |-> h, c |-> cli[g]] /\ g \in exists
        /\ exists' = exists /\ cli' = cli /\ cnt' = cnt /\ live' = live /\ late' = late
    BY <1>2 DEF CopyLoad, asking
  <2>2. Free /\ Free'
    BY <2>1 DEF Free, At
  <2>3. ASSUME NEW c \in Ctx PROVE Held(c) = {k \in exists : cli[k] = c} /\ Held(c)' = Held(c)
    BY <1>0, <2>1, <2>2, HeldWhenFree, HeldWhenFreeNext
  <2>4. Counted'
    BY <1>01, <2>1, <2>3, CountKept
  <2>5. Kept'
    <3>1. cli[g] # 0 => g \in Held(cli[g]) /\ cli[g] \in Ctx
      BY <2>1, <2>3, Types
    <3>2. cli[g] # 0 => cnt[cli[g]] >= 1
      BY <3>1, HolderCounts
    <3> QED BY <2>1, <3>2 DEF Kept
  <2>6. Waiting' = Waiting
    BY <2>1 DEF Waiting
  <2> QED BY <2>4, <2>5, <2>6
<1>3. CASE CopyRef
  <2>1. /\ op.at = "copy" /\ op'.at = "add" /\ op.h \in Handles /\ op.c \in Ctx \cup {0} /\ op.h \notin exists
        /\ exists' = exists \cup {op.h} /\ cli' = [cli EXCEPT ![op.h] = op.c] /\ Ref(op.c) /\ live' = live /\ late' = late
    BY <1>3, Known DEF CopyRef, At, Busy, Operands, asking
  <2>2. Free /\ Free' /\ Kept'
    BY <2>1 DEF Free, Idle, Kept
  <2>3. ASSUME NEW c \in Ctx
        PROVE  /\ Held(c) = {k \in exists : cli[k] = c}
               /\ Held(c)' = IF c = op.c THEN Held(c) \cup {op.h} ELSE Held(c)
    <3>1. Held(c) = {k \in exists : cli[k] = c} /\ Held(c)' = {k \in exists' : cli'[k] = c}
      BY <1>0, <2>2, HeldWhenFree, HeldWhenFreeNext
    <3> QED BY <2>1, <3>1, Types
  <2>4. CASE op.c = 0
    <3>1. cnt' = cnt
      BY <2>1, <2>4 DEF Ref
    <3>2. \A c \in Ctx : Held(c)' = Held(c)
      BY <2>3, <2>4, Types
    <3>3. Counted'
      BY <1>01, <2>1, <3>1, <3>2, CountKept
    <3> QED BY <2>1, <2>2, <3>1, <3>3 DEF Waiting
  <2>5. CASE op.c # 0
    <3>1. op.c \in Ctx /\ cnt' = [cnt EXCEPT ![op.c] = cnt[op.c] + 1] /\ cnt[op.c] >= 1
      BY <2>1, <2>5 DEF Ref, Kept
    <3>2. PICK y \in Ctx : y = op.c
      BY <3>1
    <3>21. PICK k \in Handles : k = op.h
      BY <2>1
    <3>22. k \notin Held(y) /\ Held(y)' = Held(y) \cup {k} /\ \A c \in Ctx : c # y => Held(c)' = Held(c)
      BY <2>1, <2>3, <3>2, <3>21
    <3>23. y \in live /\ cnt' = [cnt EXCEPT ![y] = cnt[y] + 1] /\ cnt[y] >= 1
      BY <3>1, <3>2, Types DEF Counted
    <3>3. Counted'
      BY <2>1, <3>22, <3>23, CountUp
    <3>4. Waiting' = Waiting
      BY <2>1, <3>23, WaitingUp
    <3> QED BY <2>2, <3>3, <3>4
  <2> QED BY <2>1, <2>4, <2>5
<1>4. CASE Destroy(h)
  <2>1. /\ At("idle") /\ op' = op /\ h \in exists /\ exists' = exists \ {h} /\ cli' = [cli EXCEPT ![h] = 0] /\ Unref(cli[h]) /\ late' = late
    BY <1>4 DEF Destroy, asking
  <2>2. Free /\ Free' /\ Kept'
    BY <2>1 DEF Free, At, Kept
  <2>3. ASSUME NEW c \in Ctx PROVE Held(c) = {k \in exists : cli[k] = c} /\ Held(c)' = Held(c) \ {h}
    <3>1. Held(c) = {k \in exists : cli[k] = c} /\ Held(c)' = {k \in exists' : cli'[k] = c}
      BY <1>0, <2>2, HeldWhenFree, HeldWhenFreeNext
    <3> QED BY <2>1, <3>1, Types
  <2>4. CASE cli[h] = 0
    <3>1. cnt' = cnt /\ live' = live
      BY <2>1, <2>4 DEF Unref
    <3>2. \A c \in Ctx : Held(c)' = Held(c)
      <4>1. ASSUME NEW c \in Ctx PROVE c # 0 /\ h \notin Held(c)
        BY <2>3, <2>4, Types
      <4> QED BY <2>3, <4>1
    <3>3. Counted'
      BY <1>01, <2>1, <3>1, <3>2, CountKept
    <3> QED BY <2>2, <3>1, <3>3 DEF Waiting
  <2>5. CASE cli[h] # 0
    <3>1. cli[h] \in Ctx /\ h \in Held(cli[h])
      BY <2>1, <2>3, <2>5, Types
    <3> DEFINE x == cli[h]
    <3>2. \A c \in Ctx : c # x => h \notin Held(c)
      BY <2>3
    <3>3. PICK y \in Ctx : y = x
      BY <3>1
    <3>4. Held(y)' = Held(y) \ {h} /\ \A c \in Ctx : c # y => Held(c)' = Held(c)
      BY <2>3, <3>2, <3>3
    <3> QED BY <2>1, <2>2, <3>1, <3>3, <3>4, CountDown
  <2> QED BY <2>4, <2>5
<1>5. CASE Stop(h)
  BY <1>5, CountDrop DEF Stop, asking
<1>6. CASE Assign(h, g)
  BY <1>6, CountDrop DEF Assign, asking
<1>7. CASE Connect(h)
  BY <1>7, CountDrop DEF Connect, asking
<1>8. CASE DropRef
  <2>1. /\ op.at = "unref" /\ op.c \in Ctx /\ op.h \in Handles /\ op' = [op EXCEPT !.at = "store"]
        /\ exists' = exists /\ cli' = cli /\ Unref(op.c) /\ late' = late
    BY <1>8, Known DEF DropRef, At, Busy, Operands, asking
  <2>2. op'.at = "store" /\ op'.h = op.h /\ op'.c = op.c
    BY <2>1, Known DEF Places, Idle
  <2>3. ASSUME NEW c \in Ctx PROVE Held(c) = {k \in exists : cli[k] = c} \cup (IF c = op.c THEN {op.h} ELSE {})
    BY <2>1 DEF Held, Owners, At
  <2>4. ASSUME NEW c \in Ctx PROVE Held(c)' = {k \in exists : cli[k] = c} \ (IF c = op.c THEN {op.h} ELSE {})
    BY <2>1, <2>2 DEF Held, Owners, At
  <2>5. PICK y \in Ctx : y = op.c
    BY <2>1
  <2>6. PICK k \in Handles : k = op.h
    BY <2>1
  <2>7. k \in Held(y) /\ Held(y)' = Held(y) \ {k} /\ \A c \in Ctx : c # y => Held(c)' = Held(c)
    BY <2>3, <2>4, <2>5, <2>6
  <2>8. Kept'
    <3>1. op.c \in live' => cnt'[op.c] >= 1
      <4>1. cnt[y] \in Nat /\ cnt[y] >= 1
        BY <2>7, HolderCounts
      <4>2. cnt'[y] = cnt[y] - 1 /\ (y \in live' => cnt[y] # 1)
        BY <2>1, <2>5, Types DEF Unref
      <4> QED BY <2>5, <4>1, <4>2
    <3> QED BY <2>2, <3>1 DEF Kept
  <2> QED BY <2>1, <2>5, <2>7, <2>8, CountDown
<1>9. CASE StoreNull
  <2>1. /\ op.at = "store" /\ op' = Idle /\ op.h \in Handles /\ exists' = exists
        /\ cli' = [cli EXCEPT ![op.h] = 0] /\ cnt' = cnt /\ live' = live /\ late' = late
    BY <1>9, Known DEF StoreNull, At, asking
  <2>2. Free' /\ Kept'
    BY <2>1 DEF Free, Idle, Kept
  <2>3. ASSUME NEW c \in Ctx PROVE Held(c)' \subseteq Held(c) /\ (~late => Held(c)' = Held(c))
    <3>1. Held(c)' = {k \in exists : cli[k] = c} \ {op.h}
      BY <2>1, <2>2, HeldWhenFreeNext, Types
    <3> QED BY <2>1, <3>1, HeldAtStore
  <2>4. Counted'
    BY <1>01, <2>1, <2>3, CountKept
  <2> QED BY <2>1, <2>2, <2>4 DEF Waiting
<1>10. CASE StoreOther
  <2>0. CASE cli[op.from] \notin live \cup {0}
    BY <1>10, <2>0, CountNothing DEF StoreOther, asking
  <2> SUFFICES ASSUME cli[op.from] \in live \cup {0} PROVE Counted' /\ Kept' /\ Waiting' = Waiting
    BY <2>0
  <2>1. /\ op.at = "store" /\ op' = [at |-> "ref", h |-> op.h, c |-> cli[op.from]] /\ exists' = exists
        /\ cli' = [cli EXCEPT ![op.h] = cli[op.from]] /\ cnt' = cnt /\ live' = live /\ late' = late
    BY <1>10 DEF StoreOther, At, asking
  <2>2. op.h \in Handles /\ op.from \in Handles /\ op.from \in exists
    BY <2>1, Known DEF Operands
  <2>3. ASSUME NEW c \in Ctx PROVE Held(c)' \subseteq Held(c) /\ (~late => Held(c)' = Held(c))
    <3>1. Held(c)' = {k \in exists : cli[k] = c} \ {op.h}
      BY <2>1, <2>2, Types DEF Held, Owners, At
    <3> QED BY <2>1, <3>1, HeldAtStore
  <2>4. Counted'
    BY <1>01, <2>1, <2>3, CountKept
  <2>5. Kept'
    <3> DEFINE x == cli[op.from]
    <3>1. CASE op.from = op.h /\ op.c = x
      BY <2>1, <3>1 DEF Kept
    <3>2. CASE ~(op.from = op.h /\ op.c = x)
      <4>1. x # 0 => x \in Ctx /\ op.from \in Held(x)
        BY <2>1, <2>2, <3>2, Types DEF Held, Owners
      <4>2. x # 0 => cnt[x] >= 1
        BY <4>1, HolderCounts
      <4> QED BY <2>1, <4>2 DEF Kept
    <3> QED BY <3>1, <3>2
  <2> QED BY <2>1, <2>4, <2>5 DEF Waiting
<1>11. CASE StoreConnect
  <2>1. /\ op.at = "store" /\ op'.at \in {"idle", "wait"} /\ op.h \in Handles /\ exists' = exists
        /\ cli' = [cli EXCEPT ![op.h] = IF op.c # 0 THEN 0 ELSE cli[op.h]] /\ cnt' = cnt /\ live' = live /\ late' = late
    BY <1>11, Known DEF StoreConnect, At, Idle
  <2>2. Free' /\ Kept'
    BY <2>1 DEF Free, Kept
  <2>3. ASSUME NEW c \in Ctx PROVE Held(c)' \subseteq Held(c) /\ (~late => Held(c)' = Held(c))
    <3>1. Held(c)' = {k \in exists' : cli'[k] = c}
      BY <2>2, HeldWhenFreeNext
    <3>2. CASE op.c # 0
      <4>1. Held(c)' = {k \in exists : cli[k] = c} \ {op.h}
        BY <2>1, <3>1, <3>2, Types
      <4> QED BY <2>1, <4>1, HeldAtStore
    <3>3. CASE op.c = 0
      <4>1. Held(c)' = {k \in exists : cli[k] = c}
        BY <2>1, <3>1, <3>3, Types
      <4>2. Held(c) = {k \in exists : cli[k] = c}
        BY <2>1, <3>3, HeldWhenFree DEF Free
      <4> QED BY <4>1, <4>2
    <3> QED BY <3>2, <3>3
  <2>4. Counted'
    BY <1>01, <2>1, <2>3, CountKept
  <2> QED BY <2>1, <2>2, <2>4 DEF Waiting
<1>12. CASE AssignRef
  <2>1. /\ op.at = "ref" /\ op' = Idle /\ op.h \in Handles /\ op.c \in Ctx \cup {0} /\ op.h \in exists
        /\ exists' = exists /\ cli' = cli /\ Ref(op.c) /\ live' = live /\ late' = late
    BY <1>12, Known DEF AssignRef, At, Busy, Operands, asking
  <2>2. Free' /\ Kept'
    BY <2>1 DEF Free, Idle, Kept
  <2>3. ASSUME NEW c \in Ctx
        PROVE  /\ Held(c) = {k \in exists : cli[k] = c} \ (IF c = op.c THEN {op.h} ELSE {})
               /\ Held(c)' = {k \in exists : cli[k] = c}
    <3>1. Held(c)' = {k \in exists' : cli'[k] = c}
      BY <2>2, HeldWhenFreeNext
    <3>2. Held(c) = {k \in exists : cli[k] = c} \ (IF c = op.c THEN {op.h} ELSE {})
      BY <2>1 DEF Held, Owners, At
    <3> QED BY <2>1, <3>1, <3>2
  <2>4. CASE op.c = 0
    <3>1. cnt' = cnt
      BY <2>1, <2>4 DEF Ref
    <3>2. \A c \in Ctx : Held(c)' = Held(c)
      BY <2>3, <2>4, Types
    <3>3. Counted'
      BY <1>01, <2>1, <3>1, <3>2, CountKept
    <3> QED BY <2>1, <2>2, <3>1, <3>3 DEF Waiting
  <2>5. CASE op.c # 0
    <3>1. op.c \in Ctx /\ cnt' = [cnt EXCEPT ![op.c] = cnt[op.c] + 1] /\ cnt[op.c] >= 1
      BY <2>1, <2>5 DEF Ref, Kept
    <3>2. PICK y \in Ctx : y = op.c
      BY <3>1
    <3>3. PICK k \in Handles : k = op.h
      BY <2>1
    <3>4. /\ k \notin Held(y) /\ Held(y)' \subseteq Held(y) \cup {k}
          /\ \A c \in Ctx : c # y => Held(c)' = Held(c)
      BY <2>3, <3>2, <3>3
    <3>5. ~late => Held(y)' = Held(y) \cup {k}
      <4>1. ~late => cli[k] = y
        BY <2>1, <3>2, <3>3 DEF OnTime
      <4> QED BY <2>1, <2>3, <3>2, <3>3, <4>1
    <3>6. y \in live /\ cnt' = [cnt EXCEPT ![y] = cnt[y] + 1] /\ cnt[y] >= 1
      BY <3>1, <3>2, Types DEF Counted
    <3>7. Counted'
      BY <2>1, <3>4, <3>5, <3>6, CountUp
    <3>8. Waiting' = Waiting
      BY <2>1, <3>6, WaitingUp
    <3> QED BY <2>2, <3>7, <3>8
  <2> QED BY <2>1, <2>4, <2>5
<1>13. CASE ConnectOk
  <2>1. op.at = "wait" /\ op' = Idle /\ exists' = exists /\ cli' = cli /\ cnt' = cnt /\ live' = live /\ late' = late
    BY <1>13 DEF ConnectOk, At, asking
  <2> QED BY <1>01, <2>1, CountIdle
<1>14. CASE ConnectTimeout
  <2>1. op.at = "wait" /\ op' = Idle /\ exists' = exists /\ cli' = cli /\ cnt' = cnt /\ live' = live /\ (late => late')
    BY <1>14 DEF ConnectTimeout, At
  <2> QED BY <1>01, <2>1, CountIdle
<1> QED BY <1>1, <1>2, <1>3, <1>4, <1>5, <1>6, <1>7, <1>8, <1>9, <1>10, <1>11, <1>12, <1>13, <1>14, <1>15

LEMMA CountOthers ==
  ASSUME HInv, NEW h, NEW p,
         \/ Begin \/ CloseServer \/ AvailableStore \/ StopAll \/ StopAllExcept(h)
         \/ Connected(p) \/ ConnectError(p)
  PROVE  Counted' /\ Kept' /\ Waiting' = Waiting
<1> USE DEF HInv
<1>0. Shape'
  BY ShapeOthers
<1>01. exists' \subseteq Handles
  BY <1>0 DEF Shape, TypeOK
<1>1. CASE Begin
  BY <1>1, CountNothing DEF Begin, asking
<1>2. CASE CloseServer
  BY <1>2, CountNothing DEF CloseServer, asking
<1>3. CASE AvailableStore
  <2>1. op.at = "avail" /\ op' = Idle /\ exists' = exists /\ cli' = cli /\ cnt' = cnt /\ live' = live /\ late' = late
    BY <1>3 DEF AvailableStore, At, asking
  <2> QED BY <1>01, <2>1, CountIdle
<1>4. CASE StopAll
  <2>1. CASE InUse
    BY <1>4, <2>1, CountNothing DEF StopAll, asking
  <2>2. CASE ~InUse
    <3>1. op.at \in {"ref", "copy"} => op.c = 0
      BY <2>2 DEF InUse
    <3> QED BY <1>4, <2>2, <3>1, FreeWhenUnused, CountRelease DEF StopAll, asking
  <2> QED BY <2>1, <2>2
<1>5. CASE StopAllExcept(h)
  <2>1. Free /\ cli[h] \in Ctx \cup {0} /\ op.at = "idle"
    BY <1>5, Types DEF StopAllExcept, Free, At
  <2> QED BY <1>5, <2>1, CountRelease DEF StopAllExcept, asking
<1>6. CASE Connected(p)
  <2>1. CASE p.h \notin exists
    BY <1>6, <2>1, CountNothing DEF Connected
  <2>2. CASE p.h \in exists
    <3>1. /\ p \in pend /\ made < MaxCtx /\ made \in Nat /\ live' = live \cup {made + 1}
          /\ cnt' = [cnt EXCEPT ![made + 1] = 1] /\ cli' = [cli EXCEPT ![p.h] = made + 1]
          /\ exists' = exists /\ op' = op /\ late' = late
      BY <1>6, <2>2, Types DEF Connected
    <3>2. PICK n \in Ctx : n = made + 1
      BY <3>1, HandlesAssumption DEF Ctx
    <3>3. PICK k \in exists : k = p.h /\ k \in Handles
      BY <2>2, Types
    <3>4. cnt[n] = 0 /\ n \notin live /\ (op.at \in Busy => op.c # n)
      BY <3>1, <3>2, Known, Types
    <3>5. cnt'[n] = 1 /\ \A c \in Ctx : c # n => cnt'[c] = cnt[c]
      BY <3>1, <3>2, Types
    <3>6. Held(n)' = {k}
      <4>1. Held(n) = {}
        <5>1. Cardinality(Held(n)) <= 0
          BY <3>4 DEF Counted
        <5> QED BY <5>1, HeldFinite, Types
      <4>2. \A j \in Handles : cli'[j] = IF j = k THEN n ELSE cli[j]
        BY <3>1, <3>2, <3>3, Types
      <4>3. Owners(n)' = {k}
        <5>1. \A j \in exists : j # k => cli[j] # n
          BY <3>4, <4>1 DEF Held, Owners, Busy
        <5> QED BY <3>1, <3>3, <3>4, <4>2, <5>1, Types DEF Owners, Busy
      <4> QED BY <3>1, <3>4, <4>3 DEF Held, At, Busy
    <3>7. ASSUME NEW c \in Ctx, c # n
          PROVE  Held(c)' \subseteq Held(c) /\ (~late => Held(c)' = Held(c))
      <4>1. \A j \in Handles : cli'[j] = IF j = k THEN n ELSE cli[j]
        BY <3>1, <3>2, <3>3, Types
      <4>2. Held(c)' \subseteq Held(c)
        BY <3>1, <3>7, <4>1, Types DEF Held, Owners, At
      <4>3. ASSUME ~late PROVE Held(c) \subseteq Held(c)'
        <5>1. op.at = "wait" /\ cli[k] = 0
          BY <3>1, <3>3, <4>3 DEF OnTime, At
        <5>2. c # 0
          BY Types
        <5> QED BY <3>1, <4>1, <5>1, <5>2, Types DEF Held, Owners, At
      <4> QED BY <4>2, <4>3
    <3>8. Counted'
      <4>1. ASSUME NEW c \in Ctx, c # n
            PROVE  /\ Cardinality(Held(c)') <= cnt'[c]
                   /\ ~late' => cnt'[c] = Cardinality(Held(c)')
                   /\ cnt'[c] > 0 => c \in live'
        <5> DEFINE S == Held(c)
                   T == Held(c)'
        <5>1. IsFiniteSet(S) /\ Cardinality(S) \in Nat /\ T \subseteq S /\ (~late => T = S)
          BY <3>7, <4>1, HeldFinite, Types
        <5>2. Cardinality(S) <= cnt[c] /\ (~late => cnt[c] = Cardinality(S)) /\ (cnt[c] > 0 => c \in live)
          BY DEF Counted
        <5>3. cnt'[c] = cnt[c] /\ cnt[c] \in Nat
          BY <3>5, <4>1, Types
        <5> HIDE DEF S, T
        <5>4. Cardinality(T) <= Cardinality(S) /\ Cardinality(T) \in Nat
          BY <5>1, FS_Subset, FS_CardinalityType
        <5>5. Cardinality(T) <= cnt'[c] /\ (~late => cnt'[c] = Cardinality(T))
          BY <5>1, <5>2, <5>3, <5>4
        <5> QED BY <3>1, <5>2, <5>3, <5>5 DEF T
      <4>2. /\ Cardinality(Held(n)') = 1 /\ cnt'[n] = 1 /\ n \in live'
        BY <3>1, <3>2, <3>5, <3>6, FS_Singleton
      <4> QED BY <4>1, <4>2 DEF Counted
    <3>9. Kept'
      <4>1. op.at \in Busy => op.c # n /\ (op.c # 0 => cnt'[op.c] = cnt[op.c])
        BY <3>4, <3>5, Known
      <4>2. op.at = "store" /\ op.c \in live' => op.c \in live /\ op.c # 0
        BY <3>1, <3>2, <4>1, Types DEF Busy
      <4> QED BY <3>1, <4>1, <4>2 DEF Kept, Busy
    <3>10. Waiting' = Waiting
      BY <3>1, <3>2, <3>4, <3>5, Types DEF Waiting
    <3> QED BY <3>8, <3>9, <3>10
  <2> QED BY <2>1, <2>2
<1>7. CASE ConnectError(p)
  BY <1>7, CountNothing DEF ConnectError
<1> QED BY <1>1, <1>2, <1>3, <1>4, <1>5, <1>6, <1>7

\* available() counts the WiFiClient it makes; an accepted context waits.
LEMMA CountServer ==
  ASSUME HInv, NEW h, (h \in Handles /\ Available(h)) \/ Accept
  PROVE  /\ Counted' /\ Kept'
         /\ Available(h) => Waiting' = Waiting \ {head} /\ cnt'[head] >= 1
         /\ Accept => Waiting' = Waiting \cup {made + 1}
<1> USE DEF HInv
<1>0. Shape'
  BY ShapeOthers
<1>01. exists' \subseteq Handles
  BY <1>0 DEF Shape, TypeOK
<1>1. CASE h \in Handles /\ Available(h)
  <2>1. /\ op.at = "idle" /\ op'.at = "avail" /\ h \notin exists /\ head # 0 /\ exists' = exists \cup {h}
        /\ cli' = [cli EXCEPT ![h] = head] /\ Ref(head) /\ live' = live /\ late' = late
    BY <1>1 DEF Available, At, asking
  <2>2. Free /\ Free' /\ Kept'
    BY <2>1 DEF Free, Kept
  <2>3. PICK y \in Ctx : y = head
    BY <2>1, Types
  <2>4. ASSUME NEW c \in Ctx
        PROVE  Held(c)' = (IF c = y THEN Held(c) \cup {h} ELSE Held(c)) /\ h \notin Held(c)
    <3>1. Held(c) = {k \in exists : cli[k] = c} /\ Held(c)' = {k \in exists' : cli'[k] = c}
      BY <2>2, HeldWhenFree, HeldWhenFreeNext
    <3> QED BY <1>1, <2>1, <2>3, <3>1, Types
  <2>5. y \in Chain /\ y \in Waiting
    <3>1. y \in Chain
      BY <2>1, <2>3, ChainClosed DEF Closed
    <3> QED BY <2>1, <3>1 DEF Unclaimed, At
  <2>6. y \in live /\ cnt[y] = 0 /\ cnt' = [cnt EXCEPT ![y] = cnt[y] + 1]
    BY <2>1, <2>3, <2>5 DEF Waiting, Ref
  <2>7. Counted'
    BY <1>1, <2>1, <2>4, <2>6, CountUp
  <2>8. Waiting' = Waiting \ {y} /\ cnt'[y] >= 1
    BY <2>1, <2>6, Types DEF Waiting
  <2>9. ~Accept
    BY <2>1 DEF Accept
  <2> QED BY <2>2, <2>3, <2>7, <2>8, <2>9
<1>2. CASE Accept
  <2>1. /\ made < MaxCtx /\ made \in Nat /\ live' = live \cup {made + 1} /\ cnt' = cnt
        /\ exists' = exists /\ cli' = cli /\ op' = op /\ late' = late
    BY <1>2, Types DEF Accept, asking
  <2>2. Counted'
    BY <1>01, <2>1, HeldSame, CountKept
  <2>3. Kept'
    <3>1. op.at = "store" => op.c # made + 1
      BY <2>1, Known, Types DEF Busy
    <3> QED BY <2>1, <3>1 DEF Kept
  <2>4. Waiting' = Waiting \cup {made + 1}
    <3>1. made + 1 \in Ctx /\ made + 1 > made
      BY <2>1, HandlesAssumption DEF Ctx
    <3>2. cnt[made + 1] = 0
      BY <3>1, Known
    <3> QED BY <2>1, <3>2 DEF Waiting
  <2>5. ~Available(h)
    BY <1>2, <2>1 DEF Available, Accept
  <2> QED BY <2>2, <2>3, <2>4, <2>5
<1> QED BY <1>1, <1>2
-------------------------------------------------------------------------------
(* The chain and the claims: the step of every action. *)

LEMMA ChainKept ==
  ASSUME HInv, UNCHANGED <<head, nxt, raced, claimed>>, made' >= made, made' \in Nat, Waiting' = Waiting,
         \/ op.at # "avail" /\ op'.at # "avail"
         \/ op' = op /\ cnt' = cnt
         \/ op' = op /\ (op.at = "avail" => cnt'[head] >= 1)
  PROVE  Unclaimed' /\ Claims'
<1>1. Chain' = Chain
  BY ChainSame
<1>2. op.at = "avail" <=> op'.at = "avail"
  OBVIOUS
<1>3. Unclaimed'
  <2>1. \A c \in Chain : (op.at = "avail" => c # head) => c \in Waiting
    BY DEF HInv, Unclaimed, At
  <2>2. ~raced => Waiting \subseteq Chain
    BY DEF HInv, Unclaimed
  <2>3. op.at = "avail" => head # 0 /\ cnt'[head] >= 1 /\ (op'.c = nxt[head] \/ (raced /\ op'.c = 0))
    BY DEF HInv, Unclaimed, At
  <2> QED BY <1>1, <1>2, <2>1, <2>2, <2>3 DEF Unclaimed, At
<1>4. Claims'
  <2>1. \A i \in 1..Len(claimed) : claimed[i] <= made'
    <3>1. \A i \in 1..Len(claimed) : claimed[i] <= made /\ claimed[i] \in Nat /\ made \in Nat
      BY Types, ElementOfSeq DEF HInv, Claims
    <3> QED BY <3>1
  <2> QED BY <1>2, <2>1 DEF HInv, Claims, ClaimedOnceInOrder, At
<1> QED BY <1>3, <1>4

LEMMA ChainLoop ==
  ASSUME HInv, NEW h \in Handles, NEW g \in Handles,
         \/ Construct(h) \/ AddNext \/ CopyLoad(h, g) \/ CopyRef
         \/ Destroy(h) \/ Stop(h) \/ Assign(h, g) \/ Connect(h) \/ DropRef
         \/ StoreNull \/ StoreOther \/ StoreConnect \/ AssignRef \/ ConnectOk \/ ConnectTimeout
  PROVE  Unclaimed' /\ Claims'
<1>1. Waiting' = Waiting
  BY CountLoop
<1>2. UNCHANGED <<head, nxt, raced, claimed, made>>
  BY DEF Construct, AddNext, CopyLoad, CopyRef, Destroy, Stop, Assign, Connect, DropRef, StoreNull, StoreOther,
         StoreConnect, AssignRef, ConnectOk, ConnectTimeout, server
<1>3. op.at # "avail"
  BY DEF Construct, AddNext, CopyLoad, CopyRef, Destroy, Stop, Assign, Connect, DropRef, StoreNull, StoreOther,
         StoreConnect, AssignRef, ConnectOk, ConnectTimeout, At
<1>4. op'.at # "avail"
  <2>1. CASE Construct(h) \/ Destroy(h)
    BY <1>3, <2>1 DEF Construct, Destroy
  <2>2. CASE CopyLoad(h, g)
    BY <2>2 DEF CopyLoad
  <2>3. CASE AddNext \/ CopyRef \/ StoreNull \/ AssignRef \/ ConnectOk \/ ConnectTimeout
    BY <2>3 DEF AddNext, CopyRef, StoreNull, AssignRef, ConnectOk, ConnectTimeout, Idle
  <2>4. CASE Stop(h) \/ Assign(h, g) \/ Connect(h)
    BY <2>4 DEF Stop, Assign, Connect, Drop
  <2>5. CASE DropRef
    <3>1. op' = [op EXCEPT !.at = "store"] /\ op.at = "unref"
      BY <2>5 DEF DropRef, At
    <3> QED BY <3>1, Known DEF HInv, Places, Idle
  <2>6. CASE StoreOther
    <3>1. op' = op \/ op' = [at |-> "ref", h |-> op.h, c |-> cli[op.from]]
      BY <2>6 DEF StoreOther
    <3> QED BY <1>3, <3>1
  <2>7. CASE StoreConnect
    BY <2>7 DEF StoreConnect, Idle
  <2> QED BY <2>1, <2>2, <2>3, <2>4, <2>5, <2>6, <2>7
<1>5. made \in Nat
  BY Types DEF HInv
<1> QED BY <1>1, <1>2, <1>3, <1>4, <1>5, ChainKept

LEMMA ChainOthers ==
  ASSUME HInv, NEW h, NEW p,
         \/ Begin \/ CloseServer \/ StopAll \/ StopAllExcept(h) \/ Connected(p) \/ ConnectError(p)
  PROVE  Unclaimed' /\ Claims'
<1>1. Waiting' = Waiting
  BY CountOthers
<1>2. UNCHANGED <<head, nxt, raced, claimed, op>>
  BY DEF Begin, CloseServer, StopAll, StopAllExcept, Connected, ConnectError, server
<1>3. made \in Nat /\ made' \in Nat /\ made' >= made
  <2>1. made \in Nat
    BY Types DEF HInv
  <2>2. made' = made \/ made' = made + 1
    BY DEF Begin, CloseServer, StopAll, StopAllExcept, Connected, ConnectError, server
  <2> QED BY <2>1, <2>2
<1>4. op.at = "avail" => cnt'[head] >= 1
  <2> SUFFICES ASSUME op.at = "avail" PROVE cnt'[head] >= 1
    OBVIOUS
  <2>1. cnt[head] >= 1 /\ head \in Ctx /\ head <= made
    BY Types, Known DEF HInv, Unclaimed, At, Made
  <2>2. CASE Begin \/ CloseServer \/ StopAllExcept(h)
    BY <2>2 DEF Begin, CloseServer, StopAllExcept, At
  <2>3. CASE StopAll
    BY <2>1, <2>3 DEF StopAll, InUse, At
  <2>4. CASE Connected(p)
    <3>1. cnt' = cnt \/ cnt' = [cnt EXCEPT ![made + 1] = 1]
      BY <2>4 DEF Connected
    <3>2. head # made + 1
      BY <1>3, <2>1, Types DEF HInv
    <3> QED BY <2>1, <3>1, <3>2, Types DEF HInv
  <2>5. CASE ConnectError(p)
    BY <2>1, <2>5 DEF ConnectError
  <2> QED BY <2>2, <2>3, <2>4, <2>5
<1> QED BY <1>1, <1>2, <1>3, <1>4, ChainKept

\* The numbers available() has handed out.
LEMMA ClaimNumbers ==
  ASSUME HInv
  PROVE  /\ claimed \in Seq(Ctx) /\ Len(claimed) \in Nat /\ made \in Nat /\ head \in Nat
         /\ \A i \in 1..Len(claimed) : claimed[i] \in Nat /\ claimed[i] <= made
  BY Types, ElementOfSeq DEF HInv, Claims

\* Only the successor of the last of the chain is written.
LEMMA LinkKeeps ==
  ASSUME Shape, head # 0, Link(made + 1)
  PROVE  nxt'[head] = nxt[head] \/ nxt[head] = 0
<1>1. PICK d \in Chain : nxt[d] = 0 /\ nxt' = [nxt EXCEPT ![d] = made + 1]
  BY ChainEnds DEF Link
<1> QED BY <1>1, Types

LEMMA ChainServer ==
  ASSUME HInv, NEW h, (h \in Handles /\ Available(h)) \/ AvailableStore \/ Accept
  PROVE  Unclaimed' /\ Claims'
<1>0. Shape /\ Unclaimed /\ Claims
  BY DEF HInv
<1>1. CASE h \in Handles /\ Available(h)
  <2>1. /\ op.at = "idle" /\ op'.at = "avail" /\ op'.c = nxt[head] /\ head # 0
        /\ head' = head /\ nxt' = nxt /\ raced' = raced /\ made' = made /\ claimed' = Append(claimed, head)
    BY <1>1 DEF Available, At
  <2>2. Waiting' = Waiting \ {head} /\ cnt'[head] >= 1
    BY <1>1, CountServer
  <2>3. Chain' = Chain
    BY <2>1, ChainSame
  <2>4. Unclaimed'
    BY <1>0, <2>1, <2>2, <2>3 DEF Unclaimed, At
  <2>5. Claims'
    <3>1. head \in Ctx /\ head <= made /\ \A i \in 1..Len(claimed) : claimed[i] < head
      BY <1>0, <2>1, Types, Known DEF Claims, At, Made
    <3>2. /\ Len(claimed') = Len(claimed) + 1 /\ claimed'[Len(claimed) + 1] = head
          /\ \A i \in 1..Len(claimed) : claimed'[i] = claimed[i]
      BY <2>1, <3>1, ClaimNumbers
    <3>3. ASSUME NEW i \in 1..Len(claimed') PROVE claimed'[i] <= head /\ claimed'[i] <= made
      <4>1. CASE i = Len(claimed) + 1
        BY <3>1, <3>2, <4>1, ClaimNumbers
      <4>2. CASE i # Len(claimed) + 1
        <5>1. i \in 1..Len(claimed)
          BY <3>2, <4>2, ClaimNumbers
        <5> QED BY <3>1, <3>2, <5>1, ClaimNumbers
      <4> QED BY <4>1, <4>2
    <3>4. ASSUME NEW i \in 1..Len(claimed'), NEW j \in 1..Len(claimed'), i < j PROVE claimed'[i] < claimed'[j]
      <4>1. i \in 1..Len(claimed)
        BY <3>2, <3>4, ClaimNumbers
      <4>2. CASE j = Len(claimed) + 1
        BY <3>1, <3>2, <4>1, <4>2
      <4>3. CASE j # Len(claimed) + 1
        <5>1. j \in 1..Len(claimed)
          BY <3>2, <4>3, ClaimNumbers
        <5> QED BY <1>0, <3>2, <3>4, <4>1, <5>1 DEF Claims, ClaimedOnceInOrder
      <4> QED BY <4>2, <4>3
    <3> QED BY <2>1, <3>3, <3>4 DEF Claims, ClaimedOnceInOrder, At
  <2> QED BY <2>4, <2>5
<1>2. CASE AvailableStore
  <2>1. /\ op.at = "avail" /\ op' = Idle /\ op'.at = "idle" /\ head' = op.c /\ nxt' = nxt /\ raced' = raced
        /\ made' = made /\ claimed' = claimed
    BY <1>2 DEF AvailableStore, At, Idle
  <2>2. head # 0 /\ cnt[head] >= 1 /\ (op.c = nxt[head] \/ (raced /\ op.c = 0)) /\ head \in Ctx
    BY <1>0, <2>1, Types DEF Unclaimed, At
  <2>3. Waiting' = Waiting
    BY <1>2, CountOthers
  <2>4. Chain' \subseteq Chain \ {head} /\ (op.c = nxt[head] => Chain \subseteq Chain' \cup {head})
    BY <1>0, <2>1, <2>2, Unlinked
  <2>5. head \notin Waiting
    BY <1>0, <2>2, Types DEF Waiting
  <2>6. Unclaimed'
    <3>1. \A c \in Chain' : c \in Waiting'
      BY <1>0, <2>1, <2>3, <2>4 DEF Unclaimed, At
    <3>2. ~raced' => Waiting' \subseteq Chain'
      BY <1>0, <2>1, <2>2, <2>3, <2>4, <2>5 DEF Unclaimed
    <3> QED BY <2>1, <3>1, <3>2 DEF Unclaimed, At
  <2>7. Claims'
    <3>1. ASSUME op.c # 0, NEW i \in 1..Len(claimed) PROVE claimed[i] < op.c
      <4>1. op.c = nxt[head] /\ head < op.c /\ op.c \in Nat
        BY <1>0, <2>2, <3>1, Types, Known DEF Made
      <4>2. claimed[i] <= head
        BY <1>0, <2>2 DEF Claims
      <4> QED BY <4>1, <4>2, ClaimNumbers
    <3>2. ASSUME op.c # 0, NEW i \in 1..Len(claimed) PROVE claimed[i] <= op.c
      <4>1. op.c \in Nat
        BY <1>0, <2>2, <3>2, Types
      <4> QED BY <3>1, <3>2, <4>1, ClaimNumbers
    <3> QED BY <1>0, <2>1, <3>1, <3>2 DEF Claims, ClaimedOnceInOrder
  <2> QED BY <2>6, <2>7
<1>3. CASE Accept
  <2>1. /\ made < MaxCtx /\ made' = made + 1 /\ Link(made + 1) /\ raced' = (raced \/ At("avail"))
        /\ op' = op /\ cnt' = cnt /\ claimed' = claimed
    BY <1>3 DEF Accept
  <2>2. /\ Chain' = Chain \cup {made + 1} /\ (head = 0 => head' = made + 1) /\ (head # 0 => head' = head)
        /\ made + 1 \in Ctx
    BY <1>0, <2>1, Linked
  <2>3. Waiting' = Waiting \cup {made + 1}
    BY <1>3, CountServer
  <2>4. made \in Nat /\ (head # 0 => head <= made)
    BY <1>0, Types, Known DEF Made
  <2>5. Unclaimed'
    <3>1. ASSUME NEW c \in Chain', At("avail")' => c # head' PROVE c \in Waiting'
      <4>1. CASE c = made + 1
        BY <2>3, <4>1
      <4>2. CASE c # made + 1
        <5>1. c \in Chain /\ (At("avail") => c # head)
          BY <1>0, <2>1, <2>2, <3>1, <4>2 DEF At, Unclaimed
        <5> QED BY <1>0, <2>3, <5>1 DEF Unclaimed
      <4> QED BY <4>1, <4>2
    <3>2. ~raced' => Waiting' \subseteq Chain'
      BY <1>0, <2>1, <2>2, <2>3 DEF Unclaimed
    <3>3. ASSUME At("avail")' PROVE head' # 0 /\ cnt'[head'] >= 1 /\ (op'.c = nxt'[head'] \/ (raced' /\ op'.c = 0))
      <4>1. At("avail") /\ head # 0 /\ cnt[head] >= 1 /\ (op.c = nxt[head] \/ (raced /\ op.c = 0)) /\ raced' = TRUE
        BY <1>0, <2>1, <3>3 DEF Unclaimed, At
      <4>2. head' = head
        BY <2>2, <4>1
      <4>3. nxt'[head] = nxt[head] \/ nxt[head] = 0
        BY <1>0, <2>1, <4>1, LinkKeeps
      <4> QED BY <2>1, <4>1, <4>2, <4>3
    <3> QED BY <3>1, <3>2, <3>3 DEF Unclaimed
  <2>6. Claims'
    <3>1. \A i \in 1..Len(claimed) : claimed[i] <= made + 1 /\ claimed[i] < made + 1
      BY ClaimNumbers
    <3>2. op.at = "avail" => head # 0
      BY <1>0 DEF Unclaimed, At
    <3> QED BY <1>0, <2>1, <2>2, <3>1, <3>2 DEF Claims, ClaimedOnceInOrder, At
  <2> QED BY <2>5, <2>6
<1> QED BY <1>1, <1>2, <1>3
-------------------------------------------------------------------------------
(* Answers: the step of every action. *)

LEMMA TimeLoop ==
  ASSUME HInv, NEW h \in Handles, NEW g \in Handles,
         \/ Construct(h) \/ AddNext \/ CopyLoad(h, g) \/ CopyRef
         \/ Destroy(h) \/ Stop(h) \/ Assign(h, g) \/ Connect(h) \/ DropRef
         \/ StoreNull \/ StoreOther \/ StoreConnect \/ AssignRef \/ ConnectOk \/ ConnectTimeout
  PROVE  OnTime'
<1> SUFFICES ASSUME ~late' PROVE OnTime'
  BY DEF OnTime
<1>0. late => late'
  <2>1. CASE ConnectTimeout
    BY <2>1 DEF ConnectTimeout
  <2>2. CASE ~ConnectTimeout
    <3>1. late' = late
      BY <2>2 DEF Construct, AddNext, CopyLoad, CopyRef, Destroy, Stop, Assign, Connect, DropRef, StoreNull, StoreOther,
                  StoreConnect, AssignRef, ConnectOk, asking
    <3> QED BY <3>1
  <2> QED BY <2>1, <2>2
<1>1. ~late /\ Shape /\ Operands
  BY <1>0, Known DEF HInv
<1>2. /\ \A p \in pend : op.at = "wait" /\ p.h = op.h /\ p.id = calls /\ cli[op.h] = 0
      /\ op.at \in {"unref", "store", "ref"} => cli[op.h] = op.c
  BY <1>1 DEF HInv, OnTime, At
<1>3. op.at # "wait" => pend = {}
  BY <1>2
<1>4. CASE Construct(h) \/ Destroy(h)
  <2>1. op'.at \in {"idle", "add"} /\ op.at = "idle" /\ pend' = pend
    BY <1>4 DEF Construct, Destroy, asking, At
  <2> QED BY <1>3, <2>1 DEF OnTime, At
<1>5. CASE CopyLoad(h, g)
  <2>1. op'.at = "copy" /\ op.at = "idle" /\ pend' = pend
    BY <1>5 DEF CopyLoad, asking, At
  <2> QED BY <1>3, <2>1 DEF OnTime, At
<1>6. CASE AddNext \/ CopyRef \/ StoreNull \/ AssignRef
  <2>1. op'.at \in {"idle", "add"} /\ op.at # "wait" /\ pend' = pend
    BY <1>6 DEF AddNext, CopyRef, StoreNull, AssignRef, asking, At, Idle
  <2> QED BY <1>3, <2>1 DEF OnTime, At
<1>7. CASE Stop(h) \/ Assign(h, g) \/ Connect(h)
  <2>1. op'.at \in {"store", "unref"} /\ op'.h = h /\ op'.c = cli[h] /\ op.at = "idle" /\ pend' = pend /\ cli' = cli
    BY <1>7 DEF Stop, Assign, Connect, Drop, asking, At
  <2> QED BY <1>3, <2>1 DEF OnTime, At
<1>8. CASE DropRef
  <2>1. op' = [op EXCEPT !.at = "store"] /\ op.at = "unref" /\ pend' = pend /\ cli' = cli
    BY <1>8 DEF DropRef, asking, At
  <2>2. op'.at = "store" /\ op'.h = op.h /\ op'.c = op.c
    BY <1>1, <2>1, Known DEF Places, Idle
  <2> QED BY <1>2, <1>3, <2>1, <2>2 DEF OnTime, At
<1>9. CASE StoreOther
  <2>0. CASE cli[op.from] \notin live \cup {0}
    <3>1. UNCHANGED <<cli, op, pend, origin, calls>>
      BY <1>9, <2>0 DEF StoreOther, server, asking
    <3> QED BY <1>0, <1>1, <3>1 DEF HInv, OnTime, At
  <2> SUFFICES ASSUME cli[op.from] \in live \cup {0} PROVE OnTime'
    BY <2>0
  <2>1. op'.at = "ref" /\ op'.h = op.h /\ op'.c = cli[op.from] /\ op.at = "store" /\ pend' = pend /\ cli' = [cli EXCEPT ![op.h] = cli[op.from]]
    BY <1>9 DEF StoreOther, asking, At
  <2>2. op.h \in Handles
    BY <1>1, <2>1, Known
  <2>3. cli'[op.h] = cli[op.from]
    BY <1>1, <2>1, <2>2, Types
  <2> QED BY <1>3, <2>1, <2>3 DEF OnTime, At
<1>10. CASE StoreConnect
  <2>1. op.at = "store" /\ cli' = [cli EXCEPT ![op.h] = IF op.c # 0 THEN 0 ELSE cli[op.h]]
    BY <1>10 DEF StoreConnect, At
  <2>2. op.h \in Handles /\ cli[op.h] = op.c
    BY <1>1, <1>2, <2>1, Known
  <2>3. cli'[op.h] = 0
    BY <1>1, <2>1, <2>2, Types
  <2>4. CASE op' = Idle /\ UNCHANGED pend
    BY <1>3, <2>1, <2>4 DEF OnTime, At, Idle
  <2>5. CASE calls' = calls + 1 /\ pend' = pend \cup {[h |-> op.h, id |-> calls + 1]} /\ op' = [at |-> "wait", h |-> op.h]
    <3>1. pend' = {[h |-> op.h, id |-> calls + 1]}
      BY <1>3, <2>1, <2>5
    <3>2. op'.at = "wait" /\ op'.h = op.h
      BY <2>5
    <3>3. cli'[op'.h] = 0
      BY <2>3, <3>2
    <3> QED BY <2>5, <3>1, <3>2, <3>3 DEF OnTime, At
  <2> QED BY <1>10, <2>4, <2>5 DEF StoreConnect
<1>11. CASE ConnectOk
  <2>1. op.at = "wait" /\ op'.at = "idle" /\ cli[op.h] # 0 /\ pend' = pend
    BY <1>11 DEF ConnectOk, asking, At, Idle
  <2>2. pend = {}
    BY <1>2, <2>1
  <2> QED BY <2>1, <2>2 DEF OnTime, At
<1>12. CASE ConnectTimeout
  <2>1. op'.at = "idle" /\ pend' = pend /\ ~(\E p \in pend : p.h = op.h)
    BY <1>12 DEF ConnectTimeout, Idle
  <2>2. pend = {}
    BY <1>2, <2>1
  <2> QED BY <2>1, <2>2 DEF OnTime, At
<1> QED BY <1>4, <1>5, <1>6, <1>7, <1>8, <1>9, <1>10, <1>11, <1>12

LEMMA TimeOthers ==
  ASSUME HInv, NEW h, NEW p,
         \/ Begin \/ CloseServer \/ AvailableStore \/ StopAll \/ StopAllExcept(h)
         \/ (h \in Handles /\ Available(h))
         \/ Accept \/ Connected(p) \/ ConnectError(p)
  PROVE  OnTime'
<1> SUFFICES ASSUME ~late' PROVE OnTime'
  BY DEF OnTime
<1>0. late' = late
  BY DEF Begin, CloseServer, AvailableStore, StopAll, StopAllExcept, Available, Accept, Connected, ConnectError, asking
<1>1. ~late /\ Shape /\ Operands
  BY <1>0, Known DEF HInv
<1>2. /\ \A q \in pend : op.at = "wait" /\ q.h = op.h /\ q.id = calls /\ cli[op.h] = 0
      /\ op.at = "wait" /\ cli[op.h] # 0 => origin[cli[op.h]] = calls
      /\ op.at \in {"unref", "store", "ref"} => cli[op.h] = op.c
  BY <1>1 DEF HInv, OnTime, At
<1>3. op.at # "wait" => pend = {}
  BY <1>2
<1>4. CASE Begin \/ CloseServer \/ StopAllExcept(h)
  <2>1. op' = op /\ op.at = "idle" /\ pend' = pend
    BY <1>4 DEF Begin, CloseServer, StopAllExcept, asking, At
  <2> QED BY <1>3, <2>1 DEF OnTime, At
<1>5. CASE AvailableStore \/ (h \in Handles /\ Available(h))
  <2>1. op'.at \in {"idle", "avail"} /\ op.at \in {"idle", "avail"} /\ pend' = pend
    BY <1>5 DEF AvailableStore, Available, asking, At, Idle
  <2> QED BY <1>3, <2>1 DEF OnTime, At
<1>6. CASE Accept
  <2>1. op' = op /\ cli' = cli /\ pend' = pend /\ origin' = origin /\ calls' = calls
    BY <1>6 DEF Accept, asking
  <2> QED BY <1>2, <2>1 DEF OnTime, At
<1>7. CASE StopAll
  <2>1. op' = op /\ pend' = pend /\ origin' = origin /\ calls' = calls
    BY <1>7 DEF StopAll, asking, server
  <2>2. CASE InUse
    BY <1>2, <1>7, <2>1, <2>2 DEF StopAll, OnTime, At
  <2>3. CASE ~InUse
    <3>1. op.at \in {"wait", "unref", "store", "ref"} => op.h \in exists /\ op.h \in Handles
      BY <1>1, Known DEF Operands
    <3>2. cli' = [k \in Handles |-> IF k \in Dropped(0) THEN 0 ELSE cli[k]]
      BY <1>7, <2>3 DEF StopAll, Release
    <3>3. op.at \in {"wait", "unref", "store", "ref"} => cli'[op.h] = 0
      BY <3>1, <3>2 DEF Dropped, Listed, At
    <3>4. op.at \in {"unref", "store", "ref"} => op.c = 0
      BY <2>3 DEF InUse
    <3> QED BY <1>2, <2>1, <3>3, <3>4 DEF OnTime, At
  <2> QED BY <2>2, <2>3
<1>8. CASE Connected(p)
  <2>1. /\ p \in pend /\ pend' = pend \ {p} /\ op' = op /\ calls' = calls
        /\ op.at = "wait" /\ p.h = op.h /\ p.id = calls /\ op.h \in exists /\ op.h \in Handles
    BY <1>1, <1>2, <1>8, Known DEF Connected, Operands
  <2>2. /\ made < MaxCtx /\ origin' = [origin EXCEPT ![made + 1] = p.id] /\ cli' = [cli EXCEPT ![p.h] = made + 1]
    BY <1>8, <2>1 DEF Connected
  <2>3. pend' = {}
    <3>1. ASSUME NEW q \in pend PROVE q = p
      <4>1. q.h = p.h /\ q.id = p.id
        BY <1>2, <2>1
      <4>2. pend \subseteq [h : Handles, id : 1..MaxConnects]
        BY <1>1, Known
      <4> QED BY <2>1, <4>1, <4>2
    <3> QED BY <2>1, <3>1
  <2>4. cli'[op.h] = made + 1
    BY <1>1, <2>1, <2>2, Types
  <2>5. origin'[made + 1] = calls
    <3>1. made + 1 \in Ctx
      BY <1>1, <2>2, Types, HandlesAssumption DEF Ctx
    <3>2. origin \in [Ctx -> 0..MaxConnects]
      BY <1>1, Known DEF TypeOK
    <3> QED BY <2>1, <2>2, <3>1, <3>2
  <2> QED BY <2>1, <2>3, <2>4, <2>5 DEF OnTime, At
<1>9. CASE ConnectError(p)
  <2>1. pend' \subseteq pend /\ op' = op /\ cli' = cli /\ origin' = origin /\ calls' = calls
    BY <1>9 DEF ConnectError, server
  <2> QED BY <1>2, <2>1 DEF OnTime, At
<1> QED BY <1>4, <1>5, <1>6, <1>7, <1>8, <1>9

-------------------------------------------------------------------------------
(* The invariant and what follows from it. *)

LEMMA HInvInit == Init => HInv
<1> SUFFICES ASSUME Init PROVE HInv
  OBVIOUS
<1>1. Shape
  BY ShapeInit
<1>2. Counted
  <2>1. ASSUME NEW c \in Ctx PROVE Held(c) = {}
    BY DEF Init, Held, Owners, Idle, At
  <2>2. ASSUME NEW c \in Ctx
        PROVE  Cardinality(Held(c)) <= cnt[c] /\ cnt[c] = Cardinality(Held(c)) /\ ~(cnt[c] > 0)
    <3>1. cnt[c] = 0 /\ Cardinality(Held(c)) = 0
      BY <2>1, FS_EmptySet DEF Init
    <3> QED BY <3>1
  <2> QED BY <2>2 DEF Counted
<1>3. Kept
  BY DEF Init, Kept, Idle
<1>4. Unclaimed
  <2>1. Chain = {} /\ Waiting = {}
    BY <1>1, ChainClosed DEF Init, Waiting
  <2> QED BY <2>1 DEF Unclaimed, Init, Idle, At
<1>5. Claims
  BY DEF Claims, Init, ClaimedOnceInOrder
<1>6. OnTime
  BY DEF OnTime, Init, Idle, At
<1> QED BY <1>1, <1>2, <1>3, <1>4, <1>5, <1>6 DEF HInv

LEMMA HInvStutter == HInv /\ UNCHANGED vars => HInv'
<1> SUFFICES ASSUME HInv, UNCHANGED vars PROVE HInv'
  OBVIOUS
<1>1. Shape'
  BY DEF vars, HInv, Shape, TypeOK, Places, Operands, Made, At
<1>2. Counted' /\ Kept' /\ Waiting' = Waiting
  BY CountNothing DEF vars
<1>3. Unclaimed' /\ Claims'
  <2>1. made \in Nat /\ made >= made
    BY Types DEF HInv
  <2> QED BY <1>2, <2>1, ChainKept DEF vars
<1>4. OnTime'
  BY DEF vars, HInv, OnTime, At
<1> QED BY <1>1, <1>2, <1>3, <1>4 DEF HInv

LEMMA HInvNext == HInv /\ Next => HInv'
<1> SUFFICES ASSUME HInv, Next PROVE HInv'
  OBVIOUS
<1>1. ASSUME NEW h \in Handles, NEW g \in Handles,
             \/ Construct(h) \/ AddNext \/ CopyLoad(h, g) \/ CopyRef
             \/ Destroy(h) \/ Stop(h) \/ Assign(h, g) \/ Connect(h) \/ DropRef
             \/ StoreNull \/ StoreOther \/ StoreConnect \/ AssignRef \/ ConnectOk \/ ConnectTimeout
      PROVE  HInv'
  BY <1>1, ShapeLoop, CountLoop, ChainLoop, TimeLoop DEF HInv
<1>2. ASSUME NEW h, NEW p,
             \/ Begin \/ CloseServer \/ AvailableStore \/ StopAll \/ StopAllExcept(h)
         \/ (h \in Handles /\ Available(h))
             \/ Accept \/ Connected(p) \/ ConnectError(p)
      PROVE  HInv'
  <2>1. Shape' /\ OnTime'
    BY <1>2, ShapeOthers, TimeOthers
  <2>2. Counted' /\ Kept'
    BY <1>2, CountOthers, CountServer
  <2>3. Unclaimed' /\ Claims'
    BY <1>2, ChainOthers, ChainServer
  <2> QED BY <2>1, <2>2, <2>3 DEF HInv
<1>3. ASSUME AddNext \/ CopyRef \/ DropRef \/ StoreNull \/ StoreOther \/ StoreConnect \/ AssignRef
             \/ ConnectOk \/ ConnectTimeout
      PROVE  HInv'
  <2>1. op.at # "idle"
    BY <1>3 DEF AddNext, CopyRef, DropRef, StoreNull, StoreOther, StoreConnect, AssignRef, ConnectOk, ConnectTimeout, At
  <2>2. op.h \in Handles
    BY <2>1, Known DEF HInv
  <2> QED BY <1>1, <1>3, <2>2
<1>4. CASE \E h \in Handles : Construct(h) \/ Destroy(h) \/ Stop(h) \/ Connect(h)
  BY <1>1, <1>4
<1>5. CASE \E h \in Handles : Available(h) \/ StopAllExcept(h)
  BY <1>2, <1>5
<1>6. CASE \E h, g \in Handles : CopyLoad(h, g) \/ Assign(h, g)
  BY <1>1, <1>6
<1>7. CASE AvailableStore \/ Begin \/ CloseServer \/ Accept \/ StopAll
  BY <1>2, <1>7
<1>8. CASE \E p \in pend : Connected(p) \/ ConnectError(p)
  BY <1>2, <1>8
<1> QED BY <1>3, <1>4, <1>5, <1>6, <1>7, <1>8 DEF Next, LoopStep

LEMMA HInvAlways == Spec => []HInv
<1>1. HInv /\ [Next]_vars => HInv'
  BY HInvNext, HInvStutter
<1> QED BY HInvInit, <1>1, PTL DEF Spec

\* Held adds to the owners only the reference the loop task is about to drop,
\* and that one is its WiFiClient's until a late answer replaces the pointer.
LEMMA OwnersHeld ==
  ASSUME HInv, NEW c \in Ctx
  PROVE  Owners(c) \subseteq Held(c) /\ (~late => Held(c) = Owners(c))
<1>1. ASSUME At("unref"), c = op.c, ~late PROVE op.h \in Owners(c)
  <2>1. cli[op.h] = op.c /\ op.h \in exists
    BY <1>1, Known DEF HInv, OnTime, Operands, At
  <2> QED BY <1>1, <2>1 DEF Owners, At
<1> QED BY <1>1 DEF Held

LEMMA HInvOwnership == HInv => Ownership
<1> SUFFICES ASSUME HInv PROVE Ownership
  OBVIOUS
<1>1. TypeOK /\ Shape /\ Counted /\ live \subseteq Ctx
  BY Types DEF HInv, Shape
<1>2. RefCounts
  <2>1. ASSUME NEW c \in live
        PROVE  cnt[c] >= Cardinality(Owners(c)) /\ (~late => cnt[c] = Cardinality(Owners(c)))
    <3>1. /\ c \in Ctx /\ cnt[c] \in Nat
          /\ Cardinality(Held(c)) <= cnt[c] /\ (~late => cnt[c] = Cardinality(Held(c)))
      BY <1>1, Types DEF Counted
    <3>2. IsFiniteSet(Held(c)) /\ Cardinality(Held(c)) \in Nat
      BY <1>1, HeldFinite, Types
    <3>3. Owners(c) \subseteq Held(c) /\ (~late => Held(c) = Owners(c))
      BY <3>1, OwnersHeld
    <3>4. Cardinality(Owners(c)) <= Cardinality(Held(c)) /\ Cardinality(Owners(c)) \in Nat
      BY <3>2, <3>3, FS_Subset, FS_CardinalityType
    <3>5. ~late => cnt[c] = Cardinality(Owners(c))
      BY <3>1, <3>3
    <3> QED BY <3>1, <3>2, <3>4, <3>5
  <2> QED BY <2>1 DEF RefCounts
<1>3. NoDangling
  <2>1. ASSUME NEW h \in exists, cli[h] # 0, h \in Owners(cli[h]) PROVE cli[h] \in live
    <3>1. cli[h] \in Ctx
      BY <1>1, <2>1, Types
    <3>2. h \in Held(cli[h])
      BY <2>1, <3>1, OwnersHeld
    <3> QED BY <1>1, <3>1, <3>2, HolderCounts
  <2>2. At("idle") => Chain \subseteq live
    BY DEF HInv, Unclaimed, Waiting, At
  <2> QED BY <2>1, <2>2 DEF NoDangling
<1>4. NoLeak
  <2>1. ASSUME ~late, ~raced, NEW c \in live, c \notin Chain PROVE Owners(c) # {}
    <3>1. c \in Ctx /\ cnt[c] # 0
      BY <1>1, <2>1 DEF HInv, Unclaimed, Waiting
    <3>2. cnt[c] = Cardinality(Held(c)) /\ Held(c) = Owners(c)
      BY <1>1, <2>1, <3>1, OwnersHeld DEF Counted
    <3> QED BY <1>1, <3>1, <3>2, HeldFinite, Types
  <2> QED BY <2>1 DEF NoLeak
<1> QED BY <1>1, <1>2, <1>3, <1>4 DEF Ownership

\* Whatever the loop task, the tcpip thread and stopAll do to the WiFiClients
\* and in whatever order, a live ClientContext's _refcnt covers its holders
\* and equals their number until a connect() has given up on an answer; no
\* WiFiClient and no link of the server's chain leads to a deleted context;
\* and every live context is held or waits in the chain, but for the two
\* races the property names.
THEOREM ContextsAreOwned == Spec => []Ownership
  BY HInvAlways, HInvOwnership, PTL

\* WiFiServer::available() hands out accepted contexts in the order _accept
\* made them, and none twice, even when an accept comes between its load of
\* _next and its store of _unclaimed.
THEOREM AcceptedOnceInOrder == Spec => []ClaimedOnceInOrder
<1>1. HInv => ClaimedOnceInOrder
  BY DEF HInv, Claims
<1> QED BY <1>1, HInvAlways, PTL

\* WiFiClient::connect() that returns success has the connection of its own
\* tcp_connect, as long as no earlier connect() gave up on an answer.
THEOREM ConnectReturnsItsOwn == Spec => []ConnectsItself
<1>1. HInv => ConnectsItself
  BY DEF HInv, OnTime, ConnectsItself
<1> QED BY <1>1, HInvAlways, PTL
===============================================================================
