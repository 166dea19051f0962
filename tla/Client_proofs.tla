---------------------------- MODULE Client_proofs ----------------------------
(***************************************************************************)
(* Proofs about two parts of the client.  The router, for any filters,     *)
(* topics and relation between them: the type invariant, that the walk     *)
(* implements RouteTable, and whom its handlers fit.  The message stores,  *)
(* for any number of exchanges and deaths of the process: what a store     *)
(* holds for an exchange, and what a death in the middle of a Put leaves   *)
(* in its files.                                                           *)
(*                                                                         *)
(* The stores' invariant says of each key what the operation that is under *)
(* way, step by step, has made of the two files since the last one that    *)
(* returned (Kept), and which packet the exchange that is open waits with  *)
(* (Follows).                                                              *)
(***************************************************************************)
EXTENDS Router, Store, TLAPS

-----------------------------------------------------------------------------
(* The router.                                                             *)

\* What Append does, for the two sequences of routes and the log.
LEMMA AppendOK ==
  ASSUME NEW S, NEW s \in Seq(S), NEW x \in S
  PROVE  /\ Append(s, x) \in Seq(S) /\ Len(Append(s, x)) = Len(s) + 1
         /\ \A i \in 1..Len(s) : Append(s, x)[i] = s[i]
         /\ Append(s, x)[Len(s) + 1] = x
  OBVIOUS

LEMMA LenNat == TypeOK => Len(filterOf) \in Nat /\ routes \subseteq Nat /\ (e \in Nat)
<1> SUFFICES ASSUME TypeOK PROVE Len(filterOf) \in Nat /\ routes \subseteq Nat /\ (e \in Nat)
  OBVIOUS
<1>1. Len(filterOf) \in Nat
  BY DEF TypeOK
<1> QED  BY <1>1 DEF TypeOK

LEMMA TypeOKInit == Init => TypeOK
  BY DEF Init, TypeOK

LEMMA TypeOKStep == TypeOK /\ [Next]_rvars => TypeOK'
<1> SUFFICES ASSUME TypeOK, [Next]_rvars PROVE TypeOK'
  OBVIOUS
<1>1. ASSUME NEW f \in Filters, addRoute(f) PROVE TypeOK'
  <2>1. CASE UNCHANGED <<routes, filterOf>> /\ \E i \in routes : callbackOf' = [callbackOf EXCEPT ![i] = f]
    BY <1>1, <2>1 DEF TypeOK, addRoute
  <2>2. CASE /\ routes' = routes \cup {Len(filterOf) + 1}
             /\ filterOf' = Append(filterOf, f) /\ callbackOf' = Append(callbackOf, f)
    <3>1. /\ filterOf' \in Seq(Filters) /\ callbackOf' \in Seq(Filters)
          /\ Len(filterOf') = Len(filterOf) + 1 /\ Len(callbackOf') = Len(callbackOf) + 1
      BY <2>2, AppendOK DEF TypeOK
    <3>2. routes' \subseteq 1..Len(filterOf') /\ 1..Len(filterOf) \subseteq 1..Len(filterOf')
      <4>1. Len(filterOf) \in Nat /\ routes \subseteq 1..Len(filterOf)
        BY LenNat DEF TypeOK
      <4>2. routes' = routes \cup {Len(filterOf) + 1}
        BY <2>2
      <4>3. Len(filterOf') = Len(filterOf) + 1
        BY <3>1
      <4>4. ASSUME NEW n \in Nat PROVE 1..n \subseteq 1..n + 1 /\ n + 1 \in 1..n + 1
        OBVIOUS
      <4> QED  BY <4>1, <4>2, <4>3, <4>4
    <3> QED  BY <1>1, <3>1, <3>2 DEF TypeOK, addRoute
  <2> QED  BY <1>1, <2>1, <2>2 DEF addRoute
<1>2. ASSUME NEW f \in Filters, deleteRoute(f) PROVE TypeOK'
  BY <1>2 DEF TypeOK, deleteRoute
<1>3. ASSUME NEW m \in Topics, Receive(m) PROVE TypeOK'
  BY <1>3 DEF TypeOK, Receive, IsFirst
<1>4. CASE CallRoute
  BY <1>4 DEF TypeOK, CallRoute
<1>5. CASE NextRoute
  BY <1>5 DEF TypeOK, NextRoute, IsFirst
<1>6. CASE Default
  <2>1. CASE pc = "default" /\ pc' = "defaulted" /\ UNCHANGED <<message, e>>
               /\ log' = Append(log, [topic |-> message, handler |-> "default"])
    <3>1. [topic |-> message, handler |-> "default"] \in [topic : Topics, handler : Filters \cup {"default"}]
      BY <2>1 DEF TypeOK
    <3>2. log' \in Seq([topic : Topics, handler : Filters \cup {"default"}])
      BY <2>1, <3>1, AppendOK DEF TypeOK
    <3> QED  BY <1>6, <2>1, <3>2 DEF TypeOK, Default
  <2>2. CASE pc = "defaulted" /\ pc' = "select" /\ e' = 0 /\ UNCHANGED log
    BY <1>6, <2>2 DEF TypeOK, Default
  <2> QED  BY <1>6, <2>1, <2>2 DEF Default
<1>7. CASE UNCHANGED rvars
  BY <1>7 DEF TypeOK, rvars
<1> QED  BY <1>1, <1>2, <1>3, <1>4, <1>5, <1>6, <1>7 DEF Next

\* The list, the callbacks and the walk keep their shape: the walk stands on an element
\* that was made, whatever was added or removed while its handler ran.
THEOREM RouterTypeOK == Spec => []TypeOK
  BY TypeOKInit, TypeOKStep, PTL DEF Spec

-----------------------------------------------------------------------------
LEMMA TableInit == Init => Table!TInit
  BY DEF Init, Table!TInit

\* Every step of the router is one step of the table.
LEMMA TableStep ==
  ASSUME "idle" \notin Topics, TypeOK, [Next]_rvars
  PROVE  [Table!TNext]_(Table!tvars)
<1>1. ASSUME NEW f \in Filters, addRoute(f) PROVE Table!TakeOver(f) \/ Table!Extend(f)
  <2>1. CASE UNCHANGED <<routes, filterOf>> /\ \E i \in Matching(f) : callbackOf' = [callbackOf EXCEPT ![i] = f]
    BY <1>1, <2>1 DEF addRoute, Table!TakeOver, Table!Under, Matching, Following
  <2>2. CASE /\ Matching(f) = {}
             /\ routes' = routes \cup {Len(filterOf) + 1}
             /\ filterOf' = Append(filterOf, f) /\ callbackOf' = Append(callbackOf, f)
    <3>1. Table!Under(f) = {}
      BY <2>2 DEF Table!Under, Matching
    <3>2. CASE pc = "select"
      BY <1>1, <2>2, <3>1, <3>2 DEF addRoute, Table!Extend
    <3>3. CASE pc \in {"call", "running"}
      <4>1. message # "idle" /\ e \in 1..Len(filterOf)
        BY <3>3 DEF TypeOK
      <4>2. /\ filterOf'[Len(filterOf) + 1] = f
            /\ \A i \in 1..Len(filterOf) : filterOf'[i] = filterOf[i]
        BY <2>2, AppendOK DEF TypeOK
      <4>3. Following' = IF e \in routes /\ Matches(f, message)
                         THEN Following \cup {Len(filterOf) + 1} ELSE Following
        <5>1. routes' = routes \cup {Len(filterOf) + 1} /\ message' = message /\ e' = e
          BY <1>1, <2>2 DEF addRoute
        <5>2. routes \subseteq 1..Len(filterOf) /\ Len(filterOf) \in Nat
          BY LenNat DEF TypeOK
        <5>3. CASE e \notin routes
          BY <4>1, <5>1, <5>2, <5>3 DEF Following
        <5>4. CASE e \in routes
          <6>1. Following' = {i \in routes' : Matches(filterOf'[i], message) /\ i > e}
            BY <5>1, <5>4 DEF Following, Matching
          <6>2. Following = {i \in routes : Matches(filterOf[i], message) /\ i > e}
            BY <5>4 DEF Following, Matching
          <6>3. Len(filterOf) + 1 > e /\ Len(filterOf) + 1 \notin routes
            BY <4>1, <5>2
          <6>4. ASSUME NEW i \in routes PROVE filterOf'[i] = filterOf[i]
            BY <4>2, <5>2
          <6>5. ASSUME NEW i PROVE i \in Following' <=>
                  i \in Following \/ (i = Len(filterOf) + 1 /\ Matches(f, message))
            <7>1. CASE i \in routes
              BY <5>1, <6>1, <6>2, <6>3, <6>4, <7>1
            <7>2. CASE i = Len(filterOf) + 1
              BY <4>2, <5>1, <6>1, <6>2, <6>3, <7>2
            <7> QED  BY <5>1, <6>1, <6>2, <7>1, <7>2
          <6> QED  BY <5>4, <6>5
        <5> QED  BY <5>3, <5>4
      <4> QED  BY <1>1, <2>2, <3>1, <3>3, <4>1, <4>3 DEF addRoute, Table!Extend
    <3> QED  BY <1>1, <3>2, <3>3 DEF addRoute, Locked, TypeOK
  <2> QED  BY <1>1, <2>1, <2>2 DEF addRoute, IsFirst
<1>2. ASSUME NEW f \in Filters, deleteRoute(f) PROVE Table!Remove(f)
  <2>1. PICK i \in Matching(f) : routes' = routes \ {i}
    BY <1>2 DEF deleteRoute, IsFirst
  <2>2. i \in Table!Under(f)
    BY <2>1 DEF Table!Under, Matching
  <2>3. Following' = IF i = e THEN {} ELSE Following \ {i}
    BY <1>2, <2>1 DEF deleteRoute, Following, Matching
  <2> QED  BY <1>2, <2>1, <2>2, <2>3 DEF deleteRoute, Table!Remove
<1>3. ASSUME NEW m \in Topics, Receive(m) PROVE Table!Serve(m)
  <2>1. {r \in routes : Matches(filterOf[r], m)} = Matching(m) /\ Matching(m) \subseteq Nat
    BY LenNat DEF Matching
  <2>2. CASE Matching(m) = {}
    BY <1>3, <2>1, <2>2 DEF Receive, IsFirst, Table!Serve
  <2>3. CASE \E i \in routes : IsFirst(i, Matching(m)) /\ e' = i /\ pc' = "call"
    <3>1. PICK i \in routes : IsFirst(i, Matching(m)) /\ e' = i /\ pc' = "call"
      BY <2>3
    <3>2. Following' = Matching(m) \ {i}
      BY <1>3, <2>1, <3>1 DEF Receive, Following, Matching, IsFirst
    <3>3. i \in Matching(m) /\ Matching(m) # {}
      BY <3>1 DEF IsFirst
    <3> QED  BY <1>3, <2>1, <3>1, <3>2, <3>3 DEF Receive, Table!Serve
  <2> QED  BY <1>3, <2>2, <2>3 DEF Receive
<1>4. ASSUME CallRoute PROVE Table!Call
  <2>1. message # "idle" /\ e # 0
    BY <1>4 DEF CallRoute, TypeOK
  <2>2. Following' = Following
    BY <1>4 DEF CallRoute, Following, Matching
  <2>3. pc = "call" /\ pc' = "running"
    BY <1>4 DEF CallRoute
  <2>4. log' = Append(log, [topic |-> message, handler |-> callbackOf[e]])
    BY <1>4 DEF CallRoute
  <2>5. UNCHANGED <<routes, filterOf, callbackOf, message, e>>
    BY <1>4 DEF CallRoute
  <2> QED  BY <2>1, <2>2, <2>3, <2>4, <2>5 DEF Table!Call
<1>5. ASSUME NextRoute PROVE Table!Pass
  <2>1. CASE Following = {}
    BY <1>5, <2>1 DEF NextRoute, IsFirst, Table!Pass
  <2>2. CASE \E i \in routes : IsFirst(i, Following) /\ e' = i /\ pc' = "call" /\ UNCHANGED message
    <3>1. PICK i \in routes : IsFirst(i, Following) /\ e' = i /\ pc' = "call" /\ UNCHANGED message
      BY <2>2
    <3>2. i \in Following
      BY <3>1 DEF IsFirst
    <3>3. e \in Nat /\ Matching(message) \subseteq Nat
      BY LenNat DEF Matching
    <3>4. Following' = Following \ {i}
      BY <1>5, <3>1, <3>2, <3>3 DEF NextRoute, Following, Matching, IsFirst
    <3> QED  BY <1>5, <3>1, <3>2, <3>4 DEF NextRoute, Table!Pass
  <2> QED  BY <1>5, <2>1, <2>2 DEF NextRoute
<1>6. ASSUME Default PROVE Table!Call \/ Table!Pass
  BY <1>6 DEF Default, TypeOK, Table!Call, Table!Pass
<1>7. CASE UNCHANGED rvars
  BY <1>7 DEF rvars, Table!tvars, Following, Matching
<1> QED
  BY <1>1, <1>2, <1>3, <1>4, <1>5, <1>6, <1>7 DEF Next, Table!TNext

\* The walk implements RouteTable, whatever the filters, the topics (other than the word
\* that stands for no message) and the relation between them, and for lists and logs of
\* any length.
THEOREM RouterImplementsTable ==
  ASSUME "idle" \notin Topics
  PROVE  Spec => ImplementsTable
<1>1. TypeOK /\ [Next]_rvars => [Table!TNext]_(Table!tvars)
  BY TableStep
<1> QED
  BY <1>1, TableInit, RouterTypeOK, PTL DEF Spec, ImplementsTable, Table!TSpec

-----------------------------------------------------------------------------
\* What keeps handlers with their topics when no filter is under another: each route has
\* the handler that came with its filter.
OwnHandlers ==
    /\ \A i \in 1..Len(filterOf) : callbackOf[i] = filterOf[i]
    /\ pc \in {"call", "running"} => Matches(filterOf[e], message)
    /\ HandlerFits

LEMMA OwnHandlersStep ==
  ASSUME \A f, g \in Filters : Matches(f, g) => f = g,
         TypeOK, OwnHandlers, [Next]_rvars
  PROVE  OwnHandlers'
<1>1. ASSUME NEW f \in Filters, addRoute(f) PROVE OwnHandlers'
  <2>1. CASE UNCHANGED <<routes, filterOf>>
             /\ \E i \in routes : IsFirst(i, Matching(f)) /\ callbackOf' = [callbackOf EXCEPT ![i] = f]
    <3>1. PICK i \in Matching(f) : callbackOf' = [callbackOf EXCEPT ![i] = f]
      BY <2>1 DEF IsFirst
    <3>2. i \in 1..Len(filterOf) /\ Matches(filterOf[i], f) /\ filterOf[i] \in Filters
      BY <3>1 DEF Matching, TypeOK
    <3>3. callbackOf' = callbackOf
      BY <3>1, <3>2 DEF OwnHandlers, TypeOK
    <3> QED  BY <1>1, <2>1, <3>3 DEF addRoute, OwnHandlers, HandlerFits
  <2>2. CASE /\ routes' = routes \cup {Len(filterOf) + 1}
             /\ filterOf' = Append(filterOf, f) /\ callbackOf' = Append(callbackOf, f)
    <3>1. Len(filterOf) \in Nat /\ Len(callbackOf) = Len(filterOf)
      BY LenNat DEF TypeOK
    <3>2. /\ Len(filterOf') = Len(filterOf) + 1
          /\ \A i \in 1..Len(filterOf) : filterOf'[i] = filterOf[i] /\ callbackOf'[i] = callbackOf[i]
          /\ filterOf'[Len(filterOf) + 1] = f /\ callbackOf'[Len(filterOf) + 1] = f
      BY <2>2, <3>1, AppendOK DEF TypeOK
    <3>3. UNCHANGED <<pc, message, e, log>>
      BY <1>1 DEF addRoute
    <3>4. \A i \in 1..Len(filterOf') : callbackOf'[i] = filterOf'[i]
      <4>1. \A i \in 1..Len(filterOf) + 1 : i \in 1..Len(filterOf) \/ i = Len(filterOf) + 1
        BY <3>1
      <4> QED  BY <3>2, <4>1 DEF OwnHandlers
    <3>5. pc \in {"call", "running"} => filterOf'[e] = filterOf[e]
      BY <3>2 DEF TypeOK
    <3> QED  BY <3>3, <3>4, <3>5 DEF OwnHandlers, HandlerFits
  <2> QED  BY <1>1, <2>1, <2>2 DEF addRoute
<1>2. ASSUME NEW f \in Filters, deleteRoute(f) PROVE OwnHandlers'
  BY <1>2 DEF OwnHandlers, HandlerFits, deleteRoute
<1>3. ASSUME NEW m \in Topics, Receive(m) PROVE OwnHandlers'
  BY <1>3 DEF OwnHandlers, HandlerFits, Receive, IsFirst, Matching
<1>4. CASE CallRoute
  <2>1. DEFINE call == [topic |-> message, handler |-> callbackOf[e]]
  <2>2. Matches(call.handler, call.topic)
    BY <1>4 DEF CallRoute, OwnHandlers, TypeOK
  <2>3. call \in [topic : Topics, handler : Filters \cup {"default"}]
    BY <1>4 DEF CallRoute, TypeOK
  <2> HIDE DEF call
  <2>4. log' = Append(log, call) /\ pc' = "running" /\ UNCHANGED <<filterOf, callbackOf, message, e>>
    BY <1>4 DEF CallRoute, call
  <2>5. HandlerFits'
    BY <2>2, <2>3, <2>4, AppendOK DEF OwnHandlers, HandlerFits, TypeOK
  <2> QED  BY <1>4, <2>4, <2>5 DEF CallRoute, OwnHandlers
<1>5. CASE NextRoute
  BY <1>5 DEF OwnHandlers, HandlerFits, NextRoute, IsFirst, Following, Matching
<1>6. CASE Default
  <2>1. CASE pc = "default" /\ pc' = "defaulted" /\ UNCHANGED <<message, e>>
               /\ log' = Append(log, [topic |-> message, handler |-> "default"])
    <3>1. DEFINE call == [topic |-> message, handler |-> "default"]
    <3>2. call.handler = "default" /\ call \in [topic : Topics, handler : Filters \cup {"default"}]
      BY <2>1 DEF TypeOK
    <3> HIDE DEF call
    <3>3. log' = Append(log, call)
      BY <2>1 DEF call
    <3>4. HandlerFits'
      BY <3>2, <3>3, AppendOK DEF OwnHandlers, HandlerFits, TypeOK
    <3> QED  BY <1>6, <2>1, <3>4 DEF Default, OwnHandlers
  <2>2. CASE pc = "defaulted" /\ pc' = "select" /\ e' = 0 /\ UNCHANGED log
    BY <1>6, <2>2 DEF Default, OwnHandlers, HandlerFits
  <2> QED  BY <1>6, <2>1, <2>2 DEF Default
<1>7. CASE UNCHANGED rvars
  BY <1>7 DEF OwnHandlers, HandlerFits, rvars
<1> QED  BY <1>1, <1>2, <1>3, <1>4, <1>5, <1>6, <1>7 DEF Next

\* While no filter is under another, the promise of Subscribe's comment holds: a handler
\* is called for messages on the topic it was provided for only.
THEOREM DisjointHandlersFit ==
  ASSUME \A f, g \in Filters : Matches(f, g) => f = g
  PROVE  Spec => []HandlerFits
<1>1. Init => OwnHandlers
  BY DEF Init, OwnHandlers, HandlerFits
<1>2. TypeOK /\ OwnHandlers /\ [Next]_rvars => OwnHandlers'
  BY OwnHandlersStep
<1>3. OwnHandlers => HandlerFits
  BY DEF OwnHandlers
<1> QED  BY <1>1, <1>2, <1>3, RouterTypeOK, PTL DEF Spec

-----------------------------------------------------------------------------
(* The message stores.                                                     *)

Types == {"PUBLISH", "PUBREL", "SUBSCRIBE", "UNSUBSCRIBE"}

\* The operation under way is on the key.
Busy(k) == op.at # "idle" /\ op.key = k

\* What the store will hold for a key when the operation under way returns.
Target(k) == IF Busy(k) THEN op.new ELSE last[k]

\* Which way the packets go that begin an exchange of the key, and that answer them.
Forth(k) == IF k = "o" THEN "out" ELSE "in"
Back(k) == IF k = "o" THEN "in" ELSE "out"

\* The rest of an exchange that has begun, and what the store holds meanwhile.
Waits(k) ==
    {<<<<P(Back(k), "PUBACK", 0)>>, "PUBLISH">>,
     <<<<P(Back(k), "PUBREC", 0), P(Forth(k), "PUBREL", 1), P(Back(k), "PUBCOMP", 0)>>, "PUBLISH">>,
     <<<<P(Forth(k), "PUBREL", 1), P(Back(k), "PUBCOMP", 0)>>, "PUBLISH">>,
     <<<<P(Back(k), "PUBCOMP", 0)>>, "PUBREL">>}
    \cup (IF k = "o" THEN {<<<<P("in", "SUBACK", 0)>>, "SUBSCRIBE">>,
                           <<<<P("in", "UNSUBACK", 0)>>, "UNSUBSCRIBE">>}
          ELSE {})

TypeInv ==
    /\ msg \in [Keys -> Types \cup {"none", "broken"}]
    /\ bkp \in [Keys -> Types \cup {"none", "broken"}]
    /\ op \in [at : {"idle", "put", "del", "backup", "copy", "create", "createOver", "write",
                     "writeOver", "unbackup"},
               key : Keys, new : Types \cup {"none"}]
    /\ op.at = "idle" => op = Idle
    /\ op.at = "del" => op.new = "none"
    /\ op.at \notin {"idle", "del"} => op.new \in Types
    /\ op.at \notin {"idle", "put", "del"} => kind = "file"
    /\ last \in [Keys -> Types \cup {"none"}] /\ cut \in [Keys -> Nat]
    /\ crashes \in Nat /\ DOMAIN flow = Keys

\* What the steps of an operation have done, if no death has cut one short since
\* the last that returned; and what one such death has left.
Kept(k) ==
    /\ cut[k] = 0 =>
          /\ ~Busy(k) \/ op.at \in {"put", "del", "backup", "copy", "createOver"}
                => msg[k] = last[k]
          /\ Busy(k) /\ op.at \in {"create", "write"} => last[k] = "none"
          /\ Busy(k) /\ op.at \in {"createOver", "writeOver"} => bkp[k] = last[k]
    /\ cut[k] = 1 /\ (~Busy(k) \/ op.at \in {"put", "del"})
          => last[k] = "none" \/ Whole(msg[k]) \/ Whole(bkp[k])
    /\ Busy(k) /\ op.at = "unbackup" => msg[k] = op.new

\* Before the process has died, there is a copy only while a Put is at work.
Copied(k) ==
    crashes = 0 =>
        /\ cut[k] = 0
        /\ ~Busy(k) \/ op.at \in {"put", "del", "backup", "create", "write"} => bkp[k] = "none"

\* An exchange has not begun, or waits with a packet; there may be an old one only
\* if the process has died.
Follows(k) ==
    \/ flow[k] \in Exchanges(k) \cup {<<>>} /\ (crashes = 0 => Target(k) = "none")
    \/ <<flow[k], Target(k)>> \in Waits(k) /\ (Busy(k) \/ cut[k] = 0)

KeyInv(k) == Kept(k) /\ Copied(k) /\ Follows(k)

Inv == TypeInv /\ \A k \in Keys : KeyInv(k)
-----------------------------------------------------------------------------
(* What an exchange makes of the store.                                    *)

Todo(p) == IF p.dir = "out" THEN persistOutbound(p) ELSE persistInbound(p)

Does(todo, what, k) == todo.do = what /\ todo.key = k

\* The first packet of an exchange is put, and the rest waits with it.
LEMMA ExchangeBegins ==
    ASSUME NEW k \in Keys, NEW s \in Exchanges(k)
    PROVE  /\ s # <<>> /\ Does(Todo(Head(s)), "put", k) /\ Head(s).type \in Types
           /\ <<Tail(s), Head(s).type>> \in Waits(k)
<1> USE DEF P, Types, Waits, Todo, Does, Forth, Back
<1>1. CASE k = "o"
  <2>1. CASE s = <<P("out", "PUBLISH", 1), P("in", "PUBACK", 0)>>
    BY <1>1, <2>1 DEF persistOutbound
  <2>2. CASE s = <<P("out", "PUBLISH", 2), P("in", "PUBREC", 0), P("out", "PUBREL", 1), P("in", "PUBCOMP", 0)>>
    BY <1>1, <2>2 DEF persistOutbound
  <2>3. CASE s = <<P("out", "SUBSCRIBE", 1), P("in", "SUBACK", 0)>>
    BY <1>1, <2>3 DEF persistOutbound
  <2>4. CASE s = <<P("out", "UNSUBSCRIBE", 1), P("in", "UNSUBACK", 0)>>
    BY <1>1, <2>4 DEF persistOutbound
  <2> QED
    BY <1>1, <2>1, <2>2, <2>3, <2>4 DEF Exchanges
<1>2. CASE k = "i"
  <2>1. CASE s = <<P("in", "PUBLISH", 1), P("out", "PUBACK", 0)>>
    BY <1>2, <2>1 DEF persistInbound
  <2>2. CASE s = <<P("in", "PUBLISH", 2), P("out", "PUBREC", 0), P("in", "PUBREL", 1), P("out", "PUBCOMP", 0)>>
    BY <1>2, <2>2 DEF persistInbound
  <2> QED
    BY <1>2, <2>1, <2>2 DEF Exchanges
<1> QED
  BY <1>1, <1>2 DEF Keys

\* Each other packet leaves what is held, or replaces it by itself, or is the last
\* and deletes it.
LEMMA ExchangeGoesOn ==
    ASSUME NEW k \in Keys, NEW s, NEW v, <<s, v>> \in Waits(k)
    PROVE  /\ s # <<>>
           /\ \/ Todo(Head(s)).do = "nothing" /\ <<Tail(s), v>> \in Waits(k)
              \/ Does(Todo(Head(s)), "put", k) /\ Head(s).type \in Types
                 /\ <<Tail(s), Head(s).type>> \in Waits(k)
              \/ Does(Todo(Head(s)), "del", k) /\ Tail(s) = <<>>
<1> USE DEF P, Types, Todo, Does, Keys, Forth, Back
<1>1. CASE s = <<P(Back(k), "PUBACK", 0)>> /\ v = "PUBLISH"
  BY <1>1 DEF persistInbound, persistOutbound
<1>2. CASE s = <<P(Back(k), "PUBREC", 0), P(Forth(k), "PUBREL", 1), P(Back(k), "PUBCOMP", 0)>> /\ v = "PUBLISH"
  <2>1. Todo(Head(s)).do = "nothing"
    BY <1>2 DEF persistInbound, persistOutbound
  <2>2. Tail(s) = <<P(Forth(k), "PUBREL", 1), P(Back(k), "PUBCOMP", 0)>>
    BY <1>2
  <2> QED
    BY <1>2, <2>1, <2>2 DEF Waits
<1>3. CASE s = <<P(Forth(k), "PUBREL", 1), P(Back(k), "PUBCOMP", 0)>> /\ v = "PUBLISH"
  <2>1. Does(Todo(Head(s)), "put", k) /\ Head(s).type = "PUBREL"
    BY <1>3 DEF persistInbound, persistOutbound
  <2>2. Tail(s) = <<P(Back(k), "PUBCOMP", 0)>>
    BY <1>3
  <2> QED
    BY <1>3, <2>1, <2>2 DEF Waits
<1>4. CASE s = <<P(Back(k), "PUBCOMP", 0)>> /\ v = "PUBREL"
  BY <1>4 DEF persistInbound, persistOutbound
<1>5. CASE k = "o" /\ s = <<P("in", "SUBACK", 0)>>
  BY <1>5 DEF persistInbound
<1>6. CASE k = "o" /\ s = <<P("in", "UNSUBACK", 0)>>
  BY <1>6 DEF persistInbound
<1> HIDE DEF P, Types, Todo, Does, Keys, Forth, Back
<1>7. CASE <<s, v>> \in {<<<<P(Back(k), "PUBACK", 0)>>, "PUBLISH">>,
          <<<<P(Back(k), "PUBREC", 0), P(Forth(k), "PUBREL", 1), P(Back(k), "PUBCOMP", 0)>>, "PUBLISH">>,
          <<<<P(Forth(k), "PUBREL", 1), P(Back(k), "PUBCOMP", 0)>>, "PUBLISH">>,
          <<<<P(Back(k), "PUBCOMP", 0)>>, "PUBREL">>}
  BY <1>1, <1>2, <1>3, <1>4, <1>7
<1>8. CASE k = "o" /\ <<s, v>> \in {<<<<P("in", "SUBACK", 0)>>, "SUBSCRIBE">>,
                                   <<<<P("in", "UNSUBACK", 0)>>, "UNSUBSCRIBE">>}
  BY <1>5, <1>6, <1>8
<1> QED
  BY <1>7, <1>8 DEF Waits
-----------------------------------------------------------------------------
(* The steps of the store.                                                 *)

LEMMA InitInv == StoreInit => Inv
<1> SUFFICES ASSUME StoreInit PROVE Inv
  OBVIOUS
<1> USE DEF StoreInit, Idle
<1>1. TypeInv
  BY DEF TypeInv, Types, Keys
<1>2. ASSUME NEW k \in Keys PROVE KeyInv(k)
  BY <1>2 DEF KeyInv, Kept, Copied, Follows, Busy, Target
<1> QED
  BY <1>1, <1>2 DEF Inv

\* The key that an operation is not on keeps what is said of it.
LEMMA OtherKey ==
    ASSUME NEW k \in Keys, KeyInv(k), ~Busy(k), ~Busy(k)',
           UNCHANGED <<msg[k], bkp[k], flow[k], last[k], cut[k], crashes>>
    PROVE  KeyInv(k)'
BY DEF KeyInv, Kept, Copied, Follows, Target
LEMMA StepBegin ==
    ASSUME Inv, NEW k \in Keys, Begin(k) PROVE Inv'
<1>1. PICK ps \in Exchanges(k) : flow' = [flow EXCEPT ![k] = ps]
  BY DEF Begin
<1>2. op = Idle /\ UNCHANGED <<kind, msg, bkp, op, last, cut, crashes>>
  BY DEF Begin
<1>3. TypeInv'
  BY <1>1, <1>2 DEF Inv, TypeInv
<1>4. KeyInv(k)'
  <2>1. flow[k] = <<>> /\ flow'[k] = ps
    BY <1>1 DEF Begin, Inv, TypeInv
  <2>2. <<flow[k], Target(k)>> \notin Waits(k)
    BY <2>1, ExchangeGoesOn
  <2> QED
    BY <1>2, <2>1, <2>2 DEF Inv, KeyInv, Kept, Copied, Follows, Busy, Target
<1>5. ASSUME NEW j \in Keys, j # k PROVE KeyInv(j)'
  BY <1>1, <1>2, <1>5, OtherKey DEF Inv, TypeInv, Busy, Idle
<1> QED
  BY <1>3, <1>4, <1>5 DEF Inv

\* What persisting the next packet of an exchange starts.
LEMMA PersistStarts ==
    ASSUME Inv, NEW k \in Keys, Persist(k)
    PROVE  \/ op' = Idle /\ <<Tail(flow[k]), last[k]>> \in Waits(k) /\ cut[k] = 0
           \/ \E v \in Types : op' = [at |-> "put", key |-> k, new |-> v]
                               /\ <<Tail(flow[k]), v>> \in Waits(k)
           \/ op' = [at |-> "del", key |-> k, new |-> "none"] /\ Tail(flow[k]) = <<>>
<1> DEFINE p == Head(flow[k])
<1>1. op = Idle /\ flow[k] # <<>> /\ Target(k) = last[k] /\ ~Busy(k)
  BY DEF Persist, Target, Busy, Idle
<1>2. /\ Todo(p).do = "put" => op' = [at |-> "put", key |-> Todo(p).key, new |-> p.type]
      /\ Todo(p).do = "del" => op' = [at |-> "del", key |-> Todo(p).key, new |-> "none"]
      /\ Todo(p).do = "nothing" => op' = Idle
  <2> DEFINE todo == IF p.dir = "out" THEN persistOutbound(p) ELSE persistInbound(p)
  <2>1. op' = CASE todo.do = "put" -> [at |-> "put", key |-> todo.key, new |-> p.type]
                [] todo.do = "del" -> [at |-> "del", key |-> todo.key, new |-> "none"]
                [] todo.do = "nothing" -> Idle
                [] todo.do = "panic" -> [at |-> "panic", key |-> k, new |-> "none"]
    BY DEF Persist
  <2>2. Todo(p) = todo
    BY DEF Todo
  <2> HIDE DEF todo, p
  <2> QED
    BY <2>1, <2>2
<1>3. CASE flow[k] \in Exchanges(k)
  BY <1>2, <1>3, ExchangeBegins DEF Does
<1>4. CASE <<flow[k], last[k]>> \in Waits(k) /\ cut[k] = 0
  <2>1. \/ Todo(p).do = "nothing" /\ <<Tail(flow[k]), last[k]>> \in Waits(k)
        \/ Does(Todo(p), "put", k) /\ p.type \in Types /\ <<Tail(flow[k]), p.type>> \in Waits(k)
        \/ Does(Todo(p), "del", k) /\ Tail(flow[k]) = <<>>
    BY <1>4, ExchangeGoesOn
  <2> HIDE DEF p
  <2>2. CASE Todo(p).do = "nothing" /\ <<Tail(flow[k]), last[k]>> \in Waits(k)
    BY <1>2, <1>4, <2>2
  <2>3. CASE Does(Todo(p), "put", k) /\ p.type \in Types /\ <<Tail(flow[k]), p.type>> \in Waits(k)
    BY <1>2, <2>3 DEF Does
  <2>4. CASE Does(Todo(p), "del", k) /\ Tail(flow[k]) = <<>>
    BY <1>2, <2>4 DEF Does
  <2> QED
    BY <2>1, <2>2, <2>3, <2>4
<1> HIDE DEF p
<1>5. Follows(k)
  BY DEF Inv, KeyInv
<1> QED
  BY <1>1, <1>3, <1>4, <1>5 DEF Follows

LEMMA StepPersist ==
    ASSUME Inv, NEW k \in Keys, Persist(k) PROVE Inv'
<1> DEFINE rest == Tail(flow[k])
<1>1. op = Idle /\ UNCHANGED <<kind, msg, bkp, last, cut, crashes>>
      /\ flow' = [flow EXCEPT ![k] = rest]
  BY DEF Persist
<1>2. flow'[k] = rest
  BY <1>1 DEF Inv, TypeInv
<1>3. \/ op' = Idle
      \/ \E v \in Types : op' = [at |-> "put", key |-> k, new |-> v]
      \/ op' = [at |-> "del", key |-> k, new |-> "none"]
  BY PersistStarts
<1>4. TypeInv'
  BY <1>1, <1>3 DEF Inv, TypeInv, Idle, Keys, Types
<1>5. KeyInv(k)'
  <2>1. Kept(k) /\ Copied(k)
    BY DEF Inv, KeyInv
  <2>2. Kept(k)' /\ Copied(k)'
    BY <1>1, <1>3, <2>1 DEF Kept, Copied, Busy, Idle
  <2>3. Follows(k)'
    <3>1. CASE op' = Idle /\ <<rest, last[k]>> \in Waits(k) /\ cut[k] = 0
      BY <1>1, <1>2, <3>1 DEF Follows, Target, Busy, Idle
    <3>2. CASE \E v \in Types : op' = [at |-> "put", key |-> k, new |-> v]
                                /\ <<rest, v>> \in Waits(k)
      <4>1. PICK v \in Types : op' = [at |-> "put", key |-> k, new |-> v] /\ <<rest, v>> \in Waits(k)
        BY <3>2
      <4>2. Busy(k)' /\ Target(k)' = v
        BY <4>1 DEF Busy, Target
      <4>3. <<rest, v>> \in Waits(k)'
        BY <4>1 DEF Waits
      <4> QED
        BY <1>2, <4>2, <4>3 DEF Follows
    <3>3. CASE op' = [at |-> "del", key |-> k, new |-> "none"] /\ rest = <<>>
      BY <1>1, <1>2, <3>3 DEF Follows, Target, Busy, Idle
    <3> QED
      BY <3>1, <3>2, <3>3, PersistStarts
  <2> QED
    BY <2>2, <2>3 DEF KeyInv
<1>6. ASSUME NEW j \in Keys, j # k PROVE KeyInv(j)'
  BY <1>1, <1>3, <1>6, OtherKey DEF Inv, TypeInv, Busy, Idle
<1> QED
  BY <1>4, <1>5, <1>6 DEF Inv
\* An exchange waits on, with what the store will hold.
LEMMA StillFollows ==
    ASSUME NEW k \in Keys, Follows(k), UNCHANGED <<flow, crashes, Target(k)>>, (Busy(k) \/ cut[k] = 0)'
    PROVE  Follows(k)'
BY DEF Follows, Waits

\* The operation on the key has done a step, and its next is at `at'.
LEMMA Advanced ==
    ASSUME Inv, NEW at, op.at # "idle", at # "idle", op' = [op EXCEPT !.at = at],
           UNCHANGED <<flow, last, cut, crashes>>
    PROVE  \E k \in Keys :
              /\ op.key = k /\ op' = [at |-> at, key |-> k, new |-> op.new]
              /\ Kept(k) /\ Copied(k) /\ Follows(k)'
              /\ \A j \in Keys : j # k => ~Busy(j) /\ ~Busy(j)'
<1>1. PICK k \in Keys : op.key = k /\ op' = [at |-> at, key |-> k, new |-> op.new]
  BY DEF Inv, TypeInv
<1>2. Busy(k) /\ Busy(k)' /\ Target(k)' = Target(k)
  BY <1>1 DEF Busy, Target
<1>3. Kept(k) /\ Copied(k) /\ Follows(k)'
  BY <1>2, StillFollows DEF Inv, KeyInv
<1>4. \A j \in Keys : j # k => ~Busy(j) /\ ~Busy(j)'
  BY <1>1 DEF Busy
<1> QED
  BY <1>1, <1>3, <1>4

\* The operation on the key has returned.
LEMMA Returned ==
    ASSUME Inv, op.at # "idle", Returns(op.key, op.new), UNCHANGED <<flow, crashes>>
    PROVE  \E k \in Keys :
              /\ op.key = k /\ op' = Idle /\ last' = [last EXCEPT ![k] = op.new]
              /\ cut' = [cut EXCEPT ![k] = 0] /\ last'[k] = op.new /\ cut'[k] = 0
              /\ Kept(k) /\ Copied(k) /\ Follows(k)'
              /\ \A j \in Keys : j # k => ~Busy(j) /\ ~Busy(j)' /\ UNCHANGED <<last[j], cut[j]>>
<1>1. PICK k \in Keys : op.key = k
  BY DEF Inv, TypeInv
<1>2. /\ op' = Idle /\ last' = [last EXCEPT ![k] = op.new] /\ last'[k] = op.new
      /\ cut' = [cut EXCEPT ![k] = 0] /\ cut'[k] = 0
  BY <1>1 DEF Inv, TypeInv, Returns
<1>3. Busy(k) /\ ~Busy(k)' /\ Target(k)' = Target(k)
  BY <1>1, <1>2 DEF Busy, Target, Idle
<1>4. Kept(k) /\ Copied(k) /\ Follows(k)'
  BY <1>2, <1>3, StillFollows DEF Inv, KeyInv
<1>5. \A j \in Keys : j # k => ~Busy(j) /\ ~Busy(j)' /\ UNCHANGED <<last[j], cut[j]>>
  BY <1>1, <1>2 DEF Busy, Idle, Inv, TypeInv
<1> QED
  BY <1>1, <1>2, <1>4, <1>5

LEMMA StepPut ==
    ASSUME Inv, Put PROVE Inv'
<1>1. PICK at \in {"create", "backup"} :
        /\ kind = "file" /\ op.at = "put" /\ op' = [op EXCEPT !.at = at]
        /\ at = "create" <=> msg[op.key] = "none"
        /\ UNCHANGED <<kind, msg, bkp, flow, last, cut, crashes>>
  BY DEF Put, Goes
<1>2. PICK k \in Keys :
        /\ op.key = k /\ op' = [at |-> at, key |-> k, new |-> op.new]
        /\ Kept(k) /\ Copied(k) /\ Follows(k)'
        /\ \A j \in Keys : j # k => ~Busy(j) /\ ~Busy(j)'
  BY <1>1, Advanced
<1>3. TypeInv'
  BY <1>1, <1>2 DEF Inv, TypeInv
<1>4. KeyInv(k)'
  BY <1>1, <1>2 DEF KeyInv, Kept, Copied, Busy, Inv, TypeInv
<1>5. ASSUME NEW j \in Keys, j # k PROVE KeyInv(j)'
  BY <1>1, <1>2, <1>5, OtherKey DEF Inv
<1> QED
  BY <1>3, <1>4, <1>5 DEF Inv
LEMMA Stepbackup ==
    ASSUME Inv, backup PROVE Inv'
<1>1. CASE /\ op.at = "backup" /\ bkp' = [bkp EXCEPT ![op.key] = "broken"] /\ Goes("copy")
           /\ UNCHANGED <<kind, opened, msg, flow, last, cut, flows, crashes>>
  <2>2. PICK k \in Keys :
          /\ op.key = k /\ op' = [at |-> "copy", key |-> k, new |-> op.new]
          /\ Kept(k) /\ Copied(k) /\ Follows(k)'
          /\ \A j \in Keys : j # k => ~Busy(j) /\ ~Busy(j)'
    BY <1>1, Advanced DEF Goes
  <2>3. TypeInv'
    BY <1>1, <2>2 DEF Inv, TypeInv
  <2>4. KeyInv(k)'
    BY <1>1, <2>2 DEF KeyInv, Kept, Copied, Busy, Inv, TypeInv, Types, Whole
  <2>5. ASSUME NEW j \in Keys, j # k PROVE KeyInv(j)'
    BY <1>1, <2>2, <2>5, OtherKey DEF Inv, TypeInv
  <2> QED
    BY <2>3, <2>4, <2>5 DEF Inv
<1>2. CASE /\ op.at = "copy" /\ bkp' = [bkp EXCEPT ![op.key] = msg[op.key]] /\ Goes("createOver")
           /\ UNCHANGED <<kind, opened, msg, flow, last, cut, flows, crashes>>
  <2>2. PICK k \in Keys :
          /\ op.key = k /\ op' = [at |-> "createOver", key |-> k, new |-> op.new]
          /\ Kept(k) /\ Copied(k) /\ Follows(k)'
          /\ \A j \in Keys : j # k => ~Busy(j) /\ ~Busy(j)'
    BY <1>2, Advanced DEF Goes
  <2>3. TypeInv'
    BY <1>2, <2>2 DEF Inv, TypeInv
  <2>4. KeyInv(k)'
    BY <1>2, <2>2 DEF KeyInv, Kept, Copied, Busy, Inv, TypeInv, Types, Whole
  <2>5. ASSUME NEW j \in Keys, j # k PROVE KeyInv(j)'
    BY <1>2, <2>2, <2>5, OtherKey DEF Inv, TypeInv
  <2> QED
    BY <2>3, <2>4, <2>5 DEF Inv
<1> QED
  BY <1>1, <1>2 DEF backup

LEMMA Stepwrite ==
    ASSUME Inv, write PROVE Inv'
<1>1. CASE /\ op.at = "create" /\ msg' = [msg EXCEPT ![op.key] = "broken"] /\ Goes("write")
           /\ UNCHANGED <<kind, opened, bkp, flow, last, cut, flows, crashes>>
  <2>2. PICK k \in Keys :
          /\ op.key = k /\ op' = [at |-> "write", key |-> k, new |-> op.new]
          /\ Kept(k) /\ Copied(k) /\ Follows(k)'
          /\ \A j \in Keys : j # k => ~Busy(j) /\ ~Busy(j)'
    BY <1>1, Advanced DEF Goes
  <2>3. TypeInv'
    BY <1>1, <2>2 DEF Inv, TypeInv
  <2>4. KeyInv(k)'
    BY <1>1, <2>2 DEF KeyInv, Kept, Copied, Busy, Inv, TypeInv, Types, Whole
  <2>5. ASSUME NEW j \in Keys, j # k PROVE KeyInv(j)'
    BY <1>1, <2>2, <2>5, OtherKey DEF Inv, TypeInv
  <2> QED
    BY <2>3, <2>4, <2>5 DEF Inv
<1>2. CASE /\ op.at = "createOver" /\ msg' = [msg EXCEPT ![op.key] = "broken"] /\ Goes("writeOver")
           /\ UNCHANGED <<kind, opened, bkp, flow, last, cut, flows, crashes>>
  <2>2. PICK k \in Keys :
          /\ op.key = k /\ op' = [at |-> "writeOver", key |-> k, new |-> op.new]
          /\ Kept(k) /\ Copied(k) /\ Follows(k)'
          /\ \A j \in Keys : j # k => ~Busy(j) /\ ~Busy(j)'
    BY <1>2, Advanced DEF Goes
  <2>3. TypeInv'
    BY <1>2, <2>2 DEF Inv, TypeInv
  <2>4. KeyInv(k)'
    BY <1>2, <2>2 DEF KeyInv, Kept, Copied, Busy, Inv, TypeInv, Types, Whole
  <2>5. ASSUME NEW j \in Keys, j # k PROVE KeyInv(j)'
    BY <1>2, <2>2, <2>5, OtherKey DEF Inv, TypeInv
  <2> QED
    BY <2>3, <2>4, <2>5 DEF Inv
<1>3. CASE /\ op.at = "write" /\ msg' = [msg EXCEPT ![op.key] = op.new] /\ Returns(op.key, op.new)
           /\ UNCHANGED <<kind, opened, bkp, flow, flows, crashes>>
  <2>2. PICK k \in Keys :
          /\ op.key = k /\ op' = Idle /\ last' = [last EXCEPT ![k] = op.new]
          /\ cut' = [cut EXCEPT ![k] = 0] /\ last'[k] = op.new /\ cut'[k] = 0
          /\ Kept(k) /\ Copied(k) /\ Follows(k)'
          /\ \A j \in Keys : j # k => ~Busy(j) /\ ~Busy(j)' /\ UNCHANGED <<last[j], cut[j]>>
    BY <1>3, Returned
  <2>3. TypeInv'
    BY <1>3, <2>2 DEF Inv, TypeInv, Idle, Keys
  <2>4. KeyInv(k)'
    BY <1>3, <2>2 DEF KeyInv, Kept, Copied, Busy, Inv, TypeInv, Idle
  <2>5. ASSUME NEW j \in Keys, j # k PROVE KeyInv(j)'
    BY <1>3, <2>2, <2>5, OtherKey DEF Inv, TypeInv
  <2> QED
    BY <2>3, <2>4, <2>5 DEF Inv
<1>4. CASE /\ op.at = "writeOver" /\ msg' = [msg EXCEPT ![op.key] = op.new] /\ Goes("unbackup")
           /\ UNCHANGED <<kind, opened, bkp, flow, last, cut, flows, crashes>>
  <2>2. PICK k \in Keys :
          /\ op.key = k /\ op' = [at |-> "unbackup", key |-> k, new |-> op.new]
          /\ Kept(k) /\ Copied(k) /\ Follows(k)'
          /\ \A j \in Keys : j # k => ~Busy(j) /\ ~Busy(j)'
    BY <1>4, Advanced DEF Goes
  <2>3. TypeInv'
    BY <1>4, <2>2 DEF Inv, TypeInv
  <2>4. KeyInv(k)'
    BY <1>4, <2>2 DEF KeyInv, Kept, Copied, Busy, Inv, TypeInv, Types, Whole
  <2>5. ASSUME NEW j \in Keys, j # k PROVE KeyInv(j)'
    BY <1>4, <2>2, <2>5, OtherKey DEF Inv, TypeInv
  <2> QED
    BY <2>3, <2>4, <2>5 DEF Inv
<1> QED
  BY <1>1, <1>2, <1>3, <1>4 DEF write

LEMMA StepReturns ==
    ASSUME Inv, unbackup \/ del \/ MemoryStep PROVE Inv'
<1>1. CASE unbackup
  <2>1. /\ op.at = "unbackup" /\ bkp' = [bkp EXCEPT ![op.key] = "none"] /\ Returns(op.key, op.new)
        /\ UNCHANGED <<kind, opened, msg, flow, flows, crashes>>
    BY <1>1 DEF unbackup
  <2>2. PICK k \in Keys :
          /\ op.key = k /\ op' = Idle /\ last' = [last EXCEPT ![k] = op.new]
          /\ cut' = [cut EXCEPT ![k] = 0] /\ last'[k] = op.new /\ cut'[k] = 0
          /\ Kept(k) /\ Copied(k) /\ Follows(k)'
          /\ \A j \in Keys : j # k => ~Busy(j) /\ ~Busy(j)' /\ UNCHANGED <<last[j], cut[j]>>
    BY <2>1, Returned
  <2>3. TypeInv'
    BY <2>1, <2>2 DEF Inv, TypeInv, Idle, Keys
  <2>4. KeyInv(k)'
    BY <2>1, <2>2 DEF KeyInv, Kept, Copied, Busy, Inv, TypeInv, Idle
  <2>5. ASSUME NEW j \in Keys, j # k PROVE KeyInv(j)'
    BY <2>1, <2>2, <2>5, OtherKey DEF Inv, TypeInv
  <2> QED
    BY <2>3, <2>4, <2>5 DEF Inv
<1>2. CASE del
  <2>1. /\ op.at = "del" /\ msg' = [msg EXCEPT ![op.key] = op.new] /\ Returns(op.key, op.new)
        /\ UNCHANGED <<kind, opened, bkp, flow, flows, crashes>>
    BY <1>2 DEF del, Inv, TypeInv
  <2>2. PICK k \in Keys :
          /\ op.key = k /\ op' = Idle /\ last' = [last EXCEPT ![k] = op.new]
          /\ cut' = [cut EXCEPT ![k] = 0] /\ last'[k] = op.new /\ cut'[k] = 0
          /\ Kept(k) /\ Copied(k) /\ Follows(k)'
          /\ \A j \in Keys : j # k => ~Busy(j) /\ ~Busy(j)' /\ UNCHANGED <<last[j], cut[j]>>
    BY <2>1, Returned
  <2>3. TypeInv'
    BY <2>1, <2>2 DEF Inv, TypeInv, Idle, Keys
  <2>4. KeyInv(k)'
    BY <2>1, <2>2 DEF KeyInv, Kept, Copied, Busy, Inv, TypeInv, Idle
  <2>5. ASSUME NEW j \in Keys, j # k PROVE KeyInv(j)'
    BY <2>1, <2>2, <2>5, OtherKey DEF Inv, TypeInv
  <2> QED
    BY <2>3, <2>4, <2>5 DEF Inv
<1>3. CASE MemoryStep
  <2>1. /\ op.at \in {"put", "del"} /\ msg' = [msg EXCEPT ![op.key] = op.new] /\ Returns(op.key, op.new)
        /\ UNCHANGED <<kind, opened, bkp, flow, flows, crashes>>
    BY <1>3 DEF MemoryStep
  <2>2. PICK k \in Keys :
          /\ op.key = k /\ op' = Idle /\ last' = [last EXCEPT ![k] = op.new]
          /\ cut' = [cut EXCEPT ![k] = 0] /\ last'[k] = op.new /\ cut'[k] = 0
          /\ Kept(k) /\ Copied(k) /\ Follows(k)'
          /\ \A j \in Keys : j # k => ~Busy(j) /\ ~Busy(j)' /\ UNCHANGED <<last[j], cut[j]>>
    BY <2>1, Returned
  <2>3. TypeInv'
    BY <2>1, <2>2 DEF Inv, TypeInv, Idle, Keys
  <2>4. KeyInv(k)'
    BY <2>1, <2>2 DEF KeyInv, Kept, Copied, Busy, Inv, TypeInv, Idle
  <2>5. ASSUME NEW j \in Keys, j # k PROVE KeyInv(j)'
    BY <2>1, <2>2, <2>5, OtherKey DEF Inv, TypeInv
  <2> QED
    BY <2>3, <2>4, <2>5 DEF Inv
<1> QED
  BY <1>1, <1>2, <1>3
LEMMA StepReset ==
    ASSUME Inv, Reset PROVE Inv'
<1>1. PICK k \in Keys : msg' = [msg EXCEPT ![k] = "none"] /\ Returns(k, "none")
  BY DEF Reset
<1>2. op = Idle /\ (\A j \in Keys : flow[j] = <<>>) /\ UNCHANGED <<kind, bkp, flow, crashes>>
  BY DEF Reset
<1>3. /\ op' = Idle /\ last' = [last EXCEPT ![k] = "none"] /\ cut' = [cut EXCEPT ![k] = 0]
      /\ last'[k] = "none" /\ cut'[k] = 0 /\ msg'[k] = "none"
  BY <1>1 DEF Returns, Inv, TypeInv
<1>4. TypeInv'
  BY <1>1, <1>2, <1>3 DEF Inv, TypeInv, Idle, Keys
<1>5. KeyInv(k)'
  BY <1>2, <1>3 DEF Inv, KeyInv, Kept, Copied, Follows, Busy, Target, Idle
<1>6. ASSUME NEW j \in Keys, j # k PROVE KeyInv(j)'
  BY <1>1, <1>2, <1>3, <1>6, OtherKey DEF Inv, TypeInv, Busy, Idle
<1> QED
  BY <1>4, <1>5, <1>6 DEF Inv

\* A death under way in a Put leaves a whole packet: the files are as they were, or
\* the old packet is in the copy, or the new one is written.
LEMMA StepCrash ==
    ASSUME Inv, Crash PROVE Inv'
<1>1. /\ crashes' = crashes + 1 /\ op' = Idle /\ flow' = [k \in Keys |-> <<>>]
      /\ cut' = IF op.at \in {"idle", "put", "del"} THEN cut ELSE [cut EXCEPT ![op.key] = @ + 1]
      /\ UNCHANGED <<kind, bkp>>
  BY DEF Crash
<1>2. \/ kind = "file" /\ UNCHANGED <<msg, last>>
      \/ /\ kind # "file" /\ msg' = [k \in Keys |-> "none"] /\ last' = [k \in Keys |-> "none"]
         /\ cut' = cut
  BY DEF Crash, Inv, TypeInv
<1>3. TypeInv'
  BY <1>1, <1>2 DEF Inv, TypeInv, Idle, Keys
<1>4. ASSUME NEW k \in Keys PROVE KeyInv(k)'
  <2>1. Kept(k) /\ TypeInv
    BY <1>4 DEF Inv, KeyInv
  <2>2. flow'[k] = <<>> /\ crashes' # 0
    BY <1>1, <1>4 DEF Inv, TypeInv
  <2>3. Copied(k)' /\ Follows(k)'
    BY <2>2 DEF Copied, Follows
  <2>4. ~Busy(k)'
    BY <1>1 DEF Busy, Idle
  <2>5. CASE kind # "file" /\ msg' = [j \in Keys |-> "none"] /\ last' = [j \in Keys |-> "none"]
    BY <1>4, <2>3, <2>4, <2>5 DEF KeyInv, Kept
  <2>6. CASE UNCHANGED <<msg, last>>
    <3>1. CASE Busy(k) /\ op.at \notin {"put", "del"}
      <4>1. cut'[k] = cut[k] + 1 /\ cut[k] \in Nat
        BY <1>1, <1>4, <2>1, <3>1 DEF TypeInv, Busy
      <4>2. cut[k] = 0 => last[k] = "none" \/ Whole(msg[k]) \/ Whole(bkp[k])
        <5>1. last[k] # "none" => Whole(last[k])
          BY <1>4, <2>1 DEF TypeInv, Types, Whole
        <5>2. CASE op.at \in {"backup", "copy", "createOver", "create", "write", "writeOver"}
          BY <2>1, <3>1, <5>1, <5>2 DEF Kept
        <5>3. CASE op.at = "unbackup"
          BY <2>1, <3>1, <5>3 DEF Kept, TypeInv, Types, Whole
        <5> QED
          BY <2>1, <3>1, <5>2, <5>3 DEF TypeInv, Busy
      <4> QED
        BY <1>1, <2>3, <2>4, <2>6, <4>1, <4>2 DEF KeyInv, Kept
    <3>2. CASE ~Busy(k) \/ op.at \in {"put", "del"}
      <4>1. cut'[k] = cut[k]
        BY <1>1, <1>4, <2>1, <3>2 DEF TypeInv, Busy
      <4> QED
        BY <1>1, <2>1, <2>3, <2>4, <2>6, <3>2, <4>1 DEF KeyInv, Kept
    <3> QED
      BY <3>1, <3>2
  <2> QED
    BY <1>2, <2>5, <2>6
<1> QED
  BY <1>3, <1>4 DEF Inv

LEMMA StepOther ==
    ASSUME Inv, Open \/ UNCHANGED storeVars PROVE Inv'
<1>1. UNCHANGED <<kind, msg, bkp, op, flow, last, cut, crashes>>
  BY DEF Open, storeVars
<1>2. TypeInv'
  BY <1>1 DEF Inv, TypeInv
<1>3. ASSUME NEW k \in Keys PROVE KeyInv(k)'
  <2>1. Kept(k)' /\ Copied(k)'
    BY <1>1 DEF Inv, KeyInv, Kept, Copied, Busy
  <2>2. Follows(k)'
    BY <1>1 DEF Inv, KeyInv, Follows, Busy, Target
  <2> QED
    BY <2>1, <2>2 DEF KeyInv
<1> QED
  BY <1>2, <1>3 DEF Inv

LEMMA StepInv == Inv /\ [StoreNext]_storeVars => Inv'
<1> SUFFICES ASSUME Inv, [StoreNext]_storeVars PROVE Inv'
  OBVIOUS
<1>1. ASSUME NEW k \in Keys, Begin(k) PROVE Inv'
  BY <1>1, StepBegin
<1>2. ASSUME NEW k \in Keys, Persist(k) PROVE Inv'
  BY <1>2, StepPersist
<1>3. CASE Put
  BY <1>3, StepPut
<1>4. CASE backup
  BY <1>4, Stepbackup
<1>5. CASE write
  BY <1>5, Stepwrite
<1>6. CASE unbackup \/ del \/ MemoryStep
  BY <1>6, StepReturns
<1>7. CASE Reset
  BY <1>7, StepReset
<1>8. CASE Crash
  BY <1>8, StepCrash
<1>9. CASE Open \/ UNCHANGED storeVars
  BY <1>9, StepOther
<1> QED
  BY <1>1, <1>2, <1>3, <1>4, <1>5, <1>6, <1>7, <1>8, <1>9 DEF StoreNext

\* In every state: which packet a store holds for an exchange, and what the step of
\* the operation under way has made of the files.
THEOREM StoreInvariance == StoreSpec => []Inv
<1>1. StoreInit => Inv
  BY InitInv
<1>2. Inv /\ [StoreNext]_storeVars => Inv'
  BY StepInv
<1> QED
  BY <1>1, <1>2, PTL DEF StoreSpec
-----------------------------------------------------------------------------
(* What the runs check of the stores.                                      *)

\* The last packet of an exchange that is open says what is held meanwhile.
LEMMA HeldWhile ==
    ASSUME NEW k \in Keys, NEW v, <<flow[k], v>> \in Waits(k)
    PROVE  /\ flow[k] # <<>>
           /\ Head(flow[k]).type = "PUBCOMP" => v = "PUBREL"
           /\ Head(flow[k]).type \in {"PUBACK", "SUBACK", "UNSUBACK", "PUBREC", "PUBREL"}
                => v \in {"PUBLISH", "SUBSCRIBE", "UNSUBSCRIBE"}
<1> QED
  BY ExchangeGoesOn DEF Waits, P, Back, Forth

\* While an exchange is open its packet is in the store, for any number of exchanges
\* one after the other and of deaths of the process; nothing is left of one that has
\* ended, and no packet makes the store panic.
THEOREM ExchangesKept == StoreSpec => []InFlightKept
<1>1. ASSUME Inv PROVE InFlightKept
  <2>1. op.at # "panic"
    BY <1>1 DEF Inv, TypeInv
  <2>2. ASSUME op = Idle, NEW k \in Keys
        PROVE  /\ cut[k] = 0 => msg[k] = last[k]
               /\ flow[k] # <<>> /\ Head(flow[k]).type \in {"PUBACK", "SUBACK", "UNSUBACK", "PUBREC"}
                     => msg[k] \in {"PUBLISH", "SUBSCRIBE", "UNSUBSCRIBE"}
               /\ flow[k] # <<>> /\ Head(flow[k]).type = "PUBCOMP" => msg[k] = "PUBREL"
               /\ flow[k] = <<>> /\ crashes = 0 => msg[k] = "none" /\ bkp[k] = "none"
    <3>1. ~Busy(k) /\ Target(k) = last[k] /\ Kept(k) /\ Copied(k) /\ Follows(k)
      BY <1>1, <2>2 DEF Inv, KeyInv, Busy, Target, Idle
    <3>2. cut[k] = 0 => msg[k] = last[k]
      BY <3>1 DEF Kept
    <3>3. CASE <<flow[k], last[k]>> \in Waits(k) /\ cut[k] = 0
      BY <3>2, <3>3, HeldWhile
    <3>4. CASE flow[k] \in Exchanges(k) /\ (crashes = 0 => last[k] = "none")
      <4>1. flow[k] # <<>>
        BY <3>4, ExchangeBegins
      <4>2. Head(flow[k]).type \in {"PUBLISH", "SUBSCRIBE", "UNSUBSCRIBE"}
        BY <3>4 DEF Exchanges, P
      <4> QED
        BY <3>2, <4>1, <4>2
    <3>5. CASE flow[k] = <<>> /\ (crashes = 0 => last[k] = "none")
      BY <3>1, <3>2, <3>5 DEF Copied
    <3> QED
      BY <3>1, <3>3, <3>4, <3>5 DEF Follows
  <2> QED
    BY <2>1, <2>2 DEF InFlightKept
<1> QED
  BY <1>1, StoreInvariance, PTL

\* At every step of every Put the files have a whole packet, the old one or the new
\* one, and they have it still when the process has died there: once.
THEOREM FilesSurvive == StoreSpec => []SurvivesOneCrash
<1>1. ASSUME Inv PROVE SurvivesOneCrash
  <2>1. ASSUME kind = "file", NEW k \in Keys, last[k] # "none",
               cut[k] = 0 \/ (cut[k] = 1 /\ (op = Idle \/ op.key # k))
        PROVE  Whole(msg[k]) \/ Whole(bkp[k])
    <3>1. Kept(k) /\ TypeInv
      BY <1>1, <2>1 DEF Inv, KeyInv
    <3>2. Whole(last[k])
      BY <2>1, <3>1 DEF TypeInv, Types, Whole
    <3>3. CASE cut[k] = 0
      BY <2>1, <3>1, <3>2, <3>3 DEF Kept, TypeInv, Types, Whole, Busy
    <3>4. CASE cut[k] = 1 /\ ~Busy(k)
      BY <2>1, <3>1, <3>4 DEF Kept
    <3> QED
      BY <2>1, <3>3, <3>4 DEF Busy, Idle
  <2> QED
    BY <2>1 DEF SurvivesOneCrash
<1> QED
  BY <1>1, StoreInvariance, PTL
=============================================================================
