------------------------------- MODULE Router -------------------------------
(***************************************************************************)
(* paho's router: a list of routes, changed by Subscribe and Unsubscribe   *)
(* of any goroutine, and matchAndDispatch, which walks the list for each   *)
(* message and gives up its read lock around every handler.  Elements are  *)
(* only ever added at the back, so the list is the set of its elements'    *)
(* numbers, in their order.  An element that was removed has no successor. *)
(* The order of messages is kept (OrderMatters), as mqtt-plumber has it.   *)
(***************************************************************************)
EXTENDS Integers, Sequences

CONSTANTS Filters,          \* the filters an application subscribes to
          Topics,           \* the topics of messages
          Matches(_, _),    \* route.match
          MaxRoutes,        \* bound: elements ever made
          MaxCalls          \* bound: handlers called

VARIABLES routes,           \* the list
          filterOf,         \* of every element made: route.topic
          callbackOf,       \* and route.callback, named by the filter it came with
          pc,               \* "select", "call", "running", "default" or "defaulted"
          message,          \* the topic of the message in hand
          e,                \* the element the walk is at
          log               \* the handlers called, with the topic

rvars == <<routes, filterOf, callbackOf, pc, message, e, log>>

Init ==
    /\ routes = {} /\ filterOf = <<>> /\ callbackOf = <<>>
    /\ pc = "select" /\ message = "none" /\ e = 0 /\ log = <<>>

\* The first element of a set of them.
IsFirst(i, s) == i \in s /\ \A j \in s : i <= j

\* The write lock waits for the reader: the walk, and the whole default handler.
Locked == pc \in {"default", "defaulted"}

Matching(topic) == {i \in routes : Matches(filterOf[i], topic)}


\* The first route that matches the new filter, taken for a topic, gets the callback;
\* if there is none, a new route is put at the back.
addRoute(f) ==
    /\ ~Locked
    /\ \/ /\ \E i \in routes : IsFirst(i, Matching(f)) /\ callbackOf' = [callbackOf EXCEPT ![i] = f]
          /\ UNCHANGED <<routes, filterOf>>
       \/ /\ Matching(f) = {} /\ Len(filterOf) < MaxRoutes
          /\ routes' = routes \cup {Len(filterOf) + 1}
          /\ filterOf' = Append(filterOf, f) /\ callbackOf' = Append(callbackOf, f)
    /\ UNCHANGED <<pc, message, e, log>>

deleteRoute(f) ==
    /\ ~Locked
    /\ \E i \in routes : IsFirst(i, Matching(f)) /\ routes' = routes \ {i}
    /\ UNCHANGED <<filterOf, callbackOf, pc, message, e, log>>

\* From a message's arrival to its first route, under the read lock.
Receive(m) ==
    /\ pc = "select" /\ Len(log) < MaxCalls
    /\ message' = m
    /\ \/ \E i \in routes : IsFirst(i, Matching(m)) /\ e' = i /\ pc' = "call"
       \/ Matching(m) = {} /\ pc' = "default" /\ e' = 0
    /\ UNCHANGED <<routes, filterOf, callbackOf, log>>

\* The lock is given up, then the callback is read and called.
CallRoute ==
    /\ pc = "call"
    /\ log' = Append(log, [topic |-> message, handler |-> callbackOf[e]])
    /\ pc' = "running"
    /\ UNCHANGED <<routes, filterOf, callbackOf, message, e>>

\* e.Next() and on to the next match: nothing follows an element that was removed.
Following == IF e \in routes THEN {i \in Matching(message) : i > e} ELSE {}

\* Mutant: the walk starts again at the front after a handler.
NextRouteRestarts ==
    /\ pc = "running"
    /\ \/ \E i \in routes : IsFirst(i, Matching(message) \ {e}) /\ e' = i /\ pc' = "call"
          /\ UNCHANGED message
       \/ Matching(message) \ {e} = {} /\ pc' = "select" /\ e' = 0 /\ message' = "none"
    /\ UNCHANGED <<routes, filterOf, callbackOf, log>>

NextRoute ==
    /\ pc = "running"
    /\ \/ \E i \in routes : IsFirst(i, Following) /\ e' = i /\ pc' = "call" /\ UNCHANGED message
       \/ Following = {} /\ pc' = "select" /\ e' = 0 /\ message' = "none"
    /\ UNCHANGED <<routes, filterOf, callbackOf, log>>

\* The default handler runs under the read lock.
Default ==
    /\ \/ /\ pc = "default" /\ pc' = "defaulted"
          /\ log' = Append(log, [topic |-> message, handler |-> "default"])
          /\ UNCHANGED <<message, e>>
       \/ pc = "defaulted" /\ pc' = "select" /\ e' = 0 /\ message' = "none" /\ UNCHANGED log
    /\ UNCHANGED <<routes, filterOf, callbackOf>>

Next ==
    \/ \E f \in Filters : addRoute(f) \/ deleteRoute(f)
    \/ \E m \in Topics : Receive(m)
    \/ CallRoute \/ NextRoute \/ Default

Spec == Init /\ [][Next]_rvars

-----------------------------------------------------------------------------
\* The element the walk is at was made, though it may have been removed.
TypeOK ==
    /\ filterOf \in Seq(Filters) /\ callbackOf \in Seq(Filters)
    /\ Len(callbackOf) = Len(filterOf) /\ routes \subseteq 1..Len(filterOf)
    /\ pc \in {"select", "call", "running", "default", "defaulted"}
    /\ pc # "select" => message \in Topics
    /\ IF pc \in {"call", "running"} THEN e \in 1..Len(filterOf) ELSE e = 0
    /\ log \in Seq([topic : Topics, handler : Filters \cup {"default"}])

\* The routes that have yet to serve the message are those behind the walk.
Table == INSTANCE RouteTable WITH
    table <- routes, handlerOf <- callbackOf,
    serving <- IF pc = "select" THEN "idle" ELSE message,
    current <- e, called <- IF pc \in {"running", "defaulted"} THEN "yes" ELSE "no",
    owed <- IF pc \in {"call", "running"} THEN Following ELSE {}

\* The walk, with its locks given up and taken again while others change the list,
\* serves every message as RouteTable says: each matching route once, with the
\* callback it has when it is called, and the default handler if none matches.
ImplementsTable == Table!TSpec

\* A handler is called for a message on the topic it was provided for (client.go, the
\* comment of Subscribe).  addRoute breaks that: a filter that an earlier one covers
\* puts its handler in the place of the other's.
HandlerFits == \A n \in DOMAIN log :
    log[n].handler = "default" \/ Matches(log[n].handler, log[n].topic)
=============================================================================
