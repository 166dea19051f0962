----------------------------- MODULE RouteTable -----------------------------
(***************************************************************************)
(* What the router promises, with no list, walk or lock.  There is a set   *)
(* of routes, each with a filter and a handler.  A subscription whose      *)
(* filter is under a route's takes that route over; otherwise it adds one. *)
(* A message is served by the routes that match it, one after the other    *)
(* and each once, also by one added meanwhile; a message that no route     *)
(* matches goes to the default handler.  Only removing the very route that *)
(* is serving a message deprives the others of it.                         *)
(***************************************************************************)
EXTENDS Integers, Sequences

CONSTANTS Filters, Topics, Matches(_, _)

VARIABLES table,      \* the routes, by number
          filterOf,   \* the filter of every route there has been
          handlerOf,  \* its handler, named by the filter it was given for
          serving,    \* the message being served, or the router is "idle"
          current,    \* the route that serves it, 0 is the default handler
          called,     \* "yes" if its handler has been called
          owed,       \* the routes that have yet to serve it
          log         \* the calls made: topic and handler

tvars == <<table, filterOf, handlerOf, serving, current, called, owed, log>>

Under(f) == {r \in table : Matches(filterOf[r], f)}

TInit ==
    /\ table = {} /\ filterOf = <<>> /\ handlerOf = <<>>
    /\ serving = "idle" /\ current = 0 /\ called = "no" /\ owed = {} /\ log = <<>>

TakeOver(f) ==
    /\ \E r \in Under(f) : handlerOf' = [handlerOf EXCEPT ![r] = f]
    /\ UNCHANGED <<table, filterOf, serving, current, called, owed, log>>

Extend(f) ==
    /\ Under(f) = {}
    /\ table' = table \cup {Len(filterOf) + 1}
    /\ filterOf' = Append(filterOf, f) /\ handlerOf' = Append(handlerOf, f)
    /\ owed' = IF serving # "idle" /\ current \in table /\ Matches(f, serving)
               THEN owed \cup {Len(filterOf) + 1} ELSE owed
    /\ UNCHANGED <<serving, current, called, log>>

Remove(f) ==
    /\ \E r \in Under(f) :
          /\ table' = table \ {r}
          /\ owed' = IF r = current THEN {} ELSE owed \ {r}
    /\ UNCHANGED <<filterOf, handlerOf, serving, current, called, log>>

Serve(m) ==
    /\ serving = "idle" /\ serving' = m /\ called' = "no"
    /\ LET rs == {r \in table : Matches(filterOf[r], m)}
       IN  IF rs = {} THEN current' = 0 /\ owed' = {}
           ELSE \E r \in rs : current' = r /\ owed' = rs \ {r}
    /\ UNCHANGED <<table, filterOf, handlerOf, log>>

Call ==
    /\ serving # "idle" /\ called = "no"
    /\ called' = "yes"
    /\ log' = Append(log, [topic |-> serving,
                           handler |-> IF current = 0 THEN "default" ELSE handlerOf[current]])
    /\ UNCHANGED <<table, filterOf, handlerOf, serving, current, owed>>

Pass ==
    /\ called = "yes" /\ called' = "no"
    /\ \/ /\ \E r \in owed : current' = r /\ owed' = owed \ {r}
          /\ UNCHANGED serving
       \/ owed = {} /\ serving' = "idle" /\ current' = 0 /\ UNCHANGED owed
    /\ UNCHANGED <<table, filterOf, handlerOf, log>>

TNext ==
    \/ \E f \in Filters : TakeOver(f) \/ Extend(f) \/ Remove(f)
    \/ \E m \in Topics : Serve(m)
    \/ Call \/ Pass

TSpec == TInit /\ [][TNext]_tvars
=============================================================================
