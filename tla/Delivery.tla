------------------------------ MODULE Delivery ------------------------------
(***************************************************************************)
(* One watched topic across lost connections and restarts: the broker's    *)
(* session, the packets on the wire, the channels of the client that       *)
(* outlive a connection, and the handler that stores what is not flagged   *)
(* as a duplicate.  Inside one connection this is Plumber's subject; here  *)
(* a message is followed from one connection, and process, to the next.    *)
(***************************************************************************)
EXTENDS Integers, Sequences

CONSTANT MaxEvents    \* bound: messages published, connections lost, and deaths together

VARIABLES clean,       \* --clean: the broker keeps no session
          qos,         \* of every message published
          broker,      \* what the broker has to do about each: "send", "resend", wait
                       \* ("sent"), "release", wait ("released"), or nothing ("done")
          subscribed,  \* the broker has the subscription
          link,        \* the connection: "up" or "down"
          down, upward,  \* packets on the wire, to the client and to the broker
          logic,       \* the answer alllogic has yet to queue
          oboundP,     \* answers queued
          incomingPubChan,
          routed,      \* main has subscribed: the router has the route
          db,          \* the messages stored
          lost,        \* per message: why its first copy did not get to the database
          losses, deaths

deliveryVars == <<clean, qos, broker, subscribed, link, down, upward, logic, oboundP,
                  incomingPubChan, routed, db, lost, losses, deaths>>
brokerVars == <<clean, qos, broker, subscribed>>
wireVars == <<link, down, upward, losses, deaths>>
clientVars == <<logic, oboundP, incomingPubChan, routed, db>>

Nothing == [type |-> "none", n |-> 0, dup |-> FALSE]
Packet(type, n, dup) == [type |-> type, n |-> n, dup |-> dup]

\* The messages whose first copy is in a sequence of packets.
First(ps) == {n \in DOMAIN qos : \E i \in DOMAIN ps : ps[i] = Packet("PUBLISH", n, FALSE)}

DeliveryInit ==
    /\ clean \in BOOLEAN /\ qos = <<>> /\ broker = <<>> /\ subscribed = FALSE
    /\ link = "up" /\ down = <<>> /\ upward = <<>>
    /\ logic = Nothing /\ oboundP = <<>> /\ incomingPubChan = <<>>
    /\ routed = FALSE /\ db = <<>> /\ lost = <<>> /\ losses = 0 /\ deaths = 0

-----------------------------------------------------------------------------
(* The broker.                                                             *)

Events == Len(qos) + losses + deaths
Started == routed \/ losses + deaths > 0

Publish ==
    /\ Started /\ Events < MaxEvents
    /\ \E q \in 0..2 : qos' = Append(qos, q)
    /\ broker' = Append(broker, IF subscribed THEN "send" ELSE "done")
    /\ lost' = Append(lost, IF subscribed THEN "no" ELSE "unsubscribed")
    /\ UNCHANGED <<clean, subscribed, wireVars, clientVars>>

\* In the order of publication; after a message of QoS 0 there is nothing to wait for.
BrokerSends ==
    /\ link = "up"
    /\ \E n \in DOMAIN broker :
          /\ broker[n] \in {"send", "resend", "release"}
          /\ \A m \in 1..n-1 : broker[m] \notin {"send", "resend", "release"}
          /\ down' = Append(down, IF broker[n] = "release" THEN Packet("PUBREL", n, FALSE)
                                  ELSE Packet("PUBLISH", n, broker[n] = "resend"))
          /\ broker' = [broker EXCEPT ![n] = CASE @ = "release" -> "released"
                                               [] qos[n] = 0 -> "done"
                                               [] OTHER -> "sent"]
    /\ UNCHANGED <<clean, qos, subscribed, link, upward, losses, deaths, clientVars, lost>>

BrokerReceives ==
    /\ link = "up" /\ upward # <<>>
    /\ broker' = [broker EXCEPT ![Head(upward).n] =
                    IF Head(upward).type = "PUBREC" THEN "release" ELSE "done"]
    /\ upward' = Tail(upward)
    /\ UNCHANGED <<clean, qos, subscribed, link, down, losses, deaths, clientVars, lost>>

-----------------------------------------------------------------------------
(* The client.                                                             *)

\* alllogic passes a message on, flagged or not, and only then queues the answer.
Arrive ==
    /\ link = "up" /\ down # <<>> /\ logic = Nothing
    /\ LET p == Head(down) IN
          IF p.type = "PUBREL"
          THEN logic' = Packet("PUBCOMP", p.n, FALSE) /\ UNCHANGED incomingPubChan
          ELSE /\ incomingPubChan' = Append(incomingPubChan, p)
               /\ logic' = CASE qos[p.n] = 0 -> Nothing
                             [] qos[p.n] = 1 -> Packet("PUBACK", p.n, FALSE)
                             [] qos[p.n] = 2 -> Packet("PUBREC", p.n, FALSE)
    /\ down' = Tail(down)
    /\ UNCHANGED <<brokerVars, link, upward, losses, deaths, oboundP, routed, db, lost>>

Answer ==
    /\ logic # Nothing
    /\ oboundP' = Append(oboundP, logic) /\ logic' = Nothing
    /\ UNCHANGED <<brokerVars, wireVars, incomingPubChan, routed, db, lost>>

\* outgoing writes an answer, also one that an earlier connection left.
WriteAnswer ==
    /\ link = "up" /\ oboundP # <<>>
    /\ upward' = Append(upward, Head(oboundP)) /\ oboundP' = Tail(oboundP)
    /\ UNCHANGED <<brokerVars, link, down, losses, deaths, logic, incomingPubChan, routed, db, lost>>

\* Mutant: a duplicate is stored like any message.
HandleDuplicate ==
    /\ incomingPubChan # <<>>
    /\ LET p == Head(incomingPubChan) IN
          /\ db' = IF routed THEN Append(db, p.n) ELSE db
          /\ lost' = IF ~routed /\ ~p.dup THEN [lost EXCEPT ![p.n] = "unrouted"] ELSE lost
    /\ incomingPubChan' = Tail(incomingPubChan)
    /\ UNCHANGED <<brokerVars, wireVars, logic, oboundP, routed>>

\* The router and onTopicMessageReceived: a duplicate is shown and not stored.
Handle ==
    /\ incomingPubChan # <<>>
    /\ LET p == Head(incomingPubChan) IN
          /\ db' = IF routed /\ ~p.dup THEN Append(db, p.n) ELSE db
          /\ lost' = IF ~routed /\ ~p.dup THEN [lost EXCEPT ![p.n] = "unrouted"] ELSE lost
    /\ incomingPubChan' = Tail(incomingPubChan)
    /\ UNCHANGED <<brokerVars, wireVars, logic, oboundP, routed>>

\* main subscribes, once in the life of the process.
Subscribe ==
    /\ link = "up" /\ ~routed
    /\ routed' = TRUE /\ subscribed' = TRUE
    /\ UNCHANGED <<clean, qos, broker, wireVars, logic, oboundP, incomingPubChan, db, lost>>

-----------------------------------------------------------------------------
(* Faults.                                                                 *)

\* What the broker makes of the end of a connection: a kept session sends again what
\* was not answered, a clean one forgets everything, the subscription too.
SessionAfter ==
    /\ subscribed' = (subscribed /\ ~clean)
    /\ broker' = [n \in DOMAIN broker |->
                    IF clean THEN "done"
                    ELSE CASE broker[n] = "sent" -> "resend"
                           [] broker[n] = "released" -> "release"
                           [] OTHER -> broker[n]]

\* The first copies that a fault takes away: on the wire, those a clean session had yet
\* to send, and those in the process if it dies.
LostIn(wire, process) ==
    lost' = [n \in DOMAIN lost |->
               CASE n \in wire -> "wire"
                 [] n \in process -> "process"
                 [] n \notin wire \cup process /\ clean /\ broker[n] = "send" -> "session"
                 [] OTHER -> lost[n]]

\* The connection goes, with what is on the wire or in incoming's hands.  The channels
\* stay: only Connect makes them.
Lose ==
    /\ link = "up" /\ Started /\ Events < MaxEvents
    /\ losses' = losses + 1 /\ link' = "down" /\ down' = <<>> /\ upward' = <<>>
    /\ SessionAfter /\ LostIn(First(down), {})
    /\ UNCHANGED <<clean, qos, deaths, clientVars>>

Reconnect ==
    /\ link = "down" /\ link' = "up"
    /\ UNCHANGED <<brokerVars, down, upward, losses, deaths, clientVars, lost>>

\* mqtt-plumber dies, with its channels, and is started again.
Die ==
    /\ Started /\ Events < MaxEvents
    /\ deaths' = deaths + 1 /\ link' = "down" /\ down' = <<>> /\ upward' = <<>>
    /\ IF link = "up" THEN SessionAfter ELSE UNCHANGED <<broker, subscribed>>
    /\ LostIn(First(down), First(incomingPubChan))
    /\ logic' = Nothing /\ oboundP' = <<>> /\ incomingPubChan' = <<>> /\ routed' = FALSE
    /\ UNCHANGED <<clean, qos, db, losses>>

DeliveryNext ==
    \/ Publish \/ BrokerSends \/ BrokerReceives
    \/ Arrive \/ Answer \/ WriteAnswer \/ Handle \/ Subscribe
    \/ Lose \/ Reconnect \/ Die

DeliverySpec == DeliveryInit /\ [][DeliveryNext]_deliveryVars

-----------------------------------------------------------------------------
Stored(n) == \E i \in DOMAIN db : db[i] = n
OnItsWay(n) == broker[n] = "send" \/ n \in First(down) \/ n \in First(incomingPubChan)

\* No message is stored twice, however often the broker sends it.  A message whose first
\* copy is lost is never stored: the copies that follow are flagged, and only shown.
\* While mqtt-plumber lives and its session is kept that happens to nothing but what was
\* on the wire when a connection broke; a clean session also loses what is published
\* after that, since nothing subscribes again; and what the broker was told it can
\* forget is stored, or will be unless the process dies.
StoredOnce ==
    /\ \A i, j \in DOMAIN db : db[i] = db[j] => i = j
    /\ \A n \in DOMAIN qos :
          /\ Stored(n) => lost[n] = "no"
          /\ lost[n] = "no" => Stored(n) \/ OnItsWay(n)
          /\ deaths = 0 /\ ~clean => lost[n] \in {"no", "wire"}
          /\ lost[n] \in {"wire", "unsubscribed", "session"} => losses + deaths > 0
          /\ lost[n] \in {"unsubscribed", "session"} => clean
          /\ broker[n] \in {"release", "released", "done"} /\ qos[n] > 0 /\ lost[n] = "no"
                => Stored(n) \/ n \in First(incomingPubChan)
=============================================================================
