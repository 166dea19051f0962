------------------------------- MODULE Plumber -------------------------------
(***************************************************************************)
(* mqtt-plumber on one live broker connection: the goroutines of           *)
(* mqtt-plumber.go (main, the stdin reader, the message handlers) and the  *)
(* goroutines of the paho client they run on (incoming, outgoing, alllogic *)
(* and the router of matchAndDispatch), joined by their Go channels.       *)
(*                                                                         *)
(* A message is known by its number in msgs, the sequence the broker sent; *)
(* a packet carries the number of the message, subscription or input line  *)
(* it belongs to.  (MessageIds shows that the 16-bit identifiers of the    *)
(* code name the right flow.)  Watched topics do not overlap, so a topic   *)
(* is the number of its subscription.  Losing the connection is the        *)
(* subject of Connection.                                                  *)
(***************************************************************************)
EXTENDS Integers, Sequences, FiniteSets

CONSTANTS
    NWatch,     \* number of topics on the --watch list
    Sys,        \* --sys: also subscribe to $SYS/#, without waiting
    Clean,      \* --clean: the broker keeps no session for this client
    Verbose,    \* --verbose: installs the default publish handler
    Qos,        \* --qos, of subscriptions and of publications
    PubCap,     \* capacity of incomingPubChan (100 in the code)
    OutCap,     \* capacity of obound and of oboundP (100 in the code)
    MaxMsgs,    \* bound: messages the broker sends
    MaxLines,   \* bound: lines read from stdin
    MayRefuse,  \* the broker may answer a SUBSCRIBE with failure (0x80)
    MayPanic    \* a payload may not be JSON, or the database may fail

ASSUME PlumberAssumption ==
    /\ NWatch \in Nat /\ MaxMsgs \in Nat /\ MaxLines \in Nat
    /\ Qos \in 0..2
    /\ PubCap \in Nat \ {0} /\ OutCap \in Nat \ {0}
    /\ {Sys, Clean, Verbose, MayRefuse, MayPanic} \subseteq BOOLEAN

NSubs == NWatch + (IF Sys THEN 1 ELSE 0)

\* main waits for the token of every subscription but that of $SYS/#.
Waits(i) == ~(Sys /\ i = 1)

VARIABLES
    proc,             \* the process: "up", "exited" or "panicked"
    main,             \* main's position, the subscription it is at, publications made
    subscriptions,    \* the subscriptions reported as successful, in order
    received, sent,   \* the two counters of the prompt
    stdin,            \* the reader goroutine: position, lines read, is the line a message
    obound, oboundP,  \* channels to outgoing: publications; other packets
    toBroker,         \* packets written to the connection
    toClient,         \* packets the broker wrote
    ibound,           \* the packet incoming holds, waiting for alllogic (0 or 1)
    logic,            \* alllogic: its position and the number of the packet at hand
    incomingPubChan,  \* channel from alllogic to the router
    router,           \* the router: its position and the message at hand
    routes,           \* topics that have a route
    db,               \* messages written to InfluxDB, in order
    subDone, pubDone, \* tokens completed: of subscriptions, of publications
    granted,          \* broker: subscriptions in force
    msgs,             \* broker: every message sent
    got,              \* broker: publications received
    acked             \* broker: messages whose receipt the client confirmed

mainVars   == <<proc, main, subscriptions, received, sent>>
outVars    == <<obound, oboundP>>
routerVars == <<incomingPubChan, router, routes, db>>
tokenVars  == <<subDone, pubDone>>
brokerVars == <<granted, msgs, got, acked>>
vars == <<mainVars, stdin, outVars, toBroker, toClient, ibound, logic,
          routerVars, tokenVars, brokerVars>>

InType  == {"PUBLISH", "SUBACK", "PUBACK", "PUBREC", "PUBREL", "PUBCOMP"}
OutType == {"PUBLISH", "SUBSCRIBE", "PUBACK", "PUBREC", "PUBREL", "PUBCOMP"}

InPkt   == [type : InType, id : Nat]
OutPkt  == [type : OutType, id : Nat]

Pkt(t, i) == [type |-> t, id |-> i]

Stored(n) == \E i \in DOMAIN db : db[i] = n
-----------------------------------------------------------------------------
(* Connect has returned: its goroutines run, nothing is in flight.  With a *)
(* kept session the broker still has the subscriptions of an earlier run.  *)
Init ==
    /\ proc = "up"
    /\ main = [pc |-> IF NSubs = 0 THEN "select" ELSE "route", sub |-> 1, pub |-> 0]
    /\ subscriptions = <<>> /\ received = 0 /\ sent = 0
    /\ stdin = [pc |-> "read", lines |-> 0, text |-> FALSE]
    /\ obound = <<>> /\ oboundP = <<>> /\ toBroker = <<>>
    /\ toClient = <<>> /\ ibound = <<>>
    /\ logic = [pc |-> "select", id |-> 0]
    /\ incomingPubChan = <<>>
    /\ router = [pc |-> "select", id |-> 0]
    /\ routes = {} /\ db = <<>>
    /\ subDone = {} /\ pubDone = {}
    /\ granted = IF Clean THEN {} ELSE 1..NSubs
    /\ msgs = <<>> /\ got = {} /\ acked = {}
-----------------------------------------------------------------------------
(* main: the start-up subscriptions, then the select loop.                 *)

NextSub == main' = [main EXCEPT !.sub = @ + 1,
                                !.pc = IF main.sub = NSubs THEN "select" ELSE "route"]

\* Subscribe: addRoute takes the router's lock for writing, which the router
\* holds for reading while the default handler runs.
AddRoute ==
    /\ proc = "up" /\ main.pc = "route"
    /\ router.pc # "default"
    /\ routes' = routes \cup {main.sub}
    /\ main' = [main EXCEPT !.pc = "subscribe"]
    /\ UNCHANGED <<proc, subscriptions, received, sent, stdin, outVars, toBroker, toClient,
                   ibound, logic, incomingPubChan, router, db, tokenVars, brokerVars>>

\* Subscribe: the packet goes to oboundP, and the caller gets the token.
Subscribe ==
    /\ proc = "up" /\ main.pc = "subscribe"
    /\ Len(oboundP) < OutCap
    /\ oboundP' = Append(oboundP, Pkt("SUBSCRIBE", main.sub))
    /\ IF Waits(main.sub) THEN main' = [main EXCEPT !.pc = "waitSub"] ELSE NextSub
    /\ UNCHANGED <<proc, subscriptions, received, sent, stdin, obound, toBroker, toClient,
                   ibound, logic, routerVars, tokenVars, brokerVars>>

\* subscribe: token.Wait() returned without an error.
Subscribed ==
    /\ proc = "up" /\ main.pc = "waitSub"
    /\ main.sub \in subDone
    /\ subscriptions' = Append(subscriptions, main.sub)
    /\ NextSub
    /\ UNCHANGED <<proc, received, sent, stdin, outVars, toBroker, toClient, ibound,
                   logic, routerVars, tokenVars, brokerVars>>

\* The loop receives from msgs: the handler that was sending returns, and the
\* router, which finds no further route for the message, selects again.
ReceiveMsg ==
    /\ proc = "up" /\ main.pc = "select"
    /\ router.pc \in {"send", "default"}
    /\ received' = received + 1
    /\ router' = [router EXCEPT !.pc = "select"]
    /\ UNCHANGED <<proc, main, subscriptions, sent, stdin, outVars, toBroker, toClient,
                   ibound, logic, incomingPubChan, routes, db, tokenVars, brokerVars>>

\* The loop receives a line: onStdinReceived returns at once for a line
\* without a message and goes on to Publish otherwise.
ReceiveLine ==
    /\ proc = "up" /\ main.pc = "select"
    /\ stdin.pc = "send"
    /\ stdin' = [stdin EXCEPT !.pc = "read"]
    /\ IF stdin.text
       THEN main' = [main EXCEPT !.pc = "publish", !.pub = @ + 1] /\ UNCHANGED sent
       ELSE sent' = sent + 1 /\ UNCHANGED main
    /\ UNCHANGED <<proc, subscriptions, received, outVars, toBroker, toClient, ibound,
                   logic, routerVars, tokenVars, brokerVars>>

Publish ==
    /\ proc = "up" /\ main.pc = "publish"
    /\ Len(obound) < OutCap
    /\ obound' = Append(obound, main.pub)
    /\ main' = [main EXCEPT !.pc = "waitPub"]
    /\ UNCHANGED <<proc, subscriptions, received, sent, stdin, oboundP, toBroker, toClient,
                   ibound, logic, routerVars, tokenVars, brokerVars>>

\* onStdinReceived: token.Wait() returned.
Published ==
    /\ proc = "up" /\ main.pc = "waitPub"
    /\ main.pub \in pubDone
    /\ sent' = sent + 1
    /\ main' = [main EXCEPT !.pc = "select"]
    /\ UNCHANGED <<proc, subscriptions, received, stdin, outVars, toBroker, toClient,
                   ibound, logic, routerVars, tokenVars, brokerVars>>

\* The loop finds the stdin channel closed: main returns, the process ends.
Exit ==
    /\ proc = "up" /\ main.pc = "select"
    /\ stdin.pc = "closed"
    /\ proc' = "exited"
    /\ UNCHANGED <<main, subscriptions, received, sent, stdin, outVars, toBroker, toClient,
                   ibound, logic, routerVars, tokenVars, brokerVars>>

Main == \/ AddRoute \/ Subscribe \/ Subscribed
        \/ ReceiveMsg \/ ReceiveLine \/ Publish \/ Published \/ Exit
-----------------------------------------------------------------------------
(* The stdin goroutine.                                                    *)

ReadLine ==
    /\ proc = "up" /\ stdin.pc = "read" /\ stdin.lines < MaxLines
    /\ \E text \in BOOLEAN :
          stdin' = [pc |-> "send", lines |-> stdin.lines + 1, text |-> text]
    /\ UNCHANGED <<mainVars, outVars, toBroker, toClient, ibound, logic, routerVars,
                   tokenVars, brokerVars>>

ReadEOF ==
    /\ proc = "up" /\ stdin.pc = "read"
    /\ stdin' = [stdin EXCEPT !.pc = "closed"]
    /\ UNCHANGED <<mainVars, outVars, toBroker, toClient, ibound, logic, routerVars,
                   tokenVars, brokerVars>>
-----------------------------------------------------------------------------
(* outgoing: a publication of QoS 0 is complete once written.              *)

\* Mutant: every publication is complete once written.
OutgoingPublishCompletes ==
    /\ proc = "up" /\ obound # <<>>
    /\ toBroker' = Append(toBroker, Pkt("PUBLISH", Head(obound)))
    /\ obound' = Tail(obound)
    /\ pubDone' = pubDone \cup {Head(obound)}
    /\ UNCHANGED <<mainVars, stdin, oboundP, toClient, ibound, logic, routerVars,
                   subDone, brokerVars>>

OutgoingPublish ==
    /\ proc = "up" /\ obound # <<>>
    /\ toBroker' = Append(toBroker, Pkt("PUBLISH", Head(obound)))
    /\ obound' = Tail(obound)
    /\ pubDone' = IF Qos = 0 THEN pubDone \cup {Head(obound)} ELSE pubDone
    /\ UNCHANGED <<mainVars, stdin, oboundP, toClient, ibound, logic, routerVars,
                   subDone, brokerVars>>

OutgoingPriority ==
    /\ proc = "up" /\ oboundP # <<>>
    /\ toBroker' = Append(toBroker, Head(oboundP))
    /\ oboundP' = Tail(oboundP)
    /\ UNCHANGED <<mainVars, stdin, obound, toClient, ibound, logic, routerVars,
                   tokenVars, brokerVars>>

Outgoing == OutgoingPublish \/ OutgoingPriority
-----------------------------------------------------------------------------
(* incoming reads a packet and holds it until alllogic takes it.           *)

Incoming ==
    /\ proc = "up" /\ ibound = <<>> /\ toClient # <<>>
    /\ ibound' = <<Head(toClient)>>
    /\ toClient' = Tail(toClient)
    /\ UNCHANGED <<mainVars, stdin, outVars, toBroker, logic, routerVars, tokenVars,
                   brokerVars>>
-----------------------------------------------------------------------------
(* alllogic takes a packet from ibound and acts on its type.               *)

LogicTakes(t) ==
    /\ proc = "up" /\ logic.pc = "select"
    /\ ibound # <<>> /\ ibound[1].type = t
    /\ ibound' = <<>>

\* Mutant: the answer is sent in place of the message being passed on.
LogicForwardAcksOnly ==
    /\ \/ LogicTakes("PUBLISH") /\ logic' = [pc |-> "putAck",  id |-> ibound[1].id]
       \/ LogicTakes("PUBREC")  /\ logic' = [pc |-> "putRel",  id |-> ibound[1].id]
       \/ LogicTakes("PUBREL")  /\ logic' = [pc |-> "putComp", id |-> ibound[1].id]
    /\ UNCHANGED <<mainVars, stdin, outVars, toBroker, toClient, routerVars, tokenVars,
                   brokerVars>>

\* The packets that alllogic must pass on: it goes to the blocking send.
LogicForward ==
    /\ \/ LogicTakes("PUBLISH") /\ logic' = [pc |-> "putPub",  id |-> ibound[1].id]
       \/ LogicTakes("PUBREC")  /\ logic' = [pc |-> "putRel",  id |-> ibound[1].id]
       \/ LogicTakes("PUBREL")  /\ logic' = [pc |-> "putComp", id |-> ibound[1].id]
    /\ UNCHANGED <<mainVars, stdin, outVars, toBroker, toClient, routerVars, tokenVars,
                   brokerVars>>

\* Mutant: a SUBACK does not complete its token.
LogicSubackForgets ==
    /\ LogicTakes("SUBACK")
    /\ UNCHANGED <<mainVars, stdin, outVars, toBroker, toClient, logic, routerVars, tokenVars,
                   brokerVars>>

\* Mutant: a PUBCOMP does not complete its token.
LogicPubAckedQos1 ==
    /\ LogicTakes("PUBACK") \/ LogicTakes("PUBCOMP")
    /\ pubDone' = IF ibound[1].type = "PUBACK" THEN pubDone \cup {ibound[1].id} ELSE pubDone
    /\ UNCHANGED <<mainVars, stdin, outVars, toBroker, toClient, logic, routerVars, subDone,
                   brokerVars>>

\* The packets that complete a token.
LogicSuback ==
    /\ LogicTakes("SUBACK")
    /\ subDone' = subDone \cup {ibound[1].id}
    /\ UNCHANGED <<mainVars, stdin, outVars, toBroker, toClient, logic, routerVars, pubDone,
                   brokerVars>>

LogicPubAcked ==
    /\ LogicTakes("PUBACK") \/ LogicTakes("PUBCOMP")
    /\ pubDone' = pubDone \cup {ibound[1].id}
    /\ UNCHANGED <<mainVars, stdin, outVars, toBroker, toClient, logic, routerVars, subDone,
                   brokerVars>>

\* Mutant: the message is dropped when the channel is full.
LogicPutPubDrops ==
    /\ proc = "up" /\ logic.pc = "putPub"
    /\ incomingPubChan' = IF Len(incomingPubChan) < PubCap
                          THEN Append(incomingPubChan, logic.id) ELSE incomingPubChan
    /\ logic' = [logic EXCEPT !.pc = IF msgs[logic.id].qos = 0 THEN "select" ELSE "putAck"]
    /\ UNCHANGED <<mainVars, stdin, outVars, toBroker, toClient, ibound, router, routes, db,
                   tokenVars, brokerVars>>

\* Mutant: the channel is not bounded.
LogicPutPubUnbounded ==
    /\ proc = "up" /\ logic.pc = "putPub"
    /\ incomingPubChan' = Append(incomingPubChan, logic.id)
    /\ logic' = [logic EXCEPT !.pc = IF msgs[logic.id].qos = 0 THEN "select" ELSE "putAck"]
    /\ UNCHANGED <<mainVars, stdin, outVars, toBroker, toClient, ibound, router, routes, db,
                   tokenVars, brokerVars>>

\* c.incomingPubChan <- pp blocks while the channel is full.
LogicPutPub ==
    /\ proc = "up" /\ logic.pc = "putPub"
    /\ Len(incomingPubChan) < PubCap
    /\ incomingPubChan' = Append(incomingPubChan, logic.id)
    /\ logic' = [logic EXCEPT !.pc = IF msgs[logic.id].qos = 0 THEN "select" ELSE "putAck"]
    /\ UNCHANGED <<mainVars, stdin, outVars, toBroker, toClient, ibound, router, routes, db,
                   tokenVars, brokerVars>>

AckType == IF logic.pc = "putRel" THEN "PUBREL"
           ELSE IF logic.pc = "putComp" THEN "PUBCOMP"
           ELSE IF msgs[logic.id].qos = 1 THEN "PUBACK" ELSE "PUBREC"

\* c.oboundP <- the answer to the packet at hand.
LogicPutAck ==
    /\ proc = "up" /\ logic.pc \in {"putAck", "putRel", "putComp"}
    /\ Len(oboundP) < OutCap
    /\ oboundP' = Append(oboundP, Pkt(AckType, logic.id))
    /\ logic' = [logic EXCEPT !.pc = "select"]
    /\ UNCHANGED <<mainVars, stdin, obound, toBroker, toClient, ibound, routerVars,
                   tokenVars, brokerVars>>

\* A PUBREL or PUBCOMP that oboundP does not take within a second is dropped.
LogicTimeout ==
    /\ proc = "up" /\ logic.pc \in {"putRel", "putComp"}
    /\ Len(oboundP) = OutCap
    /\ logic' = [logic EXCEPT !.pc = "select"]
    /\ UNCHANGED <<mainVars, stdin, outVars, toBroker, toClient, ibound, routerVars,
                   tokenVars, brokerVars>>

Logic == \/ LogicForward \/ LogicSuback \/ LogicPubAcked
         \/ LogicPutPub \/ LogicPutAck \/ LogicTimeout
-----------------------------------------------------------------------------
(* The router runs the handlers itself (Order is true by default).         *)

\* Mutant: the message stays in the channel.
DispatchPeeks ==
    /\ proc = "up" /\ router.pc = "select"
    /\ incomingPubChan # <<>>
    /\ LET n == Head(incomingPubChan) IN
       router' = [id |-> n,
                  pc |-> IF msgs[n].topic \in routes THEN "handle"
                         ELSE IF Verbose THEN "unmatched" ELSE "select"]
    /\ UNCHANGED <<mainVars, stdin, outVars, toBroker, toClient, ibound, logic,
                   incomingPubChan, routes, db, tokenVars, brokerVars>>

\* matchAndDispatch: the route's callback, the default handler, or neither.
Dispatch ==
    /\ proc = "up" /\ router.pc = "select"
    /\ incomingPubChan # <<>>
    /\ incomingPubChan' = Tail(incomingPubChan)
    /\ LET n == Head(incomingPubChan) IN
       router' = [id |-> n,
                  pc |-> IF msgs[n].topic \in routes THEN "handle"
                         ELSE IF Verbose THEN "unmatched" ELSE "select"]
    /\ UNCHANGED <<mainVars, stdin, outVars, toBroker, toClient, ibound, logic, routes, db,
                   tokenVars, brokerVars>>

\* The default handler runs under the router's lock, taken anew for it.
RunDefault ==
    /\ proc = "up" /\ router.pc = "unmatched"
    /\ router' = [router EXCEPT !.pc = "default"]
    /\ UNCHANGED <<mainVars, stdin, outVars, toBroker, toClient, ibound, logic,
                   incomingPubChan, routes, db, tokenVars, brokerVars>>

\* Mutant: the handler runs again after it persisted.
PersistTwice ==
    /\ proc = "up" /\ router.pc = "handle"
    /\ db' = IF msgs[router.id].dup THEN db ELSE Append(db, router.id)
    /\ router' = [router EXCEPT !.pc = IF Stored(router.id) THEN "send" ELSE "handle"]
    /\ UNCHANGED <<mainVars, stdin, outVars, toBroker, toClient, ibound, logic,
                   incomingPubChan, routes, tokenVars, brokerVars>>

\* onSysMessageReceived and onTopicMessageReceived: persist unless it is a
\* duplicate, then send on msgs.
Persist ==
    /\ proc = "up" /\ router.pc = "handle"
    /\ db' = IF msgs[router.id].dup THEN db ELSE Append(db, router.id)
    /\ router' = [router EXCEPT !.pc = "send"]
    /\ UNCHANGED <<mainVars, stdin, outVars, toBroker, toClient, ibound, logic,
                   incomingPubChan, routes, tokenVars, brokerVars>>

\* persist panics: the payload is not a JSON object, or WriteSeries failed.
PersistPanics ==
    /\ MayPanic
    /\ proc = "up" /\ router.pc = "handle" /\ ~msgs[router.id].dup
    /\ proc' = "panicked"
    /\ UNCHANGED <<main, subscriptions, received, sent, stdin, outVars, toBroker, toClient,
                   ibound, logic, routerVars, tokenVars, brokerVars>>

Router == Dispatch \/ RunDefault \/ Persist \/ PersistPanics
-----------------------------------------------------------------------------
(* The broker (external).  It answers in order, and sends messages on the  *)
(* topics it has subscriptions for.  Messages sent again, flagged dup,     *)
(* come first, and only in a kept session.                                 *)

BrokerTakes(t) ==
    /\ toBroker # <<>> /\ Head(toBroker).type = t
    /\ toBroker' = Tail(toBroker)

BrokerSubscribe ==
    /\ BrokerTakes("SUBSCRIBE")
    /\ \/ granted' = granted \cup {Head(toBroker).id}
       \/ MayRefuse /\ granted' = granted \ {Head(toBroker).id}
    /\ toClient' = Append(toClient, Pkt("SUBACK", Head(toBroker).id))
    /\ UNCHANGED <<mainVars, stdin, outVars, ibound, logic, routerVars, tokenVars, msgs, got,
                   acked>>

BrokerPublish ==
    /\ BrokerTakes("PUBLISH")
    /\ got' = got \cup {Head(toBroker).id}
    /\ toClient' = CASE Qos = 0 -> toClient
                     [] Qos = 1 -> Append(toClient, Pkt("PUBACK", Head(toBroker).id))
                     [] Qos = 2 -> Append(toClient, Pkt("PUBREC", Head(toBroker).id))
    /\ UNCHANGED <<mainVars, stdin, outVars, ibound, logic, routerVars, tokenVars, granted,
                   msgs, acked>>

BrokerPubrel ==
    /\ BrokerTakes("PUBREL")
    /\ toClient' = Append(toClient, Pkt("PUBCOMP", Head(toBroker).id))
    /\ UNCHANGED <<mainVars, stdin, outVars, ibound, logic, routerVars, tokenVars, brokerVars>>

BrokerAcked ==
    /\ \/ BrokerTakes("PUBACK")  /\ UNCHANGED toClient
       \/ BrokerTakes("PUBREC")  /\ toClient' = Append(toClient, Pkt("PUBREL", Head(toBroker).id))
       \/ BrokerTakes("PUBCOMP") /\ UNCHANGED toClient
    /\ acked' = acked \cup {Head(toBroker).id}
    /\ UNCHANGED <<mainVars, stdin, outVars, ibound, logic, routerVars, tokenVars, granted,
                   msgs, got>>

BrokerReplies == BrokerSubscribe \/ BrokerPublish \/ BrokerPubrel \/ BrokerAcked

BrokerSends ==
    /\ Len(msgs) < MaxMsgs
    /\ \E t \in granted, q \in 0..Qos, dup \in BOOLEAN :
          /\ dup => ~Clean /\ q > 0 /\ \A n \in DOMAIN msgs : msgs[n].dup
          /\ msgs' = Append(msgs, [topic |-> t, qos |-> q, dup |-> dup])
          /\ toClient' = Append(toClient, Pkt("PUBLISH", Len(msgs) + 1))
    /\ UNCHANGED <<mainVars, stdin, outVars, toBroker, ibound, logic, routerVars, tokenVars,
                   granted, got, acked>>
-----------------------------------------------------------------------------
Next == \/ Main \/ ReadLine \/ ReadEOF \/ Outgoing \/ Incoming \/ Logic \/ Router
        \/ BrokerReplies \/ BrokerSends

\* Every goroutine that can run does run, and the broker answers; nobody has
\* to send a message or type a line.
Fairness ==
    /\ WF_vars(Main) /\ WF_vars(Outgoing) /\ WF_vars(Incoming)
    /\ WF_vars(Logic) /\ WF_vars(Router) /\ WF_vars(BrokerReplies)

Spec     == Init /\ [][Next]_vars
FairSpec == Spec /\ Fairness
-----------------------------------------------------------------------------
MainTypeOK ==
    /\ proc \in {"up", "exited", "panicked"}
    /\ main \in [pc : {"route", "subscribe", "waitSub", "select", "publish", "waitPub"},
                 sub : 1..NSubs+1, pub : 0..MaxLines]
    /\ subscriptions \in Seq(1..NSubs) /\ received \in Nat /\ sent \in Nat
    /\ stdin \in [pc : {"read", "send", "closed"}, lines : 0..MaxLines, text : BOOLEAN]

SendTypeOK ==
    /\ obound \in Seq(Nat) /\ Len(obound) <= OutCap
    /\ oboundP \in Seq(OutPkt) /\ Len(oboundP) <= OutCap
    /\ toBroker \in Seq(OutPkt)

ReceiveTypeOK ==
    /\ toClient \in Seq(InPkt)
    /\ ibound \in Seq(InPkt) /\ Len(ibound) <= 1
    /\ logic \in [pc : {"select", "putPub", "putAck", "putRel", "putComp"}, id : Nat]

RouterTypeOK ==
    /\ incomingPubChan \in Seq(Nat) /\ Len(incomingPubChan) <= PubCap
    /\ router \in [pc : {"select", "handle", "send", "unmatched", "default"}, id : Nat]
    /\ routes \subseteq 1..NSubs /\ db \in Seq(Nat)

PeerTypeOK ==
    /\ subDone \subseteq Nat /\ pubDone \subseteq Nat /\ granted \subseteq Nat
    /\ msgs \in Seq([topic : Nat, qos : 0..2, dup : BOOLEAN])
    /\ got \subseteq Nat /\ acked \subseteq Nat

\* Every variable has its type, and no channel holds more than its capacity.
TypeOK == MainTypeOK /\ SendTypeOK /\ ReceiveTypeOK /\ RouterTypeOK /\ PeerTypeOK

\* Messages reach the database in the order the broker sent them, and none
\* twice: what SetOrderMatters promises (Order is left at true), through four
\* goroutines, two unbuffered rendezvous and a buffered channel.
StoredInOrder == \A i, j \in DOMAIN db : i < j => db[i] < db[j]

\* Message n is on its way to the database.
InPipe(n) ==
    \/ \E i \in DOMAIN toClient : toClient[i] = Pkt("PUBLISH", n)
    \/ ibound = <<Pkt("PUBLISH", n)>>
    \/ logic.pc = "putPub" /\ logic.id = n
    \/ \E i \in DOMAIN incomingPubChan : incomingPubChan[i] = n
    \/ router.pc = "handle" /\ router.id = n

\* No goroutine drops a message: what the broker sent is in the database or
\* still on its way there.  Messages flagged as duplicates are not persisted.
NothingLost ==
    \A n \in DOMAIN msgs : InPipe(n) \/ Stored(n) \/ msgs[n].dup

\* A message is confirmed to the broker (PUBACK, PUBREC) only once it is out
\* of alllogic's hands: from then on only the router can lose it.
AckedIsQueued ==
    \A n \in acked : \/ \E i \in DOMAIN incomingPubChan : incomingPubChan[i] = n
                     \/ router.pc = "handle" /\ router.id = n
                     \/ Stored(n) \/ msgs[n].dup

\* token.go: Wait returns once the publication is "sent and confirmed receipt
\* from the broker", so the broker has what a completed token stands for.
ConfirmedPublish == Qos > 0 => pubDone \subseteq got

\* The prompt's received counter counts exactly the messages stored, but for
\* the one whose handler waits for main: it is never ahead of the database.
\* (In a kept session duplicates, and what the default handler shows, are
\* counted as well; in a clean one there is nothing for that handler.)
CountedIsStored ==
    Clean => Len(db) = received + (IF router.pc = "send" THEN 1 ELSE 0)

\* subscriptions, which is to "track successful topic subscriptions", holds
\* only topics for which the broker granted the subscription.
SubscriptionsGranted == \A i \in DOMAIN subscriptions : subscriptions[i] \in granted

\* Main waits for an answer that alllogic cannot read, alllogic for room in
\* incomingPubChan, the router for main: nobody ever moves again.
Wedged ==
    /\ \/ main.pc = "waitSub" /\ main.sub \notin subDone
       \/ main.pc = "waitPub" /\ main.pub \notin pubDone
    /\ router.pc \in {"send", "default"}
    /\ logic.pc = "putPub" /\ Len(incomingPubChan) = PubCap

NoWedge == ~Wedged

\* Start-up ends: every subscription is made and main reaches its loop.
StartUpCompletes == <>(main.sub > NSubs \/ proc # "up")

\* A message the broker sent is eventually in the database.
EveryMessageStored ==
    \A n \in 1..MaxMsgs : (n \in DOMAIN msgs) ~> (Stored(n) \/ proc # "up")

\* token.go: "Wait will wait indefinitely for the Token to complete, ie the
\* Publish to be sent and confirmed receipt from the broker": a publication
\* the broker has received lets main go on.
ReceivedPublishReturns ==
    \A k \in 1..MaxLines :
        (k \in got /\ main.pub = k) ~> (main.pc = "select" \/ proc # "up")
-----------------------------------------------------------------------------
(* Plumber implements Ingest: a message is taken when it leaves the pipe,  *)
(* and at most the router's hands and a full channel are confirmed ahead.  *)

Taken == Cardinality({n \in DOMAIN msgs : ~InPipe(n)})

I == INSTANCE Ingest WITH
        Kept <- ~Clean, Window <- PubCap + 1,
        sent <- [n \in DOMAIN msgs |-> msgs[n].dup],
        taken <- Taken, stored <- db, confirmed <- acked

\* Every step of the goroutines and the broker is a step of the tap, or none.
ImplementsIngest == I!ISpec
=============================================================================
