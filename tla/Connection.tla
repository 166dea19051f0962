------------------------------ MODULE Connection ------------------------------
(***************************************************************************)
(* The life cycle of the paho client's connection: the goroutines that     *)
(* notice its loss (incoming, outgoing, keepalive), the one that handles   *)
(* it (alllogic, or keepalive itself, in internalConnLost), the goroutine  *)
(* that reconnects, and a caller of Disconnect or ForceDisconnect.         *)
(*                                                                         *)
(* Connection s is the s-th one the client opened; it has its own stop     *)
(* channel and its own four goroutines.  c.conn, c.stop, c.errors, ibound  *)
(* and the wait group are fields of the client: a goroutine that outlives  *)
(* its connection meets those of the next one.  What the packets carry is  *)
(* the subject of Plumber.                                                 *)
(***************************************************************************)
EXTENDS Integers, FiniteSets

CONSTANTS
    Setups,         \* the situations to look at, members of Setup
    MaxConns,       \* bound: connections opened
    MaxPackets      \* bound: packets read, other than ping responses

\* The options of the client, whether the application writes to the connection,
\* what it calls at some moment, and what the network may do.
Setup == [keepAlive : BOOLEAN, autoReconnect : BOOLEAN, traffic : BOOLEAN,
          call : {"none", "Disconnect", "ForceDisconnect"},
          fault : {"none", "reset", "mute"}]

ASSUME ConnectionAssumption ==
    /\ Setups \subseteq Setup
    /\ MaxConns \in Nat \ {0} /\ MaxPackets \in Nat

Conns == 1..MaxConns

VARIABLES
    setup,            \* which of the situations it is
    proc,             \* the process: "up" or "panicked"
    connected,        \* c.connected
    conn,             \* c.conn: the number of the connection, 0 for nil
    stop,             \* c.stop: the connection it was made for, 0 before the first
    closed,           \* stop channels that are closed
    pingOutstanding,  \* c.pingOutstanding
    starting,         \* how far Connect or reconnect is with each connection
    dialling,         \* goroutines in the loop of reconnect
    outgoing,         \* per connection: position, and the stop channel it waits on
    incoming,         \* per connection: position, and the connection it reads
    alllogic,         \* per connection: position, and the stop channel it waits on
    keepalive,        \* per connection: position
    lost,             \* internalConnLost, run by a goroutine of a connection
    strays,           \* goroutines that put an error back on c.errors
    caller,           \* Disconnect or ForceDisconnect: position, stop channel
    farewell,         \* a DISCONNECT packet is in oboundP
    reports,          \* calls of OnConnectionLost, per connection
    alive,            \* network: connections open at both ends
    mute,             \* network: connections that deliver nothing any more
    pings,            \* network: connections with a ping not answered
    packets           \* network: packets delivered

fieldVars == <<setup, proc, connected, conn, stop, closed, pingOutstanding>>
startVars == <<starting, dialling>>
routines  == <<outgoing, incoming, alllogic, keepalive>>
callVars  == <<caller, farewell>>
netVars   == <<alive, mute, pings, packets>>
vars == <<fieldVars, startVars, routines, lost, strays, callVars, reports, netVars>>

Handlers == {"alllogic", "keepalive"} \X Conns

\* The wait group: keepalive is done before it calls internalConnLost, and
\* alllogic never belongs to it.
Workers ==
    {s \in Conns : \/ outgoing[s].pc \in {"top", "wait", "error"}
                   \/ incoming[s].pc \in {"read", "put", "error"}
                   \/ keepalive[s] \in {"run", "pinged"}}

Panic == /\ proc' = "panicked"
         /\ UNCHANGED <<setup, connected, conn, stop, closed, pingOutstanding, startVars, routines,
                        lost, strays, callVars, reports, netVars>>

\* Connect has been accepted by the broker and made the channels.
Init ==
    /\ setup \in Setups
    /\ proc = "up" /\ connected = FALSE /\ conn = 1
    /\ stop = 0 /\ closed = {} /\ pingOutstanding = FALSE
    /\ starting = [s \in Conns |-> IF s = 1 THEN "dialled" ELSE "no"]
    /\ dialling = 0
    /\ outgoing  = [s \in Conns |-> [pc |-> "no", stop |-> 0]]
    /\ incoming  = [s \in Conns |-> [pc |-> "no", conn |-> 0]]
    /\ alllogic  = [s \in Conns |-> [pc |-> "no", stop |-> 0]]
    /\ keepalive = [s \in Conns |-> "no"]
    /\ lost = [h \in Handlers |-> "no"]
    /\ strays = 0
    /\ caller = [pc |-> "idle", stop |-> 0] /\ farewell = FALSE
    /\ reports = [s \in Conns |-> 0]
    /\ alive = {1} /\ mute = {} /\ pings = {} /\ packets = 0
-----------------------------------------------------------------------------
(* Connect and reconnect.                                                  *)

\* An attempt to reconnect fails: no connection, or the CONNACK refuses it.
DialFails ==
    /\ proc = "up" /\ dialling > 0 /\ conn # 0
    /\ conn' = 0
    /\ UNCHANGED <<setup, proc, connected, stop, closed, pingOutstanding, startVars, routines, lost,
                   strays, callVars, reports, netVars>>

\* Mutant: a connection is opened without one being lost.
DialSucceedsUnasked(s) ==
    /\ proc = "up"
    /\ starting[s] = "no" /\ \A t \in 1..s-1 : starting[t] # "no"
    /\ dialling' = dialling - 1
    /\ conn' = s
    /\ starting' = [starting EXCEPT ![s] = "dialled"]
    /\ alive' = alive \cup {s}
    /\ UNCHANGED <<setup, proc, connected, stop, closed, pingOutstanding, routines, lost, strays,
                   callVars, reports, mute, pings, packets>>

DialSucceeds(s) ==
    /\ proc = "up" /\ dialling > 0
    /\ starting[s] = "no" /\ \A t \in 1..s-1 : starting[t] # "no"
    /\ dialling' = dialling - 1
    /\ conn' = s
    /\ starting' = [starting EXCEPT ![s] = "dialled"]
    /\ alive' = alive \cup {s}
    /\ UNCHANGED <<setup, proc, connected, stop, closed, pingOutstanding, routines, lost, strays,
                   callVars, reports, mute, pings, packets>>

\* A new stop channel; outgoing and alllogic start.
StartWriters(s) ==
    /\ proc = "up" /\ starting[s] = "dialled"
    /\ starting' = [starting EXCEPT ![s] = "writing"]
    /\ stop' = s
    /\ outgoing' = [outgoing EXCEPT ![s].pc = "top"]
    /\ alllogic' = [alllogic EXCEPT ![s].pc = "top"]
    /\ UNCHANGED <<setup, proc, connected, conn, closed, pingOutstanding, dialling, incoming,
                   keepalive, lost, strays, callVars, reports, netVars>>

\* The client says it is connected; keepalive and incoming start.
StartReaders(s) ==
    /\ proc = "up" /\ starting[s] = "writing"
    /\ starting' = [starting EXCEPT ![s] = "yes"]
    /\ connected' = TRUE
    /\ keepalive' = [keepalive EXCEPT ![s] = IF setup.keepAlive THEN "run" ELSE "no"]
    /\ incoming' = [incoming EXCEPT ![s] = [pc |-> "read", conn |-> conn]]
    /\ UNCHANGED <<setup, proc, conn, stop, closed, pingOutstanding, dialling, outgoing, alllogic,
                   lost, strays, callVars, reports, netVars>>

Starter(s) == DialSucceeds(s) \/ StartWriters(s) \/ StartReaders(s)
-----------------------------------------------------------------------------
(* incoming.                                                               *)

\* ReadPacket returns a packet, which incoming offers on ibound.
IncomingReads(s) ==
    /\ proc = "up" /\ incoming[s].pc = "read"
    /\ incoming[s].conn \in alive \ mute
    /\ packets < MaxPackets
    /\ packets' = packets + 1
    /\ incoming' = [incoming EXCEPT ![s].pc = "put"]
    /\ UNCHANGED <<fieldVars, startVars, outgoing, alllogic, keepalive, lost, strays, callVars,
                   reports, alive, mute, pings>>

\* Mutant: the error of a read is always swallowed.
IncomingSwallows(s) ==
    /\ proc = "up" /\ incoming[s].pc = "read"
    /\ incoming[s].conn \notin alive \cup {0}
    /\ incoming' = [incoming EXCEPT ![s].pc = "done"]
    /\ UNCHANGED <<fieldVars, startVars, outgoing, alllogic, keepalive, lost, strays, callVars,
                   reports, netVars>>

\* ReadPacket fails: the error is swallowed if c.stop is closed.
IncomingFails(s) ==
    /\ proc = "up" /\ incoming[s].pc = "read"
    /\ incoming[s].conn \notin alive \cup {0}
    /\ incoming' = [incoming EXCEPT ![s].pc = IF stop \in closed THEN "done" ELSE "error"]
    /\ UNCHANGED <<fieldVars, startVars, outgoing, alllogic, keepalive, lost, strays, callVars,
                   reports, netVars>>

\* ReadPacket(c.conn) while c.conn is nil.
IncomingPanics(s) ==
    /\ proc = "up" /\ incoming[s].pc = "read" /\ incoming[s].conn = 0
    /\ Panic

Incoming(s) == IncomingReads(s) \/ IncomingFails(s) \/ IncomingPanics(s)
-----------------------------------------------------------------------------
(* outgoing is at the top of its loop until it evaluates its select.       *)

OutgoingLoops(s) ==
    /\ proc = "up" /\ outgoing[s].pc = "top"
    /\ outgoing' = [outgoing EXCEPT ![s] = [pc |-> "wait", stop |-> stop]]
    /\ UNCHANGED <<fieldVars, startVars, incoming, alllogic, keepalive, lost, strays, callVars,
                   reports, netVars>>

OutgoingStops(s) ==
    /\ proc = "up" /\ outgoing[s].pc = "wait" /\ outgoing[s].stop \in closed
    /\ outgoing' = [outgoing EXCEPT ![s].pc = "done"]
    /\ UNCHANGED <<fieldVars, startVars, incoming, alllogic, keepalive, lost, strays, callVars,
                   reports, netVars>>

\* A packet is written, or the write fails because the connection is gone.
OutgoingWrites(s) ==
    /\ proc = "up" /\ outgoing[s].pc = "wait"
    /\ setup.traffic
    /\ \E pc \in {"top"} \cup (IF conn \in alive THEN {} ELSE {"error"}) :
          outgoing' = [outgoing EXCEPT ![s].pc = pc]
    /\ UNCHANGED <<fieldVars, startVars, incoming, alllogic, keepalive, lost, strays, callVars,
                   reports, netVars>>

\* The DISCONNECT packet: outgoing closes the connection and ends.
OutgoingDisconnects(s) ==
    /\ proc = "up" /\ outgoing[s].pc = "wait"
    /\ farewell
    /\ farewell' = FALSE
    /\ \E pc \in {"done"} \cup (IF conn \in alive THEN {} ELSE {"error"}) :
          outgoing' = [outgoing EXCEPT ![s].pc = pc]
    /\ alive' = alive \ {conn}
    /\ UNCHANGED <<fieldVars, startVars, incoming, alllogic, keepalive, lost, strays, caller,
                   reports, mute, pings, packets>>

Outgoing(s) == OutgoingLoops(s) \/ OutgoingStops(s) \/ OutgoingWrites(s)
               \/ OutgoingDisconnects(s)
-----------------------------------------------------------------------------
(* alllogic is at the top of its loop until it evaluates its select, and at *)
(* "full" while it waits for room for a message of QoS 0.                  *)

\* A packet of incoming s; incoming goes on to read what is c.conn now.
LogicTakes(t, s) ==
    /\ proc = "up" /\ alllogic[t].pc = "wait" /\ incoming[s].pc = "put"
    /\ \E pc \in {"top", "full"} : alllogic' = [alllogic EXCEPT ![t].pc = pc]
    /\ incoming' = [incoming EXCEPT ![s] = [pc |-> "read", conn |-> conn]]
    /\ UNCHANGED <<fieldVars, startVars, outgoing, keepalive, lost, strays, callVars, reports,
                   netVars>>

\* A PINGRESP; incoming only passes it on.
LogicPong(t, s) ==
    /\ proc = "up" /\ alllogic[t].pc = "wait"
    /\ incoming[s].pc = "read" /\ incoming[s].conn \in (alive \cap pings) \ mute
    /\ pings' = pings \ {incoming[s].conn}
    /\ pingOutstanding' = FALSE
    /\ alllogic' = [alllogic EXCEPT ![t].pc = "top"]
    /\ incoming' = [incoming EXCEPT ![s].conn = conn]
    /\ UNCHANGED <<setup, proc, connected, conn, stop, closed, startVars, outgoing, keepalive, lost,
                   strays, callVars, reports, alive, mute, packets>>

LogicLoops(t) ==
    /\ proc = "up" /\ alllogic[t].pc \in {"top", "full"}
    /\ alllogic' = [alllogic EXCEPT ![t] = [pc |-> "wait", stop |-> stop]]
    /\ UNCHANGED <<fieldVars, startVars, outgoing, incoming, keepalive, lost, strays, callVars,
                   reports, netVars>>

LogicStops(t) ==
    /\ proc = "up" /\ alllogic[t].pc = "wait" /\ alllogic[t].stop \in closed
    /\ alllogic' = [alllogic EXCEPT ![t].pc = "done"]
    /\ UNCHANGED <<fieldVars, startVars, outgoing, incoming, keepalive, lost, strays, callVars,
                   reports, netVars>>

\* An error is received from the unbuffered c.errors: its sender goes on.
ReceiveError ==
    \/ \E s \in Conns : /\ incoming[s].pc = "error"
                        /\ incoming' = [incoming EXCEPT ![s].pc = "done"]
                        /\ UNCHANGED <<outgoing, strays>>
    \/ \E s \in Conns : /\ outgoing[s].pc = "error"
                        /\ outgoing' = [outgoing EXCEPT ![s].pc = "done"]
                        /\ UNCHANGED <<incoming, strays>>
    \/ /\ strays > 0
       /\ strays' = strays - 1
       /\ UNCHANGED <<incoming, outgoing>>

\* Mutant: alllogic goes on after an error.
LogicErrorGoesOn(t) ==
    /\ proc = "up" /\ alllogic[t].pc = "wait"
    /\ ReceiveError
    /\ alllogic' = [alllogic EXCEPT ![t].pc = "top"]
    /\ lost' = [lost EXCEPT ![<<"alllogic", t>>] = "close"]
    /\ UNCHANGED <<fieldVars, startVars, keepalive, callVars, reports, netVars>>

LogicError(t) ==
    /\ proc = "up" /\ alllogic[t].pc = "wait"
    /\ ReceiveError
    /\ alllogic' = [alllogic EXCEPT ![t].pc = "done"]
    /\ lost' = [lost EXCEPT ![<<"alllogic", t>>] = "close"]
    /\ UNCHANGED <<fieldVars, startVars, keepalive, callVars, reports, netVars>>

\* Waiting for room for a message of QoS 0, alllogic takes an error and leaves
\* a goroutine behind that puts it back.
LogicDefers(t) ==
    /\ proc = "up" /\ alllogic[t].pc = "full"
    /\ \/ \E s \in Conns : /\ incoming[s].pc = "error"
                           /\ incoming' = [incoming EXCEPT ![s].pc = "done"]
                           /\ strays' = strays + 1
                           /\ UNCHANGED outgoing
       \/ \E s \in Conns : /\ outgoing[s].pc = "error"
                           /\ outgoing' = [outgoing EXCEPT ![s].pc = "done"]
                           /\ strays' = strays + 1
                           /\ UNCHANGED incoming
       \/ /\ strays > 0
          /\ UNCHANGED <<outgoing, incoming, strays>>
    /\ alllogic' = [alllogic EXCEPT ![t].pc = "top"]
    /\ UNCHANGED <<fieldVars, startVars, keepalive, lost, callVars, reports, netVars>>

Logic(t) == \/ \E s \in Conns : LogicTakes(t, s) \/ LogicPong(t, s)
            \/ LogicLoops(t) \/ LogicStops(t) \/ LogicError(t) \/ LogicDefers(t)
-----------------------------------------------------------------------------
(* keepalive looks at c.stop once a second.                                *)

KeepaliveStops(s) ==
    /\ proc = "up" /\ keepalive[s] = "run" /\ stop \in closed
    /\ keepalive' = [keepalive EXCEPT ![s] = "done"]
    /\ UNCHANGED <<fieldVars, startVars, outgoing, incoming, alllogic, lost, strays, callVars,
                   reports, netVars>>

\* The connection was idle and no ping is outstanding: write one.
KeepalivePings(s) ==
    /\ proc = "up" /\ keepalive[s] = "run" /\ stop \notin closed
    /\ ~pingOutstanding
    /\ pings' = pings \cup {conn}
    /\ keepalive' = [keepalive EXCEPT ![s] = "pinged"]
    /\ UNCHANGED <<fieldVars, startVars, outgoing, incoming, alllogic, lost, strays, callVars,
                   reports, alive, mute, packets>>

\* Mutant: the ping is not noted.
KeepaliveNotesNothing(s) ==
    /\ proc = "up" /\ keepalive[s] = "pinged"
    /\ keepalive' = [keepalive EXCEPT ![s] = "run"]
    /\ UNCHANGED <<fieldVars, startVars, outgoing, incoming, alllogic, lost, strays, callVars,
                   reports, netVars>>

\* Only after the write is the ping noted as outstanding.
KeepaliveNotes(s) ==
    /\ proc = "up" /\ keepalive[s] = "pinged"
    /\ pingOutstanding' = TRUE
    /\ keepalive' = [keepalive EXCEPT ![s] = "run"]
    /\ UNCHANGED <<setup, proc, connected, conn, stop, closed, startVars, outgoing, incoming, alllogic,
                   lost, strays, callVars, reports, netVars>>

\* Still idle and a ping outstanding: the connection is taken for lost.
KeepaliveGivesUp(s) ==
    /\ proc = "up" /\ keepalive[s] = "run" /\ stop \notin closed
    /\ pingOutstanding
    /\ keepalive' = [keepalive EXCEPT ![s] = "done"]
    /\ lost' = [lost EXCEPT ![<<"keepalive", s>>] = "close"]
    /\ UNCHANGED <<fieldVars, startVars, outgoing, incoming, alllogic, strays, callVars,
                   reports, netVars>>

Keepalive(s) == KeepaliveStops(s) \/ KeepalivePings(s) \/ KeepaliveNotes(s)
                \/ KeepaliveGivesUp(s)
-----------------------------------------------------------------------------
(* internalConnLost, run by handler h.                                     *)

\* close(c.stop), of a channel that may be closed already.
LostCloses(h) ==
    /\ proc = "up" /\ lost[h] = "close" /\ stop \notin closed
    /\ closed' = closed \cup {stop}
    /\ lost' = [lost EXCEPT ![h] = "shut"]
    /\ UNCHANGED <<setup, proc, connected, conn, stop, pingOutstanding, startVars, routines, strays,
                   callVars, reports, netVars>>

LostShuts(h) ==
    /\ proc = "up" /\ lost[h] = "shut"
    /\ alive' = alive \ {conn}
    /\ lost' = [lost EXCEPT ![h] = "wait"]
    /\ UNCHANGED <<fieldVars, startVars, routines, strays, callVars, reports, mute, pings,
                   packets>>

LostPanics(h) ==
    /\ proc = "up" /\ lost[h] = "close" /\ stop \in closed
    /\ Panic

\* Mutant: internalConnLost does not wait for the workers.
LostReportsAtOnce(h) ==
    /\ proc = "up" /\ lost[h] = "wait"
    /\ lost' = [lost EXCEPT ![h] = "done"]
    /\ IF connected
       THEN /\ reports' = [reports EXCEPT ![h[2]] = @ + 1]
            /\ IF setup.autoReconnect
               THEN dialling' = dialling + 1 /\ UNCHANGED connected
               ELSE connected' = FALSE /\ UNCHANGED dialling
       ELSE UNCHANGED <<reports, dialling, connected>>
    /\ UNCHANGED <<setup, proc, conn, stop, closed, pingOutstanding, starting, routines, strays,
                   callVars, netVars>>

\* Mutant: a loss is reported though the application disconnected.
LostReportsAlways(h) ==
    /\ proc = "up" /\ lost[h] = "wait" /\ Workers = {}
    /\ lost' = [lost EXCEPT ![h] = "done"]
    /\ reports' = [reports EXCEPT ![h[2]] = @ + 1]
    /\ IF setup.autoReconnect
       THEN dialling' = dialling + 1 /\ UNCHANGED connected
       ELSE connected' = FALSE /\ UNCHANGED dialling
    /\ UNCHANGED <<setup, proc, conn, stop, closed, pingOutstanding, starting, routines, strays,
                   callVars, netVars>>

\* Mutant: a loss is reported, but nothing reconnects.
LostReportsOnly(h) ==
    /\ proc = "up" /\ lost[h] = "wait" /\ Workers = {}
    /\ lost' = [lost EXCEPT ![h] = "done"]
    /\ reports' = IF connected THEN [reports EXCEPT ![h[2]] = @ + 1] ELSE reports
    /\ UNCHANGED <<fieldVars, startVars, routines, strays, callVars, netVars>>

\* The workers have ended.  Unless the application disconnected, it is told,
\* and the client reconnects if it may.
LostReports(h) ==
    /\ proc = "up" /\ lost[h] = "wait" /\ Workers = {}
    /\ lost' = [lost EXCEPT ![h] = "done"]
    /\ IF connected
       THEN /\ reports' = [reports EXCEPT ![h[2]] = @ + 1]
            /\ IF setup.autoReconnect
               THEN dialling' = dialling + 1 /\ UNCHANGED connected
               ELSE connected' = FALSE /\ UNCHANGED dialling
       ELSE UNCHANGED <<reports, dialling, connected>>
    /\ UNCHANGED <<setup, proc, conn, stop, closed, pingOutstanding, starting, routines, strays,
                   callVars, netVars>>

Lost(h) == LostCloses(h) \/ LostShuts(h) \/ LostPanics(h) \/ LostReports(h)
-----------------------------------------------------------------------------
(* Disconnect and ForceDisconnect, called at most once.                    *)

\* Mutant: no DISCONNECT packet is sent.
CallDisconnectSilently ==
    /\ proc = "up" /\ setup.call = "Disconnect"
    /\ caller.pc = "idle" /\ connected
    /\ connected' = FALSE
    /\ caller' = [caller EXCEPT !.pc = "quiesce"]
    /\ UNCHANGED <<setup, proc, conn, stop, closed, pingOutstanding, startVars, routines, lost, strays,
                   farewell, reports, netVars>>

\* Disconnect sends a packet through outgoing, whose token it waits for.
CallDisconnect ==
    /\ proc = "up" /\ setup.call = "Disconnect"
    /\ caller.pc = "idle" /\ connected
    /\ connected' = FALSE
    /\ farewell' = TRUE
    /\ caller' = [caller EXCEPT !.pc = "quiesce"]
    /\ UNCHANGED <<setup, proc, conn, stop, closed, pingOutstanding, startVars, routines, lost, strays,
                   reports, netVars>>

\* The token completed or the time is over: disconnect() reads c.stop.
Quiesced ==
    /\ proc = "up" /\ caller.pc = "quiesce"
    /\ caller' = [pc |-> "stop", stop |-> stop]
    /\ UNCHANGED <<fieldVars, startVars, routines, lost, strays, farewell, reports, netVars>>

CallForce ==
    /\ proc = "up" /\ setup.call = "ForceDisconnect"
    /\ caller.pc = "idle" /\ connected
    /\ connected' = FALSE
    /\ caller' = [caller EXCEPT !.pc = "force"]
    /\ UNCHANGED <<setup, proc, conn, stop, closed, pingOutstanding, startVars, routines, lost, strays,
                   farewell, reports, netVars>>

ForceShuts ==
    /\ proc = "up" /\ caller.pc = "force" /\ conn # 0
    /\ alive' = alive \ {conn}
    /\ caller' = [pc |-> "stop", stop |-> stop]
    /\ UNCHANGED <<fieldVars, startVars, routines, lost, strays, farewell, reports, mute, pings,
                   packets>>

ForcePanics ==
    /\ proc = "up" /\ caller.pc = "force" /\ conn = 0
    /\ Panic

\* disconnect() blocks until somebody has closed the stop channel, then until
\* the workers have ended.
CallerStops ==
    /\ proc = "up" /\ caller.pc = "stop" /\ caller.stop \in closed
    /\ caller' = [caller EXCEPT !.pc = "workers"]
    /\ UNCHANGED <<fieldVars, startVars, routines, lost, strays, farewell, reports, netVars>>

\* Mutant: disconnect does not wait for the workers.
CallerReturnsEarly ==
    /\ proc = "up" /\ caller.pc = "workers"
    /\ caller' = [caller EXCEPT !.pc = "returned"]
    /\ UNCHANGED <<fieldVars, startVars, routines, lost, strays, farewell, reports, netVars>>

CallerReturns ==
    /\ proc = "up" /\ caller.pc = "workers" /\ Workers = {}
    /\ caller' = [caller EXCEPT !.pc = "returned"]
    /\ UNCHANGED <<fieldVars, startVars, routines, lost, strays, farewell, reports, netVars>>

Caller == Quiesced \/ ForceShuts \/ ForcePanics \/ CallerStops \/ CallerReturns
-----------------------------------------------------------------------------
(* The network (external).                                                 *)

Reset(s) ==
    /\ setup.fault = "reset" /\ s \in alive
    /\ alive' = alive \ {s}
    /\ UNCHANGED <<fieldVars, startVars, routines, lost, strays, callVars, reports, mute, pings,
                   packets>>

Mute(s) ==
    /\ setup.fault = "mute" /\ s \in alive \ mute
    /\ mute' = mute \cup {s}
    /\ UNCHANGED <<fieldVars, startVars, routines, lost, strays, callVars, reports, alive,
                   pings, packets>>
-----------------------------------------------------------------------------
Next ==
    \/ DialFails \/ CallDisconnect \/ CallForce \/ Caller
    \/ \E s \in Conns : \/ Starter(s) \/ Incoming(s) \/ Outgoing(s) \/ Logic(s)
                        \/ Keepalive(s) \/ Reset(s) \/ Mute(s)
    \/ \E h \in Handlers : Lost(h)

\* Every goroutine that can run does, and a broker accepts in the end.
Fairness ==
    /\ \A s \in Conns : /\ WF_vars(Starter(s)) /\ WF_vars(Logic(s)) /\ WF_vars(Keepalive(s))
                        /\ WF_vars(IncomingFails(s)) /\ WF_vars(Outgoing(s))
    /\ \A h \in Handlers : WF_vars(Lost(h))
    /\ WF_vars(Caller)

Spec     == Init /\ [][Next]_vars
FairSpec == Spec /\ Fairness
-----------------------------------------------------------------------------
FieldTypeOK ==
    /\ setup \in Setups
    /\ proc \in {"up", "panicked"} /\ connected \in BOOLEAN
    /\ conn \in 0..MaxConns /\ stop \in 0..MaxConns /\ closed \subseteq Conns
    /\ pingOutstanding \in BOOLEAN
    /\ starting \in [Conns -> {"no", "dialled", "writing", "yes"}] /\ dialling \in Nat

RoutineTypeOK ==
    /\ outgoing \in [Conns -> [pc : {"no", "top", "wait", "error", "done"},
                               stop : 0..MaxConns]]
    /\ incoming \in [Conns -> [pc : {"no", "read", "put", "error", "done"},
                               conn : 0..MaxConns]]
    /\ alllogic \in [Conns -> [pc : {"no", "top", "full", "wait", "done"},
                               stop : 0..MaxConns]]
    /\ keepalive \in [Conns -> {"no", "run", "pinged", "done"}]

OtherTypeOK ==
    /\ lost \in [Handlers -> {"no", "close", "shut", "wait", "done"}] /\ strays \in Nat
    /\ caller \in [pc : {"idle", "quiesce", "force", "stop", "workers", "returned"},
                   stop : 0..MaxConns]
    /\ farewell \in BOOLEAN /\ reports \in [Conns -> Nat]
    /\ alive \subseteq Conns /\ mute \subseteq Conns /\ pings \subseteq Conns
    /\ packets \in 0..MaxPackets

\* Every variable has its type.
TypeOK == FieldTypeOK /\ RoutineTypeOK /\ OtherTypeOK

\* One goroutine alone can notice a loss: incoming, where nothing else writes,
\* or keepalive, where the connection only falls silent.  Two that notice it
\* are more than the code can handle.
SoleWitness ==
    /\ ~setup.traffic
    /\ setup.keepAlive <=> setup.fault = "mute"
    /\ setup.keepAlive => setup.call = "none"

\* And the application does not end a connection that may be lost by itself: the
\* DISCONNECT that a loss leaves behind makes outgoing close the next connection.
Ordinary == SoleWitness /\ (setup.call # "none" => setup.fault = "none")

\* No goroutine closes a closed channel or uses a connection that is nil: a
\* loss with a sole witness leaves the process running.
NoPanic == Ordinary => proc # "panicked"

\* Where a goroutine may write to c.conn or close it, c.conn is not nil: those
\* of an old connection do not meet reconnect while it has none, though two of
\* them may have noticed the loss.
ConnInUse ==
    /\ \A s \in Conns : \/ outgoing[s].pc = "wait"
                        \/ keepalive[s] = "run" /\ stop \notin closed
                        => conn # 0
    /\ \A h \in Handlers : lost[h] = "shut" => conn # 0

\* Two instances of alllogic never read ibound side by side, but for one whose
\* stop channel is closed: they would reorder messages and answers.  (alllogic
\* is not waited for: where keepalive handles the loss, this fails.)
Reads(t) == alllogic[t].pc \notin {"no", "done"} /\ alllogic[t].stop \notin closed

OneLogic == ~setup.keepAlive => \A s, t \in Conns : Reads(s) /\ Reads(t) => s = t

\* The workers of a connection have ended before the next one is opened, which
\* is what internalConnLost waits for.
WorkersEndFirst ==
    Ordinary =>
        \A s \in Workers : \A t \in Conns : starting[t] # "no" => t <= s

\* The loss of a connection is reported to the application once.
ReportedOnce == ~setup.keepAlive => \A s \in Conns : reports[s] <= 1

\* Once Disconnect or ForceDisconnect has returned, the connection it met is
\* closed and its workers have ended; if it did not meet a reconnect.
Released ==
    caller.pc = "returned" /\ (\A s \in Conns : reports[s] = 0)
        => caller.stop \notin alive /\ caller.stop \notin Workers

\* Disconnects "caused by calling Disconnect or ForceDisconnect will not cause
\* an OnConnectionLost callback to execute".
NotReported == [][caller.pc # "idle" => reports' = reports]_vars

\* The same, where there is no reconnect for the call to meet.
NotReportedAfterwards ==
    [][caller.pc # "idle" /\ (\A s \in Conns : reports[s] = 0) => reports' = reports]_vars

\* OnConnectionLost is called "in the case where the client unexpectedly loses
\* connection": every loss is reported, unless the application disconnects.
Loss(s) == s \in mute \/ (starting[s] = "yes" /\ s \notin alive)

Reported == \A s \in Conns : Loss(s) ~> (reports[s] > 0 \/ caller.pc # "idle")

\* The same, where one goroutine alone can notice the loss.  (keepalive waits
\* for incoming, and so for a packet that incoming holds, for ever.)
LossReported ==
    SoleWitness => \A s \in Conns :
        Loss(s) ~> (\/ reports[s] > 0 \/ caller.pc # "idle"
                    \/ setup.keepAlive /\ packets > 0)

\* After such a loss the client is connected again, for the broker accepts.
Reconnects ==
    SoleWitness /\ setup.autoReconnect /\ setup.call = "none"
        => \A s \in 1..MaxConns-1 : (reports[s] > 0) ~> (starting[s+1] = "yes")

\* A call of Disconnect or ForceDisconnect on a working connection returns.
DisconnectReturns ==
    setup.fault = "none" /\ ~setup.keepAlive /\ ~setup.traffic
        => ((caller.pc # "idle") ~> (caller.pc = "returned"))
=============================================================================
