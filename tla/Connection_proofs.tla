-------------------------- MODULE Connection_proofs --------------------------
(***************************************************************************)
(* Proofs about the life cycle of the connection, for any number of        *)
(* connections.                                                            *)
(*                                                                         *)
(* What one loss does is told by few things: which goroutine may still     *)
(* notice it, how far internalConnLost is, and whether outgoing has ended. *)
(* The proof sorts every step by what it does to these (LossStep), shows   *)
(* that no such step breaks the core of the invariant, and then adds what  *)
(* holds only where no second goroutine notices the loss.                  *)
(*                                                                         *)
(* Two things hold in every situation, and are proved apart.  At any time  *)
(* at most one goroutine has the turn to dial, to start the writers, or to *)
(* handle a loss whose stop channel it closed (TurnInv).  And until a loss *)
(* is reported there is one connection, which a call ends (FirstInv).      *)
(***************************************************************************)
EXTENDS Connection, TLAPS

\* The goroutine whose part it is to handle a loss: keepalive where it runs.
Watcher == IF setup.keepAlive THEN "keepalive" ELSE "alllogic"
Other   == IF setup.keepAlive THEN "alllogic" ELSE "keepalive"

\* How far that goroutine of each connection is with internalConnLost.
Loses == [s \in Conns |-> lost[<<Watcher, s>>]]

\* The connections where it still looks out for a loss.
Watching == {s \in Conns : \/ setup.keepAlive /\ keepalive[s] \in {"run", "pinged"}
                           \/ ~setup.keepAlive /\ alllogic[s].pc \in {"top", "full", "wait"}}

\* The connections whose outgoing has not ended.
Writing == {s \in Conns : outgoing[s].pc \in {"top", "wait", "error"}}

\* The connections whose incoming has not ended, and those where it has.
Reading == {s \in Conns : incoming[s].pc \in {"read", "put", "error"}}
Ended   == {s \in Conns : incoming[s].pc = "done"}

Foreseen == Ordinary \/ ~setup.keepAlive
-----------------------------------------------------------------------------
FieldTyped ==
    /\ setup \in Setup
    /\ conn \in 0..MaxConns /\ stop \in 0..MaxConns /\ closed \subseteq 0..MaxConns
    /\ starting \in [Conns -> {"no", "dialled", "writing", "yes"}] /\ dialling \in Nat

OtherTyped ==
    /\ lost \in [Handlers -> {"no", "close", "shut", "wait", "done"}] /\ strays \in Nat
    /\ caller \in [pc : {"idle", "quiesce", "force", "stop", "workers", "returned"},
                   stop : 0..MaxConns]
    /\ reports \in [Conns -> Nat]
    /\ alive \subseteq Conns

Typed == FieldTyped /\ RoutineTypeOK /\ OtherTyped

\* No handler but the Watcher's runs.
SpareInv ==
    \A s \in Conns : /\ lost[<<Other, s>>] = "no"
                     /\ ~setup.keepAlive => keepalive[s] = "no"

\* A loss is watched for and handled on the current connection only, and its
\* handler alone closes the stop channel.
WatchInv ==
    /\ 0 \notin closed
    /\ \A s \in Conns :
        /\ s \in Watching => s = stop /\ Loses[s] = "no"
        /\ Loses[s] \in {"close", "shut", "wait"} => s = stop
        /\ s \in closed <=> Loses[s] \in {"shut", "wait", "done"}
        /\ setup.keepAlive /\ s \in Watching => starting[s] = "yes"
        /\ setup.keepAlive /\ starting[s] = "writing" => s = stop /\ Loses[s] = "no"

\* Connections are started one after the other.
OrderInv ==
    \A s \in Conns :
        /\ starting[s] \in {"writing", "yes"} <=> s <= stop
        /\ starting[s] = "dialled" => s = stop + 1
        /\ starting[s] \in {"no", "dialled"} => Loses[s] = "no"

\* The next one is dialled when the loss of the last has been handled, its
\* outgoing has ended, and nobody else is dialling.
DialInv ==
    /\ dialling <= 1 /\ (conn = 0 => dialling = 1)
    /\ dialling = 1 => stop > 0 /\ \A s \in Conns : starting[s] # "dialled"
    /\ \A s \in Conns : dialling = 1 /\ s = stop => Loses[s] = "done"
    /\ \A s, t \in Conns : starting[t] = "dialled" /\ s = stop => Loses[s] = "done"
    /\ \A s \in Writing : s = stop /\ Loses[s] # "done"

\* c.conn is the connection the goroutines were started for, until its loss has
\* been handled.
HeldInv ==
    \A s \in Conns :
        /\ s = stop /\ Loses[s] # "done" => conn = s
        /\ starting[s] = "dialled" => conn = s

\* A loss is reported when it has been handled, once.
CountInv == \A s \in Conns : reports[s] <= 1 /\ (Loses[s] # "done" => reports[s] = 0)

CoreInv == SpareInv /\ WatchInv /\ OrderInv /\ DialInv /\ HeldInv /\ CountInv
-----------------------------------------------------------------------------
(* What holds only in ordinary situations.                                 *)

\* incoming reads the connection it was started for, which is the current one.
ReadInv ==
    \A s \in Conns :
        /\ s \in Reading => /\ s = stop /\ starting[s] = "yes" /\ Loses[s] # "done"
                           /\ incoming[s].conn = s
        /\ starting[s] # "yes" => incoming[s].pc = "no"
        /\ starting[s] = "writing" => s = stop
        /\ outgoing[s].pc # "error"

\* A connection has one error: incoming has it, or a stray goroutine, or the
\* handler it made.
ErrorInv == ~setup.keepAlive =>
    /\ stop = 0 => strays = 0
    /\ \A s \in Conns : s = stop =>
        \/ s \notin Ended /\ strays = 0 /\ Loses[s] = "no"
        \/ s \in Ended /\ strays = 1 /\ Loses[s] = "no"
        \/ s \in Ended /\ strays = 0 /\ Loses[s] # "no"

\* Where the network only falls silent, a connection is open until its handler
\* closes it, and there are no errors.
SilentInv == setup.keepAlive =>
    /\ strays = 0
    /\ \A s \in Conns :
        /\ s = stop /\ Loses[s] \in {"no", "close", "shut"} => s \in alive
        /\ starting[s] = "dialled" => s \in alive
        /\ incoming[s].pc # "error"

\* Where the application disconnects, there is one connection, which is open
\* until the call makes somebody close it.
CallInv ==
    /\ setup.call = "none" => caller.pc = "idle" /\ ~farewell
    /\ caller.pc \in {"idle", "force"} => ~farewell
    /\ setup.call # "none" =>
        /\ dialling = 0 /\ conn = 1 /\ \A s \in Conns : s > 1 => starting[s] = "no"
        /\ connected \/ caller.pc # "idle" => starting[1] = "yes"
        /\ caller.pc # "idle" => ~connected
        /\ caller.pc = "idle" \/ farewell =>
              alive = {1} /\ strays = 0 /\ incoming[1].pc \in {"no", "read", "put"}

OrdInv == proc = "up" /\ ReadInv /\ ErrorInv /\ SilentInv /\ CallInv

Inv == Typed /\ (Foreseen => CoreInv) /\ (Ordinary => OrdInv)
-----------------------------------------------------------------------------
(* What a step does to a loss.                                             *)

coreVars == <<starting, stop, closed, dialling, conn, reports>>
views    == <<Loses, Watching, Writing>>

Quiet == /\ UNCHANGED coreVars
         /\ Loses' = Loses /\ Watching' \subseteq Watching /\ Writing' \subseteq Writing

Fails == /\ dialling > 0 /\ conn' = 0
         /\ UNCHANGED <<starting, stop, closed, dialling, reports, views>>

Dials(s) == /\ dialling > 0 /\ dialling' = dialling - 1
            /\ starting[s] = "no" /\ \A t \in 1..s-1 : starting[t] # "no"
            /\ conn' = s
            /\ starting' = [starting EXCEPT ![s] = "dialled"]
            /\ UNCHANGED <<stop, closed, reports, views>>

Writers(s) == /\ starting[s] = "dialled"
              /\ starting' = [starting EXCEPT ![s] = "writing"]
              /\ stop' = s
              /\ Watching' \subseteq Watching \cup (IF setup.keepAlive THEN {} ELSE {s})
              /\ Writing' \subseteq Writing \cup {s}
              /\ UNCHANGED <<closed, dialling, conn, reports, Loses>>

Readers(s) == /\ starting[s] = "writing"
              /\ starting' = [starting EXCEPT ![s] = "yes"]
              /\ Watching' \subseteq Watching \cup (IF setup.keepAlive THEN {s} ELSE {})
              /\ UNCHANGED <<stop, closed, dialling, conn, reports, Loses, Writing>>

Notices(s) == /\ s \in Watching /\ Watching' \subseteq Watching \ {s}
              /\ Loses' = [Loses EXCEPT ![s] = "close"]
              /\ Writing' \subseteq Writing
              /\ UNCHANGED coreVars

Closes(s) == /\ Loses[s] = "close" /\ Loses' = [Loses EXCEPT ![s] = "shut"]
             /\ closed' = closed \cup {stop}
             /\ UNCHANGED <<starting, stop, dialling, conn, reports, Watching, Writing>>

Shuts(s) == /\ Loses[s] = "shut" /\ Loses' = [Loses EXCEPT ![s] = "wait"]
            /\ UNCHANGED <<coreVars, Watching, Writing>>

Reports(s) == /\ Loses[s] = "wait" /\ Loses' = [Loses EXCEPT ![s] = "done"]
              /\ Writing = {} /\ Reading = {}
              /\ reports' \in {reports, [reports EXCEPT ![s] = @ + 1]}
              /\ dialling' \in {dialling, dialling + 1}
              /\ UNCHANGED <<starting, stop, closed, conn, Watching, Writing>>

LossStep == \/ Quiet \/ Fails
            \/ \E s \in Conns : \/ Dials(s) \/ Writers(s) \/ Readers(s) \/ Notices(s)
                                \/ Closes(s) \/ Shuts(s) \/ Reports(s)

\* The types that the views have.
LossTyped ==
    /\ Loses \in [Conns -> {"no", "close", "shut", "wait", "done"}]
    /\ Watching \subseteq Conns /\ Writing \subseteq Conns
    /\ starting \in [Conns -> {"no", "dialled", "writing", "yes"}]
    /\ stop \in 0..MaxConns /\ conn \in 0..MaxConns /\ dialling \in Nat
    /\ reports \in [Conns -> Nat] /\ closed \subseteq 0..MaxConns

LEMMA LossTypes == Typed => LossTyped
  BY DEF Typed, FieldTyped, OtherTyped, LossTyped, Loses, Watching, Writing, Watcher, Handlers
-----------------------------------------------------------------------------
(* No step of a loss breaks the core.                                      *)

LEMMA WatchStep ==
    ASSUME ConnectionAssumption, LossTyped, WatchInv, OrderInv, DialInv, LossStep, setup' = setup
    PROVE  WatchInv'
<1> USE DEF LossTyped, Conns, ConnectionAssumption
<1>1. CASE Quiet
  BY <1>1 DEF Quiet, WatchInv, coreVars
<1>2. CASE Fails
  BY <1>2 DEF Fails, WatchInv, views
<1>3. ASSUME NEW s \in Conns, Dials(s) PROVE WatchInv'
  BY <1>3 DEF Dials, WatchInv, views
<1>4. ASSUME NEW s \in Conns, Writers(s) PROVE WatchInv'
  BY <1>4 DEF Writers, WatchInv, OrderInv, DialInv
<1>5. ASSUME NEW s \in Conns, Readers(s) PROVE WatchInv'
  BY <1>5 DEF Readers, WatchInv
<1>6. ASSUME NEW s \in Conns, Notices(s) PROVE WatchInv'
  <2>1. \A r \in Conns : Loses'[r] = IF r = s THEN "close" ELSE Loses[r]
    BY <1>6 DEF Notices
  <2> QED
    BY <1>6, <2>1 DEF Notices, WatchInv, coreVars
<1>7. ASSUME NEW s \in Conns, Closes(s) PROVE WatchInv'
  BY <1>7 DEF Closes, WatchInv, OrderInv
<1>8. ASSUME NEW s \in Conns, Shuts(s) PROVE WatchInv'
  BY <1>8 DEF Shuts, WatchInv, coreVars, OrderInv
<1>9. ASSUME NEW s \in Conns, Reports(s) PROVE WatchInv'
  BY <1>9 DEF Reports, WatchInv, OrderInv
<1> QED
  BY <1>1, <1>2, <1>3, <1>4, <1>5, <1>6, <1>7, <1>8, <1>9 DEF LossStep

LEMMA OrderStep ==
    ASSUME ConnectionAssumption, LossTyped, WatchInv, OrderInv, DialInv, LossStep, setup' = setup
    PROVE  OrderInv'
<1> USE DEF LossTyped, Conns, ConnectionAssumption
<1>1. CASE Quiet
  BY <1>1 DEF Quiet, OrderInv, coreVars
<1>2. CASE Fails
  BY <1>2 DEF Fails, OrderInv, views
<1>3. ASSUME NEW s \in Conns, Dials(s) PROVE OrderInv'
  <2>1. ~(stop + 1 < s)
    <3> SUFFICES ASSUME stop + 1 < s PROVE FALSE
      OBVIOUS
    <3>1. stop + 1 \in Conns /\ stop + 1 \in 1..s-1
      OBVIOUS
    <3>2. starting[stop + 1] \in {"writing", "yes"}
      BY <1>3, <3>1 DEF Dials, DialInv
    <3> QED
      BY <3>1, <3>2 DEF OrderInv
  <2>2. s = stop + 1
    BY <1>3, <2>1 DEF Dials, OrderInv
  <2> QED
    BY <1>3, <2>2 DEF Dials, OrderInv, DialInv, views
<1>4. ASSUME NEW s \in Conns, Writers(s) PROVE OrderInv'
  BY <1>4 DEF Writers, OrderInv
<1>5. ASSUME NEW s \in Conns, Readers(s) PROVE OrderInv'
  BY <1>5 DEF Readers, OrderInv
<1>6. ASSUME NEW s \in Conns, Notices(s) PROVE OrderInv'
  BY <1>6 DEF Notices, WatchInv, OrderInv, coreVars
<1>7. ASSUME NEW s \in Conns, Closes(s) PROVE OrderInv'
  BY <1>7 DEF Closes, OrderInv
<1>8. ASSUME NEW s \in Conns, Shuts(s) PROVE OrderInv'
  BY <1>8 DEF Shuts, OrderInv, coreVars
<1>9. ASSUME NEW s \in Conns, Reports(s) PROVE OrderInv'
  BY <1>9 DEF Reports, OrderInv
<1> QED
  BY <1>1, <1>2, <1>3, <1>4, <1>5, <1>6, <1>7, <1>8, <1>9 DEF LossStep

LEMMA DialStep ==
    ASSUME ConnectionAssumption, LossTyped, WatchInv, OrderInv, DialInv, LossStep, setup' = setup
    PROVE  DialInv'
<1> USE DEF LossTyped, Conns, ConnectionAssumption
<1>1. CASE Quiet
  BY <1>1 DEF Quiet, DialInv, coreVars
<1>2. CASE Fails
  BY <1>2 DEF Fails, DialInv, views
<1>3. ASSUME NEW s \in Conns, Dials(s) PROVE DialInv'
  BY <1>3 DEF Dials, DialInv, views
<1>4. ASSUME NEW s \in Conns, Writers(s) PROVE DialInv'
  BY <1>4 DEF Writers, OrderInv, DialInv
<1>5. ASSUME NEW s \in Conns, Readers(s) PROVE DialInv'
  BY <1>5 DEF Readers, DialInv
<1>6. ASSUME NEW s \in Conns, Notices(s) PROVE DialInv'
  BY <1>6 DEF Notices, WatchInv, DialInv, coreVars
<1>7. ASSUME NEW s \in Conns, Closes(s) PROVE DialInv'
  BY <1>7 DEF Closes, DialInv
<1>8. ASSUME NEW s \in Conns, Shuts(s) PROVE DialInv'
  BY <1>8 DEF Shuts, DialInv, coreVars
<1>9. ASSUME NEW s \in Conns, Reports(s) PROVE DialInv'
  BY <1>9 DEF Reports, WatchInv, OrderInv, DialInv
<1> QED
  BY <1>1, <1>2, <1>3, <1>4, <1>5, <1>6, <1>7, <1>8, <1>9 DEF LossStep

LEMMA HeldStep ==
    ASSUME ConnectionAssumption, LossTyped, WatchInv, OrderInv, DialInv, HeldInv, LossStep
    PROVE  HeldInv'
<1> USE DEF LossTyped, Conns, ConnectionAssumption, HeldInv
<1>1. CASE Quiet
  BY <1>1 DEF Quiet, coreVars
<1>2. CASE Fails
  BY <1>2 DEF Fails, DialInv, views
<1>3. ASSUME NEW s \in Conns, Dials(s) PROVE HeldInv'
  BY <1>3 DEF Dials, DialInv, views
<1>4. ASSUME NEW s \in Conns, Writers(s) PROVE HeldInv'
  BY <1>4 DEF Writers, OrderInv
<1>5. ASSUME NEW s \in Conns, Readers(s) PROVE HeldInv'
  BY <1>5 DEF Readers
<1>6. ASSUME NEW s \in Conns, Notices(s) PROVE HeldInv'
  BY <1>6 DEF Notices, WatchInv, coreVars
<1>7. ASSUME NEW s \in Conns, Closes(s) \/ Shuts(s) PROVE HeldInv'
  <2>1. \A r \in Conns : Loses'[r] # "done" => Loses[r] # "done"
    BY <1>7 DEF Closes, Shuts, WatchInv
  <2> QED
    BY <1>7, <2>1 DEF Closes, Shuts, coreVars
<1>8. ASSUME NEW s \in Conns, Reports(s) PROVE HeldInv'
  <2>1. \A r \in Conns : Loses'[r] # "done" => Loses[r] # "done"
    BY <1>8 DEF Reports
  <2> QED
    BY <1>8, <2>1 DEF Reports
<1> QED
  BY <1>1, <1>2, <1>3, <1>4, <1>5, <1>6, <1>7, <1>8 DEF LossStep

LEMMA CountStep ==
    ASSUME LossTyped, WatchInv, CountInv, LossStep
    PROVE  CountInv'
<1> USE DEF LossTyped, CountInv
<1>1. CASE Quiet \/ Fails
  BY <1>1 DEF Quiet, Fails, coreVars, views
<1>2. ASSUME NEW s \in Conns, Dials(s) \/ Writers(s) \/ Readers(s) PROVE CountInv'
  BY <1>2 DEF Dials, Writers, Readers, views
<1>3. ASSUME NEW s \in Conns, Notices(s) \/ Closes(s) \/ Shuts(s) PROVE CountInv'
  <2>1. \A r \in Conns : Loses'[r] # "done" => Loses[r] # "done"
    BY <1>3 DEF Notices, Closes, Shuts, WatchInv
  <2>2. reports' = reports
    BY <1>3 DEF Notices, Closes, Shuts, coreVars
  <2> QED
    BY <2>1, <2>2
<1>4. ASSUME NEW s \in Conns, Reports(s) PROVE CountInv'
  BY <1>4 DEF Reports
<1> QED
  BY <1>1, <1>2, <1>3, <1>4 DEF LossStep
-----------------------------------------------------------------------------
(* Every step is such a step of a loss.                                    *)

Handed == setup.keepAlive =>
    strays = 0 /\ \A s \in Conns : incoming[s].pc # "error" /\ outgoing[s].pc # "error"

LEMMA ViewsKept ==
    /\ UNCHANGED <<setup, lost>> => UNCHANGED Loses
    /\ UNCHANGED <<setup, keepalive, alllogic>> => UNCHANGED Watching
    /\ UNCHANGED outgoing => UNCHANGED Writing
    /\ UNCHANGED <<setup, lost, keepalive>> /\ SpareInv => SpareInv'
<1>1. UNCHANGED <<setup, lost>> => UNCHANGED Loses
  BY DEF Loses, Watcher
<1>2. UNCHANGED <<setup, keepalive, alllogic>> => UNCHANGED Watching
  BY DEF Watching
<1>3. UNCHANGED outgoing => UNCHANGED Writing
  BY DEF Writing
<1>4. UNCHANGED <<setup, lost, keepalive>> /\ SpareInv => SpareInv'
  BY DEF SpareInv, Other
<1> QED
  BY <1>1, <1>2, <1>3, <1>4

Sorted == LossStep /\ SpareInv' /\ setup' = setup

LEMMA QuietSorted ==
    ASSUME SpareInv, UNCHANGED <<setup, coreVars, lost, keepalive>>,
           Watching' \subseteq Watching, Writing' \subseteq Writing
    PROVE  Sorted
  BY ViewsKept DEF Sorted, LossStep, Quiet, coreVars

LEMMA StarterSorted ==
    ASSUME ConnectionAssumption, Typed, SpareInv, NEW s \in Conns, Starter(s)
    PROVE  Sorted
<1>1. CASE DialSucceeds(s)
  <2>1. Dials(s)
    BY <1>1, ViewsKept DEF DialSucceeds, Dials, views, routines
  <2> QED
    BY <1>1, <2>1, ViewsKept DEF DialSucceeds, Sorted, LossStep, routines
<1>2. CASE StartWriters(s)
  <2>1. Watching' \subseteq Watching \cup (IF setup.keepAlive THEN {} ELSE {s})
    BY <1>2 DEF StartWriters, Watching, Typed, RoutineTypeOK
  <2>2. Writing' \subseteq Writing \cup {s}
    BY <1>2 DEF StartWriters, Writing, Typed, RoutineTypeOK
  <2>3. Writers(s)
    BY <1>2, <2>1, <2>2, ViewsKept DEF StartWriters, Writers
  <2> QED
    BY <1>2, <2>3, ViewsKept DEF StartWriters, Sorted, LossStep
<1>3. CASE StartReaders(s)
  <2>1. Watching' \subseteq Watching \cup (IF setup.keepAlive THEN {s} ELSE {})
    BY <1>3 DEF StartReaders, Watching, Typed, RoutineTypeOK
  <2>2. Readers(s)
    BY <1>3, <2>1, ViewsKept DEF StartReaders, Readers
  <2>3. SpareInv'
    BY <1>3 DEF StartReaders, SpareInv, Other, Typed, RoutineTypeOK
  <2> QED
    BY <1>3, <2>2, <2>3 DEF StartReaders, Sorted, LossStep
<1> QED
  BY <1>1, <1>2, <1>3 DEF Starter

LEMMA IncomingSorted ==
    ASSUME SpareInv, NEW s \in Conns, Incoming(s) \/ Reset(s) \/ Mute(s)
    PROVE  Sorted
<1>1. UNCHANGED <<setup, coreVars, lost, keepalive, alllogic, outgoing>>
  BY DEF Incoming, IncomingReads, IncomingFails, IncomingPanics, Reset, Mute, Panic, fieldVars,
         startVars, routines, coreVars
<1> QED
  BY <1>1, QuietSorted, ViewsKept

LEMMA OutgoingSorted ==
    ASSUME Typed, SpareInv, NEW s \in Conns, Outgoing(s)
    PROVE  Sorted
<1>1. UNCHANGED <<setup, coreVars, lost, keepalive, alllogic>>
  BY DEF Outgoing, OutgoingLoops, OutgoingStops, OutgoingWrites, OutgoingDisconnects, fieldVars,
         startVars, coreVars
<1>2. outgoing[s].pc \in {"top", "wait"} /\ \A t \in Conns \ {s} : outgoing'[t] = outgoing[t]
  BY DEF Outgoing, OutgoingLoops, OutgoingStops, OutgoingWrites, OutgoingDisconnects, Typed,
         RoutineTypeOK
<1>3. Writing' \subseteq Writing
  BY <1>2 DEF Writing
<1> QED
  BY <1>1, <1>3, QuietSorted, ViewsKept

\* What receiving an error does to outgoing.
LEMMA ErrorWritten ==
    ASSUME Typed, \/ UNCHANGED outgoing
                  \/ \E s \in Conns : outgoing' = [outgoing EXCEPT ![s].pc = "done"]
    PROVE  Writing' \subseteq Writing
<1>1. CASE UNCHANGED outgoing
  BY <1>1, ViewsKept
<1>2. ASSUME NEW s \in Conns, outgoing' = [outgoing EXCEPT ![s].pc = "done"]
      PROVE  Writing' \subseteq Writing
  <2>1. outgoing'[s].pc = "done" /\ \A t \in Conns \ {s} : outgoing'[t] = outgoing[t]
    BY <1>2 DEF Typed, RoutineTypeOK
  <2> QED
    BY <2>1 DEF Writing
<1> QED
  BY <1>1, <1>2

LEMMA LogicSorted ==
    ASSUME ConnectionAssumption, Typed, SpareInv, Handed, NEW t \in Conns, Logic(t)
    PROVE  Sorted
<1>1. /\ alllogic[t].pc \in {"top", "full", "wait"}
      /\ \A s \in Conns \ {t} : alllogic'[s] = alllogic[s]
  BY DEF Logic, LogicTakes, LogicPong, LogicLoops, LogicStops, LogicError, LogicDefers, Typed,
         RoutineTypeOK
<1>2. UNCHANGED <<setup, coreVars, keepalive>>
  BY DEF Logic, LogicTakes, LogicPong, LogicLoops, LogicStops, LogicError, LogicDefers,
         fieldVars, startVars, coreVars
<1>3. Watching' \subseteq Watching
  BY <1>1, <1>2 DEF Watching
<1>4. Writing' \subseteq Writing
  <2>1. CASE LogicError(t) \/ LogicDefers(t)
    BY <2>1, ErrorWritten DEF LogicError, LogicDefers, ReceiveError
  <2>2. CASE UNCHANGED outgoing
    BY <2>2, ViewsKept
  <2> QED
    BY <2>1, <2>2 DEF Logic, LogicTakes, LogicPong, LogicLoops, LogicStops
<1>5. CASE UNCHANGED lost
  BY <1>2, <1>3, <1>4, <1>5, QuietSorted
<1>6. CASE LogicError(t)
  <2>1. ~setup.keepAlive
    BY <1>6 DEF LogicError, ReceiveError, Handed, Typed, OtherTyped, FieldTyped, Setup
  <2>2. t \in Watching
    BY <1>1, <2>1 DEF Watching
  <2>3. t \notin Watching'
    BY <1>2, <1>6, <2>1 DEF Watching, LogicError, Typed, RoutineTypeOK
  <2>4. \A s \in Conns : <<Watcher, s>> \in Handlers /\ <<Other, s>> \in Handlers
    BY DEF Watcher, Other, Handlers
  <2>5. Loses' = [Loses EXCEPT ![t] = "close"]
    BY <1>2, <1>6, <2>1 DEF Loses, Watcher, LogicError, Typed, OtherTyped, Handlers
  <2>6. SpareInv'
    BY <1>2, <1>6, <2>1 DEF SpareInv, Other, LogicError, Typed, OtherTyped, Handlers
  <2>7. Notices(t)
    BY <1>2, <1>3, <1>4, <2>2, <2>3, <2>5 DEF Notices
  <2> QED
    BY <1>2, <2>6, <2>7 DEF Sorted, LossStep
<1> QED
  BY <1>5, <1>6 DEF Logic, LogicTakes, LogicPong, LogicLoops, LogicStops, LogicDefers

LEMMA KeepaliveSorted ==
    ASSUME Typed, SpareInv, NEW s \in Conns, Keepalive(s)
    PROVE  Sorted
<1>1. /\ keepalive[s] \in {"run", "pinged"} /\ setup.keepAlive
      /\ \A t \in Conns \ {s} : keepalive'[t] = keepalive[t]
  BY DEF Keepalive, KeepaliveStops, KeepalivePings, KeepaliveNotes, KeepaliveGivesUp, SpareInv,
         Typed, RoutineTypeOK
<1>2. UNCHANGED <<setup, coreVars, alllogic, outgoing>>
  BY DEF Keepalive, KeepaliveStops, KeepalivePings, KeepaliveNotes, KeepaliveGivesUp, fieldVars,
         startVars, coreVars
<1>3. Watching' \subseteq Watching
  BY <1>1, <1>2 DEF Watching
<1>4. Writing' = Writing
  BY <1>2, ViewsKept
<1>5. CASE UNCHANGED lost
  <2>1. SpareInv'
    BY <1>1, <1>2, <1>5 DEF SpareInv, Other
  <2> QED
    BY <1>2, <1>3, <1>4, <1>5, <2>1, ViewsKept DEF Sorted, LossStep, Quiet
<1>6. CASE KeepaliveGivesUp(s)
  <2>1. s \in Watching /\ s \notin Watching'
    BY <1>1, <1>2, <1>6 DEF Watching, KeepaliveGivesUp, Typed, RoutineTypeOK
  <2>2. Loses' = [Loses EXCEPT ![s] = "close"]
    BY <1>1, <1>2, <1>6 DEF Loses, Watcher, KeepaliveGivesUp, Typed, OtherTyped, Handlers
  <2>3. SpareInv'
    BY <1>1, <1>2, <1>6 DEF SpareInv, Other, KeepaliveGivesUp, Typed, OtherTyped, Handlers
  <2>4. Notices(s)
    BY <1>2, <1>3, <1>4, <2>1, <2>2 DEF Notices
  <2> QED
    BY <1>2, <2>3, <2>4 DEF Sorted, LossStep
<1> QED
  BY <1>5, <1>6 DEF Keepalive, KeepaliveStops, KeepalivePings, KeepaliveNotes

LEMMA LostSorted ==
    ASSUME Typed, SpareInv, NEW h \in Handlers, Lost(h)
    PROVE  Sorted
<1>1. CASE LostPanics(h)
  <2>1. UNCHANGED <<setup, coreVars, lost, keepalive, alllogic, outgoing>>
    BY <1>1 DEF LostPanics, Panic, startVars, routines, coreVars
  <2> QED
    BY <2>1, QuietSorted, ViewsKept
<1>2. CASE LostCloses(h) \/ LostShuts(h) \/ LostReports(h)
  <2>1. UNCHANGED <<setup, starting, stop, conn, routines>>
    BY <1>2 DEF LostCloses, LostShuts, LostReports, fieldVars, startVars
  <2>2. UNCHANGED <<Watching, Writing>>
    BY <2>1, ViewsKept DEF routines
  <2>3. PICK s \in Conns : h = <<Watcher, s>>
    BY <1>2 DEF LostCloses, LostShuts, LostReports, SpareInv, Watcher, Other, Handlers
  <2>4. ASSUME NEW pc, lost' = [lost EXCEPT ![h] = pc]
        PROVE  Loses' = [Loses EXCEPT ![s] = pc] /\ SpareInv'
    <3>1. Watcher' = Watcher /\ Other' = Other /\ Watcher # Other
      BY <2>1 DEF Watcher, Other
    <3>2. \A t \in Conns : <<Watcher, t>> \in Handlers /\ <<Other, t>> \in Handlers
      BY DEF Watcher, Other, Handlers
    <3>3. Loses' = [Loses EXCEPT ![s] = pc]
      BY <2>3, <2>4, <3>1, <3>2 DEF Loses, Typed, OtherTyped
    <3>4. SpareInv'
      BY <2>1, <2>3, <2>4, <3>1, <3>2 DEF SpareInv, Typed, OtherTyped, routines
    <3> QED
      BY <3>3, <3>4
  <2>5. Loses[s] = lost[h]
    BY <2>3 DEF Loses
  <2>6. h[2] = s
    BY <2>3
  <2>7. CASE LostCloses(h)
    <3>1. Closes(s)
      BY <2>1, <2>2, <2>4, <2>5, <2>7 DEF LostCloses, Closes, startVars
    <3> QED
      BY <2>1, <2>4, <2>7, <3>1 DEF LostCloses, Sorted, LossStep
  <2>8. CASE LostShuts(h)
    <3>1. Shuts(s)
      BY <2>1, <2>2, <2>4, <2>5, <2>8 DEF LostShuts, Shuts, fieldVars, startVars, coreVars
    <3> QED
      BY <2>1, <2>4, <2>8, <3>1 DEF LostShuts, Sorted, LossStep
  <2>9. CASE LostReports(h)
    <3>1. Writing = {} /\ Reading = {}
      BY <2>9 DEF LostReports, Workers, Writing, Reading
    <3>2. Reports(s)
      BY <2>1, <2>2, <2>4, <2>5, <2>6, <2>9, <3>1 DEF LostReports, Reports
    <3> QED
      BY <2>1, <2>4, <2>9, <3>2 DEF LostReports, Sorted, LossStep
  <2> QED
    BY <1>2, <2>7, <2>8, <2>9
<1> QED
  BY <1>1, <1>2 DEF Lost

\* Every step does to a loss one of the things that LossStep lists.
LEMMA StepSorted ==
    ASSUME ConnectionAssumption, Typed, SpareInv, Handed, [Next]_vars
    PROVE  Sorted
<1>1. CASE DialFails
  <2>1. Fails
    BY <1>1, ViewsKept DEF DialFails, Fails, startVars, routines, views
  <2> QED
    BY <1>1, <2>1, ViewsKept DEF DialFails, Sorted, LossStep, routines
<1>2. CASE CallDisconnect \/ CallForce \/ Caller \/ UNCHANGED vars
  <2>1. UNCHANGED <<setup, coreVars, lost, keepalive, alllogic, outgoing>>
    BY <1>2 DEF CallDisconnect, CallForce, Caller, Quiesced, ForceShuts, ForcePanics, CallerStops,
                CallerReturns, Panic, vars, fieldVars, startVars, routines, coreVars
  <2> QED
    BY <2>1, QuietSorted, ViewsKept
<1> QED
  BY <1>1, <1>2, StarterSorted, IncomingSorted, OutgoingSorted, LogicSorted, KeepaliveSorted,
     LostSorted DEF Next
-----------------------------------------------------------------------------
(* Types.                                                                  *)

LEMMA FieldStep ==
    ASSUME ConnectionAssumption, Typed, [Next]_vars PROVE FieldTyped'
<1> USE DEF Typed, FieldTyped, ConnectionAssumption, Conns
<1>1. CASE UNCHANGED <<setup, conn, stop, closed, startVars>>
  BY <1>1 DEF startVars
<1>2. CASE DialFails
  BY <1>2 DEF DialFails, startVars
<1>3. ASSUME NEW s \in Conns, Starter(s) PROVE FieldTyped'
  BY <1>3 DEF Starter, DialSucceeds, StartWriters, StartReaders
<1>4. ASSUME NEW h \in Handlers, LostCloses(h) PROVE FieldTyped'
  BY <1>4 DEF LostCloses, startVars
<1>5. ASSUME NEW h \in Handlers, LostReports(h) PROVE FieldTyped'
  <2>1. UNCHANGED <<setup, conn, stop, closed, starting>> /\ dialling' \in {dialling, dialling + 1}
    BY <1>5 DEF LostReports
  <2> QED
    BY <2>1
<1>6. \/ DialFails
      \/ \E s \in Conns : Starter(s)
      \/ \E h \in Handlers : LostCloses(h) \/ LostReports(h)
      \/ UNCHANGED <<setup, conn, stop, closed, startVars>>
  <2>1. CASE CallDisconnect \/ CallForce \/ Caller \/ UNCHANGED vars
    BY <2>1 DEF CallDisconnect, CallForce, Caller, Quiesced, ForceShuts, ForcePanics, CallerStops,
                CallerReturns, Panic, vars, fieldVars
  <2>2. ASSUME NEW s \in Conns, Incoming(s) \/ Outgoing(s) \/ Reset(s) \/ Mute(s)
        PROVE  UNCHANGED <<setup, conn, stop, closed, startVars>>
    BY <2>2 DEF Incoming, IncomingReads, IncomingFails, IncomingPanics, Outgoing, OutgoingLoops,
                OutgoingStops, OutgoingWrites, OutgoingDisconnects, Reset, Mute, Panic, fieldVars
  <2>3. ASSUME NEW s \in Conns, Logic(s) \/ Keepalive(s)
        PROVE  UNCHANGED <<setup, conn, stop, closed, startVars>>
    BY <2>3 DEF Logic, LogicTakes, LogicPong, LogicLoops, LogicStops, LogicError, LogicDefers,
                Keepalive, KeepaliveStops, KeepalivePings, KeepaliveNotes, KeepaliveGivesUp, fieldVars
  <2>4. ASSUME NEW h \in Handlers, LostShuts(h) \/ LostPanics(h)
        PROVE  UNCHANGED <<setup, conn, stop, closed, startVars>>
    BY <2>4 DEF LostShuts, LostPanics, Panic, fieldVars
  <2> QED
    BY <2>1, <2>2, <2>3, <2>4 DEF Next, Lost
<1> QED
  BY <1>1, <1>2, <1>3, <1>4, <1>5, <1>6

OutgoingTypes == [Conns -> [pc : {"no", "top", "wait", "error", "done"}, stop : 0..MaxConns]]
IncomingTypes == [Conns -> [pc : {"no", "read", "put", "error", "done"}, conn : 0..MaxConns]]
LogicTypes    == [Conns -> [pc : {"no", "top", "full", "wait", "done"}, stop : 0..MaxConns]]
KeepTypes     == [Conns -> {"no", "run", "pinged", "done"}]

LEMMA RoutineTypes ==
    RoutineTypeOK <=> /\ outgoing \in OutgoingTypes /\ incoming \in IncomingTypes
                      /\ alllogic \in LogicTypes /\ keepalive \in KeepTypes
  BY DEF RoutineTypeOK, OutgoingTypes, IncomingTypes, LogicTypes, KeepTypes

\* A goroutine goes on to another position.
LEMMA StopMoves ==
    ASSUME NEW P, NEW S, NEW f \in [Conns -> [pc : P, stop : S]], NEW s \in Conns, NEW p \in P
    PROVE  [f EXCEPT ![s].pc = p] \in [Conns -> [pc : P, stop : S]]
  OBVIOUS

LEMMA ConnMoves ==
    ASSUME NEW P, NEW S, NEW f \in [Conns -> [pc : P, conn : S]], NEW s \in Conns, NEW p \in P
    PROVE  [f EXCEPT ![s].pc = p] \in [Conns -> [pc : P, conn : S]]
  OBVIOUS

\* incoming, outgoing and alllogic, wherever they go.
LEMMA RoutineMoves ==
    ASSUME Typed, NEW s \in Conns
    PROVE  /\ \A p \in {"top", "wait", "error", "done"} :
                 [outgoing EXCEPT ![s].pc = p] \in OutgoingTypes
           /\ [outgoing EXCEPT ![s] = [pc |-> "wait", stop |-> stop]] \in OutgoingTypes
           /\ \A p \in {"put", "error", "done"} : [incoming EXCEPT ![s].pc = p] \in IncomingTypes
           /\ [incoming EXCEPT ![s] = [pc |-> "read", conn |-> conn]] \in IncomingTypes
           /\ [incoming EXCEPT ![s].conn = conn] \in IncomingTypes
           /\ \A p \in {"top", "full", "done"} : [alllogic EXCEPT ![s].pc = p] \in LogicTypes
           /\ [alllogic EXCEPT ![s] = [pc |-> "wait", stop |-> stop]] \in LogicTypes
<1> USE DEF Typed, FieldTyped, RoutineTypeOK
<1>1. ASSUME NEW p \in {"top", "wait", "error", "done"}
      PROVE  [outgoing EXCEPT ![s].pc = p] \in OutgoingTypes
  BY StopMoves DEF OutgoingTypes
<1>2. [outgoing EXCEPT ![s] = [pc |-> "wait", stop |-> stop]] \in OutgoingTypes
  BY DEF OutgoingTypes
<1>3. ASSUME NEW p \in {"put", "error", "done"}
      PROVE  [incoming EXCEPT ![s].pc = p] \in IncomingTypes
  BY ConnMoves DEF IncomingTypes
<1>4. [incoming EXCEPT ![s] = [pc |-> "read", conn |-> conn]] \in IncomingTypes
  BY DEF IncomingTypes
<1>5. [incoming EXCEPT ![s].conn = conn] \in IncomingTypes
  BY DEF IncomingTypes
<1>6. ASSUME NEW p \in {"top", "full", "done"}
      PROVE  [alllogic EXCEPT ![s].pc = p] \in LogicTypes
  BY StopMoves DEF LogicTypes
<1>7. [alllogic EXCEPT ![s] = [pc |-> "wait", stop |-> stop]] \in LogicTypes
  BY DEF LogicTypes
<1> QED
  BY <1>1, <1>2, <1>3, <1>4, <1>5, <1>6, <1>7

LEMMA RoutineStep ==
    ASSUME ConnectionAssumption, Typed, [Next]_vars PROVE RoutineTypeOK'
<1>0. /\ outgoing \in OutgoingTypes /\ incoming \in IncomingTypes
      /\ alllogic \in LogicTypes /\ keepalive \in KeepTypes
  BY RoutineTypes DEF Typed
<1>1. ASSUME outgoing' \in OutgoingTypes, incoming' \in IncomingTypes, alllogic' \in LogicTypes,
             keepalive' \in KeepTypes
      PROVE  RoutineTypeOK'
  BY <1>1 DEF RoutineTypeOK, OutgoingTypes, IncomingTypes, LogicTypes, KeepTypes
<1>2. CASE UNCHANGED routines
  <2>1. outgoing' = outgoing /\ incoming' = incoming /\ alllogic' = alllogic /\ keepalive' = keepalive
    BY <1>2 DEF routines
  <2> QED
    BY <1>0, <1>1, <2>1
<1>3. ASSUME NEW s \in Conns, Starter(s) PROVE RoutineTypeOK'
  <2>1. CASE DialSucceeds(s)
    BY <1>2, <2>1 DEF DialSucceeds
  <2>2. CASE StartWriters(s)
    BY <1>0, <1>1, <2>2, RoutineMoves DEF StartWriters
  <2>3. CASE StartReaders(s)
    <3>1. keepalive' \in KeepTypes
      BY <1>0, <2>3 DEF StartReaders, KeepTypes
    <3> QED
      BY <1>0, <1>1, <2>3, <3>1, RoutineMoves DEF StartReaders
  <2> QED
    BY <1>3, <2>1, <2>2, <2>3 DEF Starter
<1>4. ASSUME NEW s \in Conns, Incoming(s) PROVE RoutineTypeOK'
  <2>1. incoming' \in IncomingTypes
    BY <1>0, <1>4, RoutineMoves
       DEF Incoming, IncomingReads, IncomingFails, IncomingPanics, Panic, routines
  <2>2. UNCHANGED <<outgoing, alllogic, keepalive>>
    BY <1>4 DEF Incoming, IncomingReads, IncomingFails, IncomingPanics, Panic, routines
  <2> QED
    BY <1>0, <1>1, <2>1, <2>2
<1>5. ASSUME NEW s \in Conns, Outgoing(s) PROVE RoutineTypeOK'
  <2>1. outgoing' \in OutgoingTypes
    <3>1. \/ outgoing' = [outgoing EXCEPT ![s] = [pc |-> "wait", stop |-> stop]]
          \/ \E p \in {"top", "error", "done"} : outgoing' = [outgoing EXCEPT ![s].pc = p]
      BY <1>5 DEF Outgoing, OutgoingLoops, OutgoingStops, OutgoingWrites, OutgoingDisconnects
    <3> QED
      BY <3>1, RoutineMoves
  <2>2. UNCHANGED <<incoming, alllogic, keepalive>>
    BY <1>5 DEF Outgoing, OutgoingLoops, OutgoingStops, OutgoingWrites, OutgoingDisconnects
  <2> QED
    BY <1>0, <1>1, <2>1, <2>2
<1>6. ASSUME NEW t \in Conns, Logic(t) PROVE RoutineTypeOK'
  <2>1. alllogic' \in LogicTypes
    <3>1. \/ alllogic' = [alllogic EXCEPT ![t] = [pc |-> "wait", stop |-> stop]]
          \/ \E p \in {"top", "full", "done"} : alllogic' = [alllogic EXCEPT ![t].pc = p]
      BY <1>6 DEF Logic, LogicTakes, LogicPong, LogicLoops, LogicStops, LogicError, LogicDefers
    <3> QED
      BY <3>1, RoutineMoves
  <2>2. incoming' \in IncomingTypes /\ outgoing' \in OutgoingTypes
    <3>1. CASE LogicError(t)
      BY <1>0, <3>1, RoutineMoves DEF LogicError, ReceiveError
    <3>2. CASE LogicDefers(t)
      BY <1>0, <3>2, RoutineMoves DEF LogicDefers
    <3>3. ASSUME NEW s \in Conns, LogicTakes(t, s) \/ LogicPong(t, s)
          PROVE  incoming' \in IncomingTypes /\ UNCHANGED outgoing
      BY <3>3, RoutineMoves DEF LogicTakes, LogicPong
    <3>4. CASE LogicLoops(t) \/ LogicStops(t)
      BY <1>0, <3>4 DEF LogicLoops, LogicStops
    <3> QED
      BY <1>0, <1>6, <3>1, <3>2, <3>3, <3>4 DEF Logic
  <2>3. UNCHANGED keepalive
    BY <1>6 DEF Logic, LogicTakes, LogicPong, LogicLoops, LogicStops, LogicError, LogicDefers
  <2> QED
    BY <1>0, <1>1, <2>1, <2>2, <2>3
<1>7. ASSUME NEW s \in Conns, Keepalive(s) PROVE RoutineTypeOK'
  <2>1. keepalive' \in KeepTypes
    BY <1>0, <1>7 DEF Keepalive, KeepaliveStops, KeepalivePings, KeepaliveNotes, KeepaliveGivesUp,
                      KeepTypes
  <2>2. UNCHANGED <<outgoing, incoming, alllogic>>
    BY <1>7 DEF Keepalive, KeepaliveStops, KeepalivePings, KeepaliveNotes, KeepaliveGivesUp
  <2> QED
    BY <1>0, <1>1, <2>1, <2>2
<1>8. ASSUME NEW s \in Conns, Reset(s) \/ Mute(s) PROVE UNCHANGED routines
  BY <1>8 DEF Reset, Mute
<1>9. ASSUME NEW h \in Handlers, Lost(h) PROVE UNCHANGED routines
  BY <1>9 DEF Lost, LostCloses, LostShuts, LostPanics, LostReports, Panic
<1>10. CASE DialFails \/ CallDisconnect \/ CallForce \/ Caller \/ UNCHANGED vars
  BY <1>2, <1>10 DEF DialFails, CallDisconnect, CallForce, Caller, Quiesced, ForceShuts, ForcePanics,
                     CallerStops, CallerReturns, Panic, vars
<1> QED
  BY <1>2, <1>3, <1>4, <1>5, <1>6, <1>7, <1>8, <1>9, <1>10 DEF Next

LEMMA OtherStep ==
    ASSUME ConnectionAssumption, Typed, [Next]_vars PROVE OtherTyped'
<1> USE DEF Typed, FieldTyped, OtherTyped, ConnectionAssumption, Conns
<1>1. CASE DialFails \/ CallDisconnect \/ CallForce \/ Caller \/ UNCHANGED vars
  BY <1>1 DEF DialFails, CallDisconnect, CallForce, Caller, Quiesced, ForceShuts, ForcePanics,
              CallerStops, CallerReturns, Panic, vars, callVars, netVars
<1>2. ASSUME NEW s \in Conns, Starter(s) PROVE OtherTyped'
  BY <1>2 DEF Starter, DialSucceeds, StartWriters, StartReaders, callVars, netVars
<1>3. ASSUME NEW s \in Conns, Incoming(s) \/ Outgoing(s) \/ Reset(s) \/ Mute(s) PROVE OtherTyped'
  BY <1>3 DEF Incoming, IncomingReads, IncomingFails, IncomingPanics, Outgoing, OutgoingLoops,
              OutgoingStops, OutgoingWrites, OutgoingDisconnects, Reset, Mute, Panic, callVars, netVars
<1>4. ASSUME NEW t \in Conns, Logic(t) PROVE OtherTyped'
  <2>1. strays' \in Nat
    <3>1. CASE LogicError(t)
      BY <3>1 DEF LogicError, ReceiveError
    <3>2. CASE LogicDefers(t)
      BY <3>2 DEF LogicDefers
    <3> QED
      BY <1>4, <3>1, <3>2 DEF Logic, LogicTakes, LogicPong, LogicLoops, LogicStops
  <2>2. lost' \in {lost, [lost EXCEPT ![<<"alllogic", t>>] = "close"]}
    BY <1>4 DEF Logic, LogicTakes, LogicPong, LogicLoops, LogicStops, LogicError, LogicDefers
  <2>3. UNCHANGED <<caller, reports, alive>>
    BY <1>4 DEF Logic, LogicTakes, LogicPong, LogicLoops, LogicStops, LogicError, LogicDefers,
                callVars, netVars
  <2> QED
    BY <2>1, <2>2, <2>3
<1>5. ASSUME NEW s \in Conns, Keepalive(s) PROVE OtherTyped'
  BY <1>5 DEF Keepalive, KeepaliveStops, KeepalivePings, KeepaliveNotes, KeepaliveGivesUp, callVars,
              netVars
<1>6. ASSUME NEW h \in Handlers, Lost(h) PROVE OtherTyped'
  <2>1. PICK pc \in {"close", "shut", "wait", "done"} : lost' \in {lost, [lost EXCEPT ![h] = pc]}
    BY <1>6 DEF Lost, LostCloses, LostShuts, LostPanics, LostReports, Panic
  <2>2. reports' \in {reports, [reports EXCEPT ![h[2]] = @ + 1]}
    BY <1>6 DEF Lost, LostCloses, LostShuts, LostPanics, LostReports, Panic
  <2>3. reports' \in [Conns -> Nat]
    BY <2>2, h[2] \in Conns DEF Handlers
  <2>4. UNCHANGED <<strays, caller>> /\ alive' \subseteq alive
    BY <1>6 DEF Lost, LostCloses, LostShuts, LostPanics, LostReports, Panic, callVars, netVars
  <2> QED
    BY <2>1, <2>3, <2>4
<1> QED
  BY <1>1, <1>2, <1>3, <1>4, <1>5, <1>6 DEF Next

\* The constants' assumption gives every step its types.
LEMMA TypedStep == ConnectionAssumption /\ Typed /\ [Next]_vars => Typed'
  BY FieldStep, RoutineStep, OtherStep DEF Typed
-----------------------------------------------------------------------------
(* Ordinary situations.                                                    *)

LEMMA OrdinaryMeans ==
    ASSUME Typed, Ordinary
    PROVE  /\ ~setup.traffic
           /\ setup.keepAlive => setup.call = "none" /\ setup.fault = "mute"
           /\ ~setup.keepAlive => setup.fault # "mute"
           /\ setup.call # "none" => setup.fault = "none"
  BY DEF Typed, FieldTyped, Setup, Ordinary, SoleWitness

\* Where incoming, the strays and the handlers are left alone, so is the error.
LEMMA ErrorFrame ==
    ASSUME ErrorInv, UNCHANGED <<setup, stop, strays, Loses, Ended>>
    PROVE  ErrorInv'
  BY DEF ErrorInv

\* incoming s goes from one position to another.
LEMMA EndedKept ==
    ASSUME Typed, NEW s \in Conns, incoming[s].pc # "done",
           \A t \in Conns \ {s} : incoming'[t] = incoming[t], incoming'[s].pc # "done"
    PROVE  UNCHANGED Ended
  BY DEF Ended

\* incoming s ends.
LEMMA EndedGrows ==
    ASSUME Typed, NEW s \in Conns, incoming' = [incoming EXCEPT ![s].pc = "done"]
    PROVE  Ended' = Ended \cup {s}
<1>1. incoming'[s].pc = "done" /\ \A t \in Conns \ {s} : incoming'[t] = incoming[t]
  BY DEF Typed, RoutineTypeOK
<1> QED
  BY <1>1 DEF Ended

\* The goroutine that receives an error is the one of the current connection,
\* and so is the sender.
LEMMA ErrorStep ==
    ASSUME ConnectionAssumption, Typed, Ordinary, CoreInv, ReadInv, ErrorInv, [Next]_vars,
           Sorted
    PROVE  ErrorInv'
<1> USE DEF Conns
<1>0. setup' = setup
  BY DEF Sorted
<1>1. CASE setup.keepAlive
  BY <1>0, <1>1 DEF ErrorInv
<1>2. CASE ~setup.keepAlive
  <2>1. CASE UNCHANGED <<stop, strays, lost, incoming>>
    BY <1>0, <2>1, ViewsKept, ErrorFrame DEF Ended
  <2>2. ASSUME NEW s \in Conns, StartWriters(s) PROVE ErrorInv'
    <3>1. stop' = s /\ starting[s] = "dialled" /\ UNCHANGED <<strays, Loses, Ended>>
      BY <1>0, <2>2, ViewsKept DEF StartWriters, Ended
    <3>2. strays = 0
      BY <1>2, <3>1 DEF CoreInv, DialInv, ErrorInv, Typed, FieldTyped
    <3>3. s \notin Ended /\ Loses[s] = "no"
      BY <3>1 DEF ReadInv, Ended, CoreInv, OrderInv
    <3> QED
      BY <3>1, <3>2, <3>3 DEF ErrorInv
  <2>3. ASSUME NEW s \in Conns, StartReaders(s) PROVE ErrorInv'
    <3>1. incoming[s].pc = "no"
      BY <2>3 DEF StartReaders, ReadInv
    <3>2. UNCHANGED Ended
      BY <2>3, <3>1, EndedKept DEF StartReaders, Typed, RoutineTypeOK
    <3> QED
      BY <1>0, <2>3, <3>2, ViewsKept, ErrorFrame DEF StartReaders
  <2>4. ASSUME NEW s \in Conns, IncomingReads(s) PROVE ErrorInv'
    <3>1. UNCHANGED Ended
      BY <2>4, EndedKept DEF IncomingReads, Typed, RoutineTypeOK
    <3> QED
      BY <1>0, <2>4, <3>1, ViewsKept, ErrorFrame DEF IncomingReads, fieldVars
  <2>5. ASSUME NEW s \in Conns, IncomingFails(s) PROVE ErrorInv'
    <3>1. s = stop /\ s \notin Ended
      BY <2>5 DEF IncomingFails, ReadInv, Reading, Ended
    <3>2. stop \notin closed
      BY <1>2, <3>1 DEF ErrorInv, CoreInv, WatchInv
    <3>3. incoming' = [incoming EXCEPT ![s].pc = "error"]
      BY <2>5, <3>2 DEF IncomingFails
    <3>4. UNCHANGED Ended
      BY <2>5, <3>3, EndedKept DEF IncomingFails, Typed, RoutineTypeOK
    <3> QED
      BY <1>0, <2>5, <3>4, ViewsKept, ErrorFrame DEF IncomingFails, fieldVars
  <2>6. ASSUME NEW t \in Conns, Logic(t) PROVE ErrorInv'
    <3>1. CASE LogicLoops(t) \/ LogicStops(t)
      BY <2>1, <3>1 DEF LogicLoops, LogicStops, fieldVars
    <3>2. ASSUME NEW s \in Conns, LogicTakes(t, s) PROVE ErrorInv'
      <4>1. UNCHANGED Ended
        <5>1. incoming[s].pc \in {"read", "put"} /\ incoming'[s].pc = "read"
          BY <3>2 DEF LogicTakes, Typed, RoutineTypeOK
        <5>2. \A r \in Conns \ {s} : incoming'[r] = incoming[r]
          BY <3>2 DEF LogicTakes, Typed, RoutineTypeOK
        <5> QED
          BY <5>1, <5>2, EndedKept
      <4> QED
        BY <1>0, <3>2, <4>1, ViewsKept, ErrorFrame DEF LogicTakes, fieldVars
    <3>3. ASSUME NEW s \in Conns, LogicPong(t, s) PROVE ErrorInv'
      <4>1. UNCHANGED Ended
        <5>1. incoming[s].pc \in {"read", "put"} /\ incoming'[s].pc = "read"
          BY <3>3 DEF LogicPong, Typed, RoutineTypeOK
        <5>2. \A r \in Conns \ {s} : incoming'[r] = incoming[r]
          BY <3>3 DEF LogicPong, Typed, RoutineTypeOK
        <5> QED
          BY <5>1, <5>2, EndedKept
      <4> QED
        BY <1>0, <3>3, <4>1, ViewsKept, ErrorFrame DEF LogicPong
    <3>4. CASE LogicError(t)
      <4>1. t \in Watching
        BY <1>2, <3>4 DEF LogicError, Watching
      <4>2. t = stop /\ Loses[t] = "no" /\ stop' = stop
        BY <3>4, <4>1 DEF CoreInv, WatchInv, LogicError, fieldVars
      <4>3. Loses'[t] = "close"
        BY <1>0, <1>2, <3>4 DEF LogicError, Loses, Watcher, Typed, OtherTyped, Handlers
      <4>4. ASSUME NEW s \in Conns, incoming[s].pc = "error",
                   incoming' = [incoming EXCEPT ![s].pc = "done"], strays' = strays
            PROVE  ErrorInv'
        <5>1. s = stop /\ s \notin Ended
          BY <4>4 DEF ReadInv, Reading, Ended
        <5>2. Ended' = Ended \cup {s}
          BY <4>4, EndedGrows
        <5> QED
          BY <1>2, <4>2, <4>3, <4>4, <5>1, <5>2 DEF ErrorInv
      <4>5. CASE strays > 0 /\ strays' = strays - 1 /\ UNCHANGED incoming
        <5>1. Ended' = Ended
          BY <4>5 DEF Ended
        <5> QED
          BY <1>2, <4>2, <4>3, <4>5, <5>1 DEF ErrorInv
      <4>6. \A s \in Conns : outgoing[s].pc # "error"
        BY DEF ReadInv
      <4> QED
        BY <3>4, <4>4, <4>5, <4>6 DEF LogicError, ReceiveError
    <3>5. CASE LogicDefers(t)
      <4>1. UNCHANGED <<stop, Loses>>
        BY <1>0, <3>5, ViewsKept DEF LogicDefers, fieldVars
      <4>2. ASSUME NEW s \in Conns, incoming[s].pc = "error",
                   incoming' = [incoming EXCEPT ![s].pc = "done"], strays' = strays + 1
            PROVE  ErrorInv'
        <5>1. s = stop /\ s \notin Ended
          BY <4>2 DEF ReadInv, Reading, Ended
        <5>2. Ended' = Ended \cup {s}
          BY <4>2, EndedGrows
        <5> QED
          BY <1>2, <4>1, <4>2, <5>1, <5>2 DEF ErrorInv
      <4>3. CASE UNCHANGED <<strays, incoming>>
        BY <1>0, <4>1, <4>3, ErrorFrame DEF Ended
      <4>4. \A s \in Conns : outgoing[s].pc # "error"
        BY DEF ReadInv
      <4> QED
        BY <3>5, <4>2, <4>3, <4>4 DEF LogicDefers
    <3> QED
      BY <2>6, <3>1, <3>2, <3>3, <3>4, <3>5 DEF Logic
  <2>7. ASSUME NEW h \in Handlers, LostCloses(h) \/ LostShuts(h) \/ LostReports(h) PROVE ErrorInv'
    <3>1. UNCHANGED <<stop, strays, Ended>>
      BY <2>7 DEF LostCloses, LostShuts, LostReports, fieldVars, routines, Ended
    <3>2. \A s \in Conns : Loses'[s] = "no" <=> Loses[s] = "no"
      <4>1. PICK s \in Conns : h = <<Watcher, s>>
        BY <2>7 DEF LostCloses, LostShuts, LostReports, CoreInv, SpareInv, Watcher, Other, Handlers
      <4>2. PICK pc \in {"shut", "wait", "done"} : lost' = [lost EXCEPT ![h] = pc]
        BY <2>7 DEF LostCloses, LostShuts, LostReports
      <4>3. Watcher' = Watcher
        BY <1>0 DEF Watcher
      <4>4. lost[h] # "no"
        BY <2>7 DEF LostCloses, LostShuts, LostReports
      <4> QED
        BY <4>1, <4>2, <4>3, <4>4 DEF Loses, Typed, OtherTyped, Handlers
    <3> QED
      BY <1>0, <3>1, <3>2 DEF ErrorInv
  <2>8. ASSUME NEW s \in Conns, NEW h \in Handlers,
               DialSucceeds(s) \/ IncomingPanics(s) \/ Outgoing(s) \/ Reset(s) \/ Mute(s) \/ LostPanics(h)
        PROVE  ErrorInv'
    BY <2>1, <2>8 DEF DialSucceeds, IncomingPanics, Outgoing, OutgoingLoops, OutgoingStops,
        OutgoingWrites, OutgoingDisconnects, Reset, Mute, LostPanics, Panic, fieldVars, routines
  <2>9. ASSUME NEW s \in Conns, Keepalive(s) PROVE ErrorInv'
    BY <1>2, <2>9 DEF Keepalive, KeepaliveStops, KeepalivePings, KeepaliveNotes, KeepaliveGivesUp,
        CoreInv, SpareInv
  <2>10. CASE DialFails \/ CallDisconnect \/ CallForce \/ Caller \/ UNCHANGED vars
    BY <2>1, <2>10 DEF DialFails, CallDisconnect, CallForce, Caller, Quiesced, ForceShuts, ForcePanics,
        CallerStops, CallerReturns, Panic, vars, fieldVars, routines
  <2>11. <<"alllogic", 1>> \in Handlers
    BY DEF ConnectionAssumption, Handlers
  <2> QED
    BY <2>2, <2>3, <2>4, <2>5, <2>6, <2>7, <2>8, <2>9, <2>10, <2>11
       DEF Next, Starter, Incoming, Lost, ConnectionAssumption
<1> QED
  BY <1>1, <1>2
-----------------------------------------------------------------------------
\* What a step of a loss means to the goroutines that read.
ReadOn ==
    /\ \A s \in Reading : s = stop' /\ starting'[s] = "yes" /\ Loses'[s] # "done"
    /\ \A s \in Conns : starting'[s] = "writing" => s = stop'
    /\ \A s \in Conns : starting'[s] # "yes" => starting[s] # "yes"
    /\ \A s \in Conns : starting'[s] = "yes" /\ starting[s] # "yes"
                            => s = stop' /\ Loses'[s] # "done" /\ conn' = s

LEMMA ReadsOn ==
    ASSUME ConnectionAssumption, LossTyped, CoreInv, ReadInv, ErrorInv, LossStep
    PROVE  ReadOn
<1> USE DEF LossTyped, Conns, ConnectionAssumption
<1>0. \A s \in Conns : starting[s] = "writing" => s = stop /\ Loses[s] = "no"
  BY DEF ReadInv, ErrorInv, CoreInv, WatchInv, Ended
<1>1. /\ \A s \in Reading : s \in Conns /\ s = stop /\ starting[s] = "yes" /\ Loses[s] # "done"
      /\ \A s, t \in Conns : starting[t] = "dialled" /\ s = stop => Loses[s] = "done"
      /\ \A s \in Conns : s \in Watching => Loses[s] = "no"
  BY DEF ReadInv, Reading, CoreInv, DialInv, WatchInv
<1>2. CASE Quiet
  BY <1>0, <1>1, <1>2 DEF Quiet, coreVars, ReadOn
<1>3. CASE Fails
  BY <1>0, <1>1, <1>3 DEF Fails, views, ReadOn
<1>4. ASSUME NEW s \in Conns, Dials(s) PROVE ReadOn
  BY <1>0, <1>1, <1>4 DEF Dials, views, ReadOn
<1>5. ASSUME NEW s \in Conns, Writers(s) PROVE ReadOn
  BY <1>0, <1>1, <1>5 DEF Writers, ReadOn
<1>6. ASSUME NEW s \in Conns, Readers(s) PROVE ReadOn
  <2>1. conn = s
    BY <1>0, <1>6 DEF Readers, CoreInv, HeldInv
  <2> QED
    BY <1>0, <1>1, <1>6, <2>1 DEF Readers, ReadOn
<1>7. ASSUME NEW s \in Conns, Notices(s) \/ Closes(s) \/ Shuts(s) PROVE ReadOn
  <2>1. \A r \in Conns : Loses'[r] = "done" => Loses[r] = "done"
    BY <1>7, <1>1 DEF Notices, Closes, Shuts
  <2>2. UNCHANGED <<starting, stop>>
    BY <1>7 DEF Notices, Closes, Shuts, coreVars
  <2> QED
    BY <1>0, <1>1, <2>1, <2>2 DEF ReadOn
<1>8. ASSUME NEW s \in Conns, Reports(s) PROVE ReadOn
  BY <1>0, <1>8 DEF Reports, ReadOn
<1> QED
  BY <1>2, <1>3, <1>4, <1>5, <1>6, <1>7, <1>8 DEF LossStep

LEMMA ReadFrame ==
    ASSUME Typed, ReadInv, ReadOn,
           \A s \in Conns : \/ incoming'[s] = incoming[s]
                            \/ s \in Reading /\ (incoming'[s].pc = "done" \/ incoming'[s].conn = s),
           \A s \in Conns : outgoing'[s].pc # "error"
    PROVE  ReadInv'
<1>1. ASSUME NEW s \in Conns, s \in Reading'
      PROVE  s = stop' /\ starting'[s] = "yes" /\ Loses'[s] # "done" /\ incoming'[s].conn = s
  <2>1. s \in Reading
    BY <1>1 DEF Reading
  <2>2. incoming'[s].conn = s
    BY <1>1, <2>1 DEF Reading, ReadInv
  <2> QED
    BY <2>1, <2>2 DEF ReadOn
<1>2. ASSUME NEW s \in Conns, starting'[s] # "yes" PROVE incoming'[s].pc = "no"
  BY <1>2 DEF ReadOn, ReadInv, Reading
<1> QED
  BY <1>1, <1>2 DEF ReadInv, ReadOn

LEMMA ReadStep ==
    ASSUME ConnectionAssumption, Typed, Ordinary, CoreInv, ReadInv, ErrorInv, CallInv, [Next]_vars,
           ReadOn
    PROVE  ReadInv'
<1> DEFINE Reader(s) == \/ incoming'[s] = incoming[s]
                        \/ s \in Reading /\ (incoming'[s].pc = "done" \/ incoming'[s].conn = s)
           Writer(s) == outgoing'[s].pc # "error"
<1>0. CASE UNCHANGED <<incoming, outgoing>>
  BY <1>0, ReadFrame DEF ReadInv
<1>1. ASSUME NEW s \in Conns, Starter(s) PROVE ReadInv'
  <2>1. CASE DialSucceeds(s) \/ StartWriters(s)
    <3>1. UNCHANGED incoming
      BY <2>1 DEF DialSucceeds, StartWriters, routines
    <3>2. \A t \in Conns : Writer(t)
      BY <2>1 DEF DialSucceeds, StartWriters, routines, ReadInv, Typed, RoutineTypeOK
    <3> HIDE DEF Writer
    <3> QED
      BY <3>1, <3>2, ReadFrame DEF Writer
  <2>2. CASE StartReaders(s)
    <3>1. /\ incoming'[s] = [pc |-> "read", conn |-> conn] /\ starting'[s] = "yes"
          /\ \A t \in Conns \ {s} : incoming'[t] = incoming[t] /\ starting'[t] = starting[t]
      BY <2>2 DEF StartReaders, Typed, RoutineTypeOK, FieldTyped
    <3>2. s = stop' /\ Loses'[s] # "done" /\ conn = s
      BY <2>2, <3>1 DEF StartReaders, ReadOn
    <3>3. ASSUME NEW t \in Conns
          PROVE  /\ t \in Reading' => /\ t = stop' /\ starting'[t] = "yes" /\ Loses'[t] # "done"
                                      /\ incoming'[t].conn = t
                 /\ starting'[t] # "yes" => incoming'[t].pc = "no"
      <4>1. CASE t = s
        BY <3>1, <3>2, <4>1
      <4>2. CASE t # s
        BY <3>1, <4>2 DEF Reading, ReadInv, ReadOn
      <4> QED
        BY <4>1, <4>2
    <3>4. UNCHANGED outgoing
      BY <2>2 DEF StartReaders
    <3> QED
      BY <3>3, <3>4 DEF ReadInv, ReadOn
  <2> QED
    BY <1>1, <2>1, <2>2 DEF Starter
<1>2. ASSUME NEW s \in Conns, Incoming(s) PROVE ReadInv'
  <2>1. CASE IncomingPanics(s)
    BY <1>0, <2>1 DEF IncomingPanics, Panic, routines
  <2>3. CASE IncomingReads(s) \/ IncomingFails(s)
    <3>1. s \in Reading /\ UNCHANGED outgoing
      BY <2>3 DEF IncomingReads, IncomingFails, Reading
    <3>2. /\ incoming'[s].conn = incoming[s].conn
          /\ \A t \in Conns \ {s} : incoming'[t] = incoming[t]
      BY <2>3 DEF IncomingReads, IncomingFails, Typed, RoutineTypeOK
    <3>3. \A t \in Conns : Reader(t) /\ Writer(t)
      BY <3>1, <3>2 DEF ReadInv
    <3> HIDE DEF Reader, Writer
    <3> QED
      BY <3>3, ReadFrame DEF Reader, Writer
  <2> QED
    BY <1>2, <2>1, <2>3 DEF Incoming
<1>3. ASSUME NEW s \in Conns, Outgoing(s) PROVE ReadInv'
  <2>1. ~setup.traffic
    BY OrdinaryMeans
  <2>2. farewell => conn \in alive
    BY OrdinaryMeans DEF CallInv, Typed, FieldTyped, Setup
  <2>3. \A t \in Conns : Writer(t)
    <3>1. CASE OutgoingLoops(s)
      BY <3>1 DEF OutgoingLoops, ReadInv, Typed, RoutineTypeOK
    <3>3. CASE OutgoingStops(s)
      BY <3>3 DEF OutgoingStops, ReadInv, Typed, RoutineTypeOK
    <3>2. CASE OutgoingDisconnects(s)
      <4>1. outgoing' = [outgoing EXCEPT ![s].pc = "done"]
        BY <2>2, <3>2 DEF OutgoingDisconnects
      <4> QED
        BY <4>1 DEF ReadInv, Typed, RoutineTypeOK
    <3> QED
      BY <1>3, <2>1, <3>1, <3>2, <3>3 DEF Outgoing, OutgoingWrites
  <2>4. UNCHANGED incoming
    BY <1>3 DEF Outgoing, OutgoingLoops, OutgoingStops, OutgoingWrites, OutgoingDisconnects
  <2> HIDE DEF Writer
  <2> QED
    BY <2>3, <2>4, ReadFrame DEF Writer
<1>4. ASSUME NEW t \in Conns, Logic(t) PROVE ReadInv'
  <2>1. CASE LogicLoops(t) \/ LogicStops(t)
    BY <1>0, <2>1 DEF LogicLoops, LogicStops
  <2>2. ASSUME NEW s \in Conns, LogicTakes(t, s) \/ LogicPong(t, s) PROVE ReadInv'
    <3>1. s \in Reading /\ UNCHANGED outgoing
      BY <2>2 DEF LogicTakes, LogicPong, Reading
    <3>2. conn = s
      BY <3>1 DEF ReadInv, CoreInv, HeldInv
    <3>3. /\ incoming'[s].conn = conn
          /\ \A r \in Conns \ {s} : incoming'[r] = incoming[r]
      BY <2>2 DEF LogicTakes, LogicPong, Typed, RoutineTypeOK
    <3>4. \A r \in Conns : Reader(r) /\ Writer(r)
      BY <3>1, <3>2, <3>3 DEF ReadInv
    <3> HIDE DEF Reader, Writer
    <3> QED
      BY <3>4, ReadFrame DEF Reader, Writer
  <2>3. ASSUME NEW s \in Conns, incoming[s].pc = "error",
               incoming' = [incoming EXCEPT ![s].pc = "done"], UNCHANGED outgoing
        PROVE  ReadInv'
    <3>1. s \in Reading
      BY <2>3 DEF Reading
    <3>2. incoming'[s].pc = "done" /\ \A r \in Conns \ {s} : incoming'[r] = incoming[r]
      BY <2>3 DEF Typed, RoutineTypeOK
    <3>3. \A r \in Conns : Reader(r) /\ Writer(r)
      BY <2>3, <3>1, <3>2 DEF ReadInv
    <3> HIDE DEF Reader, Writer
    <3> QED
      BY <3>3, ReadFrame DEF Reader, Writer
  <2>4. \A s \in Conns : outgoing[s].pc # "error"
    BY DEF ReadInv
  <2>5. CASE LogicError(t)
    BY <1>0, <2>3, <2>4, <2>5 DEF LogicError, ReceiveError
  <2>6. CASE LogicDefers(t)
    BY <1>0, <2>3, <2>4, <2>6 DEF LogicDefers
  <2> QED
    BY <1>4, <2>1, <2>2, <2>5, <2>6 DEF Logic
<1>5. ASSUME NEW s \in Conns, Keepalive(s) \/ Reset(s) \/ Mute(s) PROVE ReadInv'
  BY <1>0, <1>5 DEF Keepalive, KeepaliveStops, KeepalivePings, KeepaliveNotes, KeepaliveGivesUp,
                    Reset, Mute, routines
<1>6. ASSUME NEW h \in Handlers, Lost(h) PROVE ReadInv'
  BY <1>0, <1>6 DEF Lost, LostCloses, LostShuts, LostPanics, LostReports, Panic, routines
<1>7. CASE DialFails \/ CallDisconnect \/ CallForce \/ Caller \/ UNCHANGED vars
  BY <1>0, <1>7 DEF DialFails, CallDisconnect, CallForce, Caller, Quiesced, ForceShuts, ForcePanics,
                    CallerStops, CallerReturns, Panic, vars, routines
<1> QED
  BY <1>1, <1>2, <1>3, <1>4, <1>5, <1>6, <1>7 DEF Next

\* A connection that falls silent is closed by its handler and by nobody else.
LEMMA SilentStep ==
    ASSUME ConnectionAssumption, Typed, Ordinary, CoreInv, ReadInv, SilentInv, CallInv, [Next]_vars,
           Sorted
    PROVE  SilentInv'
<1> USE DEF Conns
<1>0. setup' = setup
  BY DEF Sorted
<1>1. CASE ~setup.keepAlive
  BY <1>0, <1>1 DEF SilentInv
<1>2. CASE setup.keepAlive
  <2>0. setup.fault = "mute" /\ caller.pc = "idle" /\ ~farewell /\ setup.call = "none"
    BY <1>2, OrdinaryMeans DEF CallInv
  <2>1. \A s \in Conns : incoming[s].pc # "error" /\ outgoing[s].pc # "error"
    BY <1>2 DEF SilentInv, ReadInv
  <2>2. strays = 0 /\ strays' = strays
    <3>1. strays = 0
      BY <1>2 DEF SilentInv
    <3>2. CASE DialFails \/ CallDisconnect \/ CallForce \/ Caller \/ UNCHANGED vars
      <4>1. UNCHANGED strays
        BY <3>2 DEF DialFails, CallDisconnect, CallForce, Caller, Quiesced, ForceShuts, ForcePanics,
                    CallerStops, CallerReturns, Panic, vars
      <4> QED
        BY <3>1, <4>1
    <3>3. ASSUME NEW s \in Conns, Starter(s) \/ Incoming(s) \/ Outgoing(s) PROVE UNCHANGED strays
      BY <3>3 DEF Starter, DialSucceeds, StartWriters, StartReaders, Incoming, IncomingReads,
                  IncomingFails, IncomingPanics, Outgoing, OutgoingLoops, OutgoingStops,
                  OutgoingWrites, OutgoingDisconnects, Panic
    <3>4. ASSUME NEW s \in Conns, Logic(s) PROVE UNCHANGED strays
      <4>1. CASE LogicError(s)
        BY <2>1, <3>1, <4>1 DEF LogicError, ReceiveError
      <4>2. CASE LogicDefers(s)
        BY <2>1, <3>1, <4>2 DEF LogicDefers
      <4> QED
        BY <3>4, <4>1, <4>2 DEF Logic, LogicTakes, LogicPong, LogicLoops, LogicStops
    <3>5. ASSUME NEW s \in Conns, Keepalive(s) \/ Reset(s) \/ Mute(s) PROVE UNCHANGED strays
      BY <3>5 DEF Keepalive, KeepaliveStops, KeepalivePings, KeepaliveNotes, KeepaliveGivesUp,
                  Reset, Mute
    <3>6. ASSUME NEW h \in Handlers, Lost(h) PROVE UNCHANGED strays
      BY <3>6 DEF Lost, LostCloses, LostShuts, LostPanics, LostReports, Panic
    <3> QED
      BY <3>1, <3>2, <3>3, <3>4, <3>5, <3>6 DEF Next
  <2>3. \A s \in Conns : incoming'[s].pc # "error"
    <3>1. CASE UNCHANGED incoming
      BY <2>1, <3>1
    <3>2. ASSUME NEW s \in Conns, Starter(s) \/ IncomingReads(s)
          PROVE  \A t \in Conns : incoming'[t].pc # "error"
      <4>1. CASE StartReaders(s)
        BY <2>1, <4>1 DEF StartReaders, Typed, RoutineTypeOK
      <4>2. CASE IncomingReads(s)
        BY <2>1, <4>2 DEF IncomingReads, Typed, RoutineTypeOK
      <4> QED
        BY <3>1, <3>2, <4>1, <4>2 DEF Starter, DialSucceeds, StartWriters, routines
    <3>3. ASSUME NEW s \in Conns, IncomingFails(s)
          PROVE  \A t \in Conns : incoming'[t].pc # "error"
      <4>1. s \in Reading
        BY <3>3 DEF IncomingFails, Reading
      <4>2. s = stop /\ Loses[s] # "done" /\ s \notin alive
        BY <3>3, <4>1 DEF IncomingFails, ReadInv
      <4>3. Loses[s] \in {"no", "close", "shut", "wait", "done"}
        BY LossTypes DEF LossTyped
      <4>4. Loses[s] = "wait"
        BY <1>2, <4>2, <4>3 DEF SilentInv
      <4>5. stop \in closed
        BY <4>2, <4>4 DEF CoreInv, WatchInv
      <4>6. incoming' = [incoming EXCEPT ![s].pc = "done"]
        BY <3>3, <4>5 DEF IncomingFails
      <4> QED
        BY <2>1, <4>6 DEF Typed, RoutineTypeOK
    <3>4. ASSUME NEW t \in Conns, Logic(t)
          PROVE  \A s \in Conns : incoming'[s].pc # "error"
      <4>1. ASSUME NEW s \in Conns, LogicTakes(t, s) \/ LogicPong(t, s)
            PROVE  \A r \in Conns : incoming'[r].pc # "error"
        <5>1. CASE LogicTakes(t, s)
          BY <2>1, <5>1 DEF LogicTakes, Typed, RoutineTypeOK
        <5>2. CASE LogicPong(t, s)
          BY <2>1, <5>2 DEF LogicPong, Typed, RoutineTypeOK
        <5> QED
          BY <4>1, <5>1, <5>2
      <4> QED
        BY <2>1, <3>1, <3>4, <4>1 DEF Logic, LogicLoops, LogicStops, LogicError, LogicDefers,
                                      ReceiveError
    <3>5. ASSUME NEW s \in Conns, Outgoing(s) \/ Keepalive(s) \/ Reset(s) \/ Mute(s) \/ IncomingPanics(s)
          PROVE  UNCHANGED incoming
      BY <3>5 DEF Outgoing, OutgoingLoops, OutgoingStops, OutgoingWrites, OutgoingDisconnects,
                  Keepalive, KeepaliveStops, KeepalivePings, KeepaliveNotes, KeepaliveGivesUp,
                  Reset, Mute, IncomingPanics, Panic, routines
    <3>6. ASSUME NEW h \in Handlers, Lost(h) PROVE UNCHANGED incoming
      BY <3>6 DEF Lost, LostCloses, LostShuts, LostPanics, LostReports, Panic, routines
    <3>7. CASE DialFails \/ CallDisconnect \/ CallForce \/ Caller \/ UNCHANGED vars
      BY <3>1, <3>7 DEF DialFails, CallDisconnect, CallForce, Caller, Quiesced, ForceShuts,
                        ForcePanics, CallerStops, CallerReturns, Panic, vars, routines
    <3> QED
      BY <3>1, <3>2, <3>3, <3>4, <3>5, <3>6, <3>7 DEF Next, Incoming
  <2>4. /\ \A s \in Conns : s = stop /\ Loses[s] \in {"no", "close", "shut"} => s \in alive
        /\ \A s \in Conns : starting[s] = "dialled" => s \in alive
    BY <1>2 DEF SilentInv
  <2>5. \/ /\ alive \subseteq alive'
           /\ \A s \in Conns : starting'[s] = "dialled" => starting[s] = "dialled" \/ s \in alive'
        \/ \E h \in Handlers : LostShuts(h)
    <3> DEFINE Opens == /\ alive \subseteq alive'
                        /\ \A s \in Conns : starting'[s] = "dialled" => starting[s] = "dialled"
                                                                        \/ s \in alive'
    <3>1. CASE alive' = alive /\ starting' = starting
      BY <3>1
    <3>2. ASSUME NEW s \in Conns, Starter(s) PROVE Opens
      BY <3>2 DEF Starter, DialSucceeds, StartWriters, StartReaders, netVars, Typed, FieldTyped
    <3>3. CASE DialFails \/ CallDisconnect \/ CallForce \/ Caller \/ UNCHANGED vars
      BY <2>0, <3>1, <3>3 DEF DialFails, CallDisconnect, CallForce, Caller, Quiesced, ForceShuts,
                  ForcePanics, CallerStops, CallerReturns, Panic, vars, netVars, startVars
    <3>4. ASSUME NEW s \in Conns, Incoming(s) \/ Outgoing(s) \/ Reset(s) \/ Mute(s)
          PROVE  alive' = alive /\ starting' = starting
      BY <2>0, <3>4 DEF Incoming, IncomingReads, IncomingFails, IncomingPanics, Outgoing,
                  OutgoingLoops, OutgoingStops, OutgoingWrites, OutgoingDisconnects, Reset, Mute,
                  Panic, netVars, startVars
    <3>5. ASSUME NEW s \in Conns, Logic(s) \/ Keepalive(s) PROVE alive' = alive /\ starting' = starting
      BY <3>5 DEF Logic, LogicTakes, LogicPong, LogicLoops, LogicStops, LogicError,
                  LogicDefers, Keepalive, KeepaliveStops, KeepalivePings, KeepaliveNotes,
                  KeepaliveGivesUp, netVars, startVars
    <3>6. ASSUME NEW h \in Handlers, Lost(h), ~LostShuts(h)
          PROVE  alive' = alive /\ starting' = starting
      BY <3>6 DEF Lost, LostCloses, LostPanics, LostReports, Panic, netVars, startVars
    <3> QED
      BY <3>1, <3>2, <3>3, <3>4, <3>5, <3>6 DEF Next
  <2>6. CASE /\ alive \subseteq alive'
             /\ \A s \in Conns : starting'[s] = "dialled" => starting[s] = "dialled" \/ s \in alive'
    <3> DEFINE Early == {"no", "close", "shut"}
               Goal == /\ stop' = stop \/ (stop' \in Conns /\ starting[stop'] = "dialled")
                       /\ \A s \in Conns : Loses'[s] \in Early => Loses[s] \in Early
    <3>1. Goal
      <4>1. CASE Quiet \/ Fails
        BY <4>1 DEF Quiet, Fails, coreVars, views
      <4>2. ASSUME NEW s \in Conns, Dials(s) \/ Writers(s) \/ Readers(s) PROVE Goal
        BY <4>2 DEF Dials, Writers, Readers, views
      <4>3. ASSUME NEW s \in Conns, Notices(s) \/ Closes(s) \/ Shuts(s) \/ Reports(s) PROVE Goal
        <5>1. Loses \in [Conns -> {"no", "close", "shut", "wait", "done"}]
          BY LossTypes DEF LossTyped
        <5>2. PICK pc \in {"close", "shut", "wait", "done"} : Loses' = [Loses EXCEPT ![s] = pc]
          BY <4>3 DEF Notices, Closes, Shuts, Reports
        <5>3. pc \in Early => Loses[s] \in Early
          BY <4>3, <5>1, <5>2 DEF Notices, Closes, Shuts, Reports, CoreInv, WatchInv
        <5>4. stop' = stop
          BY <4>3 DEF Notices, Closes, Shuts, Reports, coreVars
        <5> QED
          BY <5>1, <5>2, <5>3, <5>4
      <4> QED
        BY <4>1, <4>2, <4>3 DEF Sorted, LossStep
    <3> QED
      BY <1>0, <2>2, <2>3, <2>4, <2>6, <3>1 DEF SilentInv
  <2>7. ASSUME NEW h \in Handlers, LostShuts(h) PROVE SilentInv'
    <3>1. PICK s \in Conns : h = <<Watcher, s>>
      BY <2>7 DEF LostShuts, CoreInv, SpareInv, Watcher, Other, Handlers
    <3>2. Loses[s] = "shut"
      BY <2>7, <3>1 DEF LostShuts, Loses
    <3>3. s = stop /\ \A t \in Conns : starting[t] # "dialled"
      BY <3>2 DEF CoreInv, WatchInv, DialInv
    <3>4. UNCHANGED <<stop, starting>>
      BY <2>7 DEF LostShuts, fieldVars, startVars
    <3>5. Loses'[s] = "wait"
      BY <1>0, <2>7, <3>1 DEF LostShuts, Loses, Watcher, Typed, OtherTyped
    <3> QED
      BY <1>0, <2>2, <2>3, <3>3, <3>4, <3>5 DEF SilentInv
  <2> QED
    BY <2>5, <2>6, <2>7
<1> QED
  BY <1>1, <1>2

\* Neither connection nor call is touched; incoming 1 has not had its error yet,
\* or the connection was closed.
LEMMA CallFrame ==
    ASSUME CallInv, UNCHANGED <<setup, dialling, conn, starting, connected, caller, farewell>>,
           setup.call # "none" /\ (caller.pc = "idle" \/ farewell)
               => alive' = alive /\ strays' = strays /\ incoming'[1].pc \in {"no", "read", "put"}
    PROVE  CallInv'
  BY DEF CallInv

\* A call of Disconnect or ForceDisconnect meets the first connection, and the
\* handler of its loss only after it has made outgoing or itself close it.
LEMMA CallStep ==
    ASSUME ConnectionAssumption, Typed, Ordinary, CoreInv, ReadInv, ErrorInv, CallInv, [Next]_vars,
           Sorted
    PROVE  CallInv'
<1> USE DEF Conns
<1>0. setup' = setup /\ 1 \in Conns
  BY DEF Sorted, ConnectionAssumption
<1>1. CASE setup.call = "none"
  <2>0. caller.pc = "idle" /\ ~farewell
    BY <1>1 DEF CallInv
  <2>1. CASE UNCHANGED <<caller, farewell>>
    <3>1. setup'.call = "none" /\ caller'.pc = "idle" /\ ~farewell'
      BY <1>0, <1>1, <2>0, <2>1
    <3> QED
      BY <3>1 DEF CallInv
  <2>2. ~(CallDisconnect \/ CallForce \/ Caller)
    BY <1>1, <2>0 DEF CallDisconnect, CallForce, Caller, Quiesced, ForceShuts, ForcePanics,
                      CallerStops, CallerReturns
  <2>3. ASSUME NEW s \in Conns, Starter(s) \/ Incoming(s) \/ Outgoing(s) \/ Reset(s) \/ Mute(s)
        PROVE  UNCHANGED <<caller, farewell>>
    BY <2>0, <2>3 DEF Starter, DialSucceeds, StartWriters, StartReaders, Incoming, IncomingReads,
                IncomingFails, IncomingPanics, Outgoing, OutgoingLoops, OutgoingStops,
                OutgoingWrites, OutgoingDisconnects, Reset, Mute, Panic, callVars
  <2>4. ASSUME NEW s \in Conns, Logic(s) \/ Keepalive(s) PROVE UNCHANGED <<caller, farewell>>
    BY <2>4 DEF Logic, LogicTakes, LogicPong, LogicLoops, LogicStops, LogicError, LogicDefers,
                Keepalive, KeepaliveStops, KeepalivePings, KeepaliveNotes, KeepaliveGivesUp, callVars
  <2>5. ASSUME NEW h \in Handlers, Lost(h) PROVE UNCHANGED <<caller, farewell>>
    BY <2>5 DEF Lost, LostCloses, LostShuts, LostPanics, LostReports, Panic, callVars
  <2>6. CASE DialFails \/ UNCHANGED vars
    BY <2>1, <2>6 DEF DialFails, vars, callVars
  <2> QED
    BY <2>1, <2>2, <2>3, <2>4, <2>5, <2>6 DEF Next
<1>2. CASE setup.call # "none"
  <2>0. ~setup.traffic /\ ~setup.keepAlive /\ setup.fault = "none"
    BY <1>2, OrdinaryMeans
  <2>1. dialling = 0 /\ conn = 1 /\ \A s \in Conns : s # 1 => starting[s] = "no"
    BY <1>2 DEF CallInv
  <2>2. caller.pc = "idle" \/ farewell
            => alive = {1} /\ strays = 0 /\ incoming[1].pc \in {"no", "read", "put"}
    BY <1>2 DEF CallInv
  <2>3. \A s \in Reading : s = 1
    BY <2>1 DEF ReadInv, Reading
  <2>4. \A s \in Conns : Loses[s] \in {"close", "shut", "wait"} => ~(caller.pc = "idle" \/ farewell)
    <3> SUFFICES ASSUME NEW s \in Conns, Loses[s] \in {"close", "shut", "wait"}
                 PROVE  ~(caller.pc = "idle" \/ farewell)
      OBVIOUS
    <3>1. s = stop /\ starting[s] \in {"writing", "yes"}
      BY DEF CoreInv, WatchInv, OrderInv
    <3>2. s = 1 /\ s \in Ended
      BY <2>0, <2>1, <3>1 DEF ErrorInv
    <3> QED
      BY <2>2, <3>2 DEF Ended
  <2>5. ASSUME NEW s \in Conns, Starter(s) PROVE CallInv'
    <3>1. CASE DialSucceeds(s)
      BY <2>1, <3>1 DEF DialSucceeds
    <3>2. CASE StartWriters(s)
      <4>1. s = 1 /\ starting[1] = "dialled"
        BY <2>1, <3>2 DEF StartWriters
      <4>2. \A t \in Conns : t # 1 => starting'[t] = "no"
        BY <2>1, <3>2, <4>1 DEF StartWriters, Typed, FieldTyped
      <4> QED
        BY <1>0, <1>2, <3>2, <4>1, <4>2 DEF StartWriters, CallInv, callVars, netVars
    <3>3. CASE StartReaders(s)
      <4>1. s = 1 /\ starting[1] = "writing"
        BY <2>1, <3>3 DEF StartReaders
      <4>2. caller.pc = "idle" /\ ~farewell
        BY <1>2, <4>1 DEF CallInv
      <4>3. /\ starting'[1] = "yes" /\ \A t \in Conns : t # 1 => starting'[t] = "no"
            /\ incoming'[1].pc = "read"
        BY <1>0, <2>1, <3>3, <4>1 DEF StartReaders, Typed, FieldTyped, RoutineTypeOK
      <4> QED
        BY <1>0, <1>2, <2>1, <2>2, <3>3, <4>2, <4>3 DEF StartReaders, CallInv, callVars, netVars
    <3> QED
      BY <2>5, <3>1, <3>2, <3>3 DEF Starter
  <2>6. ASSUME NEW s \in Conns, Incoming(s) PROVE CallInv'
    <3>1. CASE IncomingReads(s)
      <4>1. s = 1
        BY <2>3, <3>1 DEF IncomingReads, Reading
      <4>2. incoming'[1].pc = "put"
        BY <3>1, <4>1 DEF IncomingReads, Typed, RoutineTypeOK
      <4> QED
        BY <3>1, <4>2, CallFrame DEF IncomingReads, fieldVars, startVars, callVars
    <3>2. CASE IncomingFails(s)
      <4>1. s \in Reading
        BY <3>2 DEF IncomingFails, Reading
      <4>2. s = 1 /\ incoming[s].conn = s
        BY <2>3, <4>1 DEF ReadInv
      <4>3. ~(caller.pc = "idle" \/ farewell)
        BY <2>2, <3>2, <4>2 DEF IncomingFails
      <4> QED
        BY <3>2, <4>3, CallFrame DEF IncomingFails, fieldVars, startVars, callVars
    <3>3. CASE IncomingPanics(s)
      BY <2>2, <3>3, CallFrame DEF IncomingPanics, Panic, startVars, callVars, routines, netVars
    <3> QED
      BY <2>6, <3>1, <3>2, <3>3 DEF Incoming
  <2>7. ASSUME NEW s \in Conns, Outgoing(s) PROVE CallInv'
    <3>1. CASE OutgoingDisconnects(s)
      <4>1. caller.pc \notin {"idle", "force"} /\ farewell' = FALSE
        BY <3>1 DEF OutgoingDisconnects, CallInv
      <4>2. UNCHANGED <<setup, dialling, conn, starting, connected, caller>>
        BY <3>1 DEF OutgoingDisconnects, fieldVars, startVars
      <4> QED
        BY <1>2, <4>1, <4>2 DEF CallInv
    <3> QED
      BY <2>0, <2>2, <2>7, <3>1, CallFrame
         DEF Outgoing, OutgoingLoops, OutgoingStops, OutgoingWrites, fieldVars, startVars, callVars,
             netVars
  <2>8. ASSUME NEW t \in Conns, Logic(t) PROVE CallInv'
    <3>1. UNCHANGED <<setup, dialling, conn, starting, connected, caller, farewell, alive>>
      BY <2>8 DEF Logic, LogicTakes, LogicPong, LogicLoops, LogicStops, LogicError, LogicDefers,
                  fieldVars, startVars, callVars, netVars
    <3>2. ASSUME NEW s \in Conns, LogicTakes(t, s) PROVE CallInv'
      <4>1. s = 1 /\ UNCHANGED strays
        BY <2>3, <3>2 DEF LogicTakes, Reading
      <4>2. incoming'[1].pc = "read"
        BY <3>2, <4>1 DEF LogicTakes, Typed, RoutineTypeOK
      <4> QED
        BY <3>1, <4>1, <4>2, CallFrame
    <3>3. ASSUME NEW s \in Conns, LogicPong(t, s) PROVE CallInv'
      <4>1. s = 1 /\ UNCHANGED strays
        BY <2>3, <3>3 DEF LogicPong, Reading
      <4>2. incoming'[1].pc = "read"
        BY <3>3, <4>1 DEF LogicPong, Typed, RoutineTypeOK
      <4> QED
        BY <3>1, <4>1, <4>2, CallFrame
    <3>4. CASE LogicLoops(t) \/ LogicStops(t)
      BY <2>2, <3>1, <3>4, CallFrame DEF LogicLoops, LogicStops
    <3>5. CASE LogicError(t) \/ LogicDefers(t)
      <4>1. strays > 0 \/ \E s \in Conns : incoming[s].pc = "error"
        BY <3>5 DEF LogicError, LogicDefers, ReceiveError, ReadInv
      <4>2. ~(caller.pc = "idle" \/ farewell)
        BY <2>2, <2>3, <4>1 DEF Reading
      <4> QED
        BY <3>1, <4>2, CallFrame
    <3> QED
      BY <2>8, <3>2, <3>3, <3>4, <3>5 DEF Logic
  <2>9. ASSUME NEW h \in Handlers, Lost(h) PROVE CallInv'
    <3>1. CASE LostPanics(h)
      BY <2>2, <3>1, CallFrame DEF LostPanics, Panic, startVars, callVars, routines, netVars
    <3>2. CASE LostCloses(h) \/ LostShuts(h) \/ LostReports(h)
      <4>1. PICK s \in Conns : h = <<Watcher, s>>
        BY <3>2 DEF LostCloses, LostShuts, LostReports, CoreInv, SpareInv, Watcher, Other, Handlers
      <4>2. Loses[s] \in {"close", "shut", "wait"}
        BY <3>2, <4>1 DEF LostCloses, LostShuts, LostReports, Loses
      <4>3. ~(caller.pc = "idle" \/ farewell)
        BY <2>4, <4>2
      <4>4. ~connected
        BY <1>2, <4>3 DEF CallInv
      <4>5. UNCHANGED <<setup, dialling, conn, starting, connected, caller, farewell>>
        BY <3>2, <4>4 DEF LostCloses, LostShuts, LostReports, fieldVars, startVars, callVars
      <4> QED
        BY <4>3, <4>5, CallFrame
    <3> QED
      BY <2>9, <3>1, <3>2 DEF Lost
  <2>10. ASSUME NEW s \in Conns, Keepalive(s) \/ Reset(s) \/ Mute(s) PROVE CallInv'
    BY <2>0, <2>10 DEF Keepalive, KeepaliveStops, KeepalivePings, KeepaliveNotes, KeepaliveGivesUp,
                       Reset, Mute, CoreInv, SpareInv
  <2>11. CASE CallDisconnect \/ CallForce
    <3>1. /\ caller.pc = "idle" /\ connected /\ ~farewell
          /\ connected' = FALSE /\ caller'.pc \in {"quiesce", "force"}
          /\ caller'.pc = "force" => ~farewell'
      BY <2>11 DEF CallDisconnect, CallForce, CallInv, Typed, OtherTyped
    <3>2. UNCHANGED <<setup, dialling, conn, starting, alive, strays, incoming>>
      BY <2>11 DEF CallDisconnect, CallForce, startVars, routines, netVars
    <3> QED
      BY <1>2, <3>1, <3>2 DEF CallInv
  <2>12. CASE Caller
    <3>1. UNCHANGED <<setup, dialling, conn, starting, connected, farewell, strays, incoming>>
      BY <2>12 DEF Caller, Quiesced, ForceShuts, ForcePanics, CallerStops, CallerReturns, Panic,
                   fieldVars, startVars, routines, callVars
    <3>2. CASE ForcePanics
      BY <2>2, <3>1, <3>2, CallFrame DEF ForcePanics, Panic, callVars, netVars
    <3>3. CASE ForceShuts
      <4>1. caller.pc = "force" /\ ~farewell /\ caller'.pc = "stop"
        BY <3>3 DEF ForceShuts, CallInv
      <4> QED
        BY <1>2, <3>1, <4>1 DEF CallInv
    <3>4. CASE Quiesced \/ CallerStops \/ CallerReturns
      <4>1. /\ caller.pc # "idle" /\ caller'.pc \notin {"idle", "force"}
            /\ UNCHANGED alive
        BY <3>4 DEF Quiesced, CallerStops, CallerReturns, netVars, Typed, OtherTyped
      <4> QED
        BY <1>2, <3>1, <4>1 DEF CallInv
    <3> QED
      BY <2>12, <3>2, <3>3, <3>4 DEF Caller
  <2>13. CASE DialFails
    BY <2>1, <2>13 DEF DialFails
  <2>14. CASE UNCHANGED vars
    BY <2>2, <2>14, CallFrame DEF vars, fieldVars, startVars, callVars, routines, netVars
  <2> QED
    BY <2>5, <2>6, <2>7, <2>8, <2>9, <2>10, <2>11, <2>12, <2>13, <2>14 DEF Next
<1> QED
  BY <1>1, <1>2

\* No panic is reached: c.conn is not nil, and the stop channel is closed once.
LEMMA ProcStep ==
    ASSUME ConnectionAssumption, Typed, Ordinary, CoreInv, ReadInv, CallInv, [Next]_vars,
           proc = "up"
    PROVE  proc' = "up"
<1>1. ASSUME NEW s \in Conns, IncomingPanics(s) PROVE FALSE
  <2>1. s \in Reading
    BY <1>1 DEF IncomingPanics, Reading
  <2> QED
    BY <1>1, <2>1 DEF IncomingPanics, ReadInv, Conns
<1>2. ASSUME NEW h \in Handlers, LostPanics(h) PROVE FALSE
  <2>1. PICK s \in Conns : h = <<Watcher, s>>
    BY <1>2 DEF LostPanics, CoreInv, SpareInv, Watcher, Other, Handlers
  <2>2. Loses[s] = "close"
    BY <1>2, <2>1 DEF LostPanics, Loses
  <2> QED
    BY <1>2, <2>2 DEF LostPanics, CoreInv, WatchInv
<1>3. ~ForcePanics
  BY DEF ForcePanics, CallInv
<1>4. ASSUME NEW s \in Conns, Starter(s) \/ IncomingReads(s) \/ IncomingFails(s) \/ Outgoing(s)
      PROVE  UNCHANGED proc
  BY <1>4 DEF Starter, DialSucceeds, StartWriters, StartReaders, IncomingReads, IncomingFails,
              Outgoing, OutgoingLoops, OutgoingStops, OutgoingWrites, OutgoingDisconnects, fieldVars
<1>5. ASSUME NEW s \in Conns, Logic(s) \/ Keepalive(s) \/ Reset(s) \/ Mute(s) PROVE UNCHANGED proc
  BY <1>5 DEF Logic, LogicTakes, LogicPong, LogicLoops, LogicStops, LogicError, LogicDefers,
              Keepalive, KeepaliveStops, KeepalivePings, KeepaliveNotes, KeepaliveGivesUp, Reset,
              Mute, fieldVars
<1>6. ASSUME NEW h \in Handlers, LostCloses(h) \/ LostShuts(h) \/ LostReports(h) PROVE UNCHANGED proc
  BY <1>6 DEF LostCloses, LostShuts, LostReports, fieldVars
<1>7. ASSUME DialFails \/ CallDisconnect \/ CallForce \/ (Caller /\ ~ForcePanics) \/ UNCHANGED vars
      PROVE  UNCHANGED proc
  BY <1>7 DEF DialFails, CallDisconnect, CallForce, Caller, Quiesced, ForceShuts, CallerStops,
              CallerReturns, vars, fieldVars
<1> QED
  BY <1>1, <1>2, <1>3, <1>4, <1>5, <1>6, <1>7 DEF Next, Incoming, Lost
-----------------------------------------------------------------------------
LEMMA InitInv == ConnectionAssumption /\ Init => Inv
<1> SUFFICES ASSUME ConnectionAssumption, Init PROVE Inv
  OBVIOUS
<1> USE DEF Conns, ConnectionAssumption
<1>1. 1 \in Conns
  OBVIOUS
<1>2. FieldTyped /\ OtherTyped
  BY <1>1 DEF Init, FieldTyped, OtherTyped
<1>3. RoutineTypeOK
  BY DEF Init, RoutineTypeOK
<1>4. /\ Loses = [s \in Conns |-> "no"]
      /\ Watching = {} /\ Writing = {} /\ Reading = {} /\ Ended = {}
  <2>1. Loses = [s \in Conns |-> "no"]
    BY DEF Init, Loses, Watcher, Handlers
  <2>2. Watching = {} /\ Writing = {} /\ Reading = {} /\ Ended = {}
    BY DEF Init, Watching, Writing, Reading, Ended
  <2> QED
    BY <2>1, <2>2
<1>5. SpareInv
  BY DEF Init, SpareInv, Other, Handlers
<1>6. WatchInv /\ OrderInv
  BY <1>4 DEF Init, WatchInv, OrderInv
<1>7. DialInv /\ HeldInv /\ CountInv
  BY <1>4 DEF Init, DialInv, HeldInv, CountInv
<1>8. ReadInv /\ ErrorInv
  BY <1>4 DEF Init, ReadInv, ErrorInv
<1>9. SilentInv
  BY <1>4 DEF Init, SilentInv
<1>10. CallInv
  BY <1>1 DEF Init, CallInv
<1>11. proc = "up"
  BY DEF Init
<1> QED
  BY <1>2, <1>3, <1>5, <1>6, <1>7, <1>8, <1>9, <1>10, <1>11 DEF Inv, Typed, CoreInv, OrdInv

LEMMA SetupKept == [Next]_vars => UNCHANGED setup
<1> SUFFICES ASSUME [Next]_vars PROVE UNCHANGED setup
  OBVIOUS
<1>1. CASE DialFails \/ CallDisconnect \/ CallForce \/ Caller \/ UNCHANGED vars
  BY <1>1 DEF DialFails, CallDisconnect, CallForce, Caller, Quiesced, ForceShuts, ForcePanics,
              CallerStops, CallerReturns, Panic, vars, fieldVars
<1>2. ASSUME NEW s \in Conns, Starter(s) \/ Incoming(s) \/ Outgoing(s) \/ Reset(s) \/ Mute(s)
      PROVE  UNCHANGED setup
  BY <1>2 DEF Starter, DialSucceeds, StartWriters, StartReaders, Incoming, IncomingReads,
              IncomingFails, IncomingPanics, Outgoing, OutgoingLoops, OutgoingStops, OutgoingWrites,
              OutgoingDisconnects, Reset, Mute, Panic, fieldVars
<1>3. ASSUME NEW s \in Conns, Logic(s) \/ Keepalive(s) PROVE UNCHANGED setup
  BY <1>3 DEF Logic, LogicTakes, LogicPong, LogicLoops, LogicStops, LogicError, LogicDefers,
              Keepalive, KeepaliveStops, KeepalivePings, KeepaliveNotes, KeepaliveGivesUp, fieldVars
<1>4. ASSUME NEW h \in Handlers, Lost(h) PROVE UNCHANGED setup
  BY <1>4 DEF Lost, LostCloses, LostShuts, LostPanics, LostReports, Panic, fieldVars
<1> QED
  BY <1>1, <1>2, <1>3, <1>4 DEF Next

LEMMA StepInv == ConnectionAssumption /\ Inv /\ [Next]_vars => Inv'
<1> SUFFICES ASSUME ConnectionAssumption, Inv, [Next]_vars PROVE Inv'
  OBVIOUS
<1>1. Typed /\ Typed'
  BY TypedStep DEF Inv
<1>2. UNCHANGED setup
  BY <1>1, SetupKept
<1>3. (Foreseen' <=> Foreseen) /\ (Ordinary' <=> Ordinary)
  BY <1>2 DEF Foreseen, Ordinary, SoleWitness
<1>4. ASSUME Foreseen PROVE CoreInv' /\ Sorted
  <2>1. CoreInv
    BY <1>4 DEF Inv
  <2>2. Handed
    BY <1>4 DEF Foreseen, Inv, OrdInv, SilentInv, ReadInv, Handed
  <2>3. Sorted
    BY <1>1, <2>1, <2>2, StepSorted DEF CoreInv
  <2>4. LossTyped
    BY <1>1, LossTypes
  <2>5. WatchInv' /\ OrderInv' /\ DialInv' /\ HeldInv' /\ CountInv'
    BY <1>2, <2>1, <2>3, <2>4, WatchStep, OrderStep, DialStep, HeldStep, CountStep DEF CoreInv, Sorted
  <2> QED
    BY <2>3, <2>5 DEF CoreInv, Sorted
<1>5. ASSUME Ordinary PROVE OrdInv'
  <2>1. Foreseen /\ CoreInv /\ OrdInv
    BY <1>5 DEF Foreseen, Inv
  <2>2. Sorted
    BY <1>4, <2>1
  <2>3. ReadOn
    BY <1>1, <2>1, <2>2, LossTypes, ReadsOn DEF OrdInv, Sorted
  <2>4. ReadInv'
    BY <1>1, <1>5, <2>1, <2>3, ReadStep DEF OrdInv
  <2>5. ErrorInv'
    BY <1>1, <1>5, <2>1, <2>2, ErrorStep DEF OrdInv
  <2>6. SilentInv'
    BY <1>1, <1>5, <2>1, <2>2, SilentStep DEF OrdInv
  <2>7. CallInv'
    BY <1>1, <1>5, <2>1, <2>2, CallStep DEF OrdInv
  <2>8. proc' = "up"
    BY <1>1, <1>5, <2>1, ProcStep DEF OrdInv
  <2> QED
    BY <2>4, <2>5, <2>6, <2>7, <2>8 DEF OrdInv
<1> QED
  BY <1>1, <1>3, <1>4, <1>5 DEF Inv

LEMMA Invariance == Spec => []Inv
<1>1. Init => Inv
  BY InitInv, ConnectionAssumption
<1>2. Inv /\ [Next]_vars => Inv'
  BY StepInv, ConnectionAssumption
<1> QED
  BY <1>1, <1>2, PTL DEF Spec

-----------------------------------------------------------------------------
(* What holds in every situation, however many goroutines notice a loss.   *)

\* A goroutine whose turn it is: to dial, to start the writers on a connection it
\* has dialled, to hold a stop channel that is open, or to handle a loss.
Started  == {s \in Conns : starting[s] \in {"writing", "yes"}}
Dialled  == {s \in Conns : starting[s] = "dialled"}
Handling == {h \in Handlers : lost[h] \in {"shut", "wait"}}
Open     == stop # 0 /\ stop \notin closed

\* Nothing of a connection runs before its writers are started.
StartInv ==
    /\ closed \subseteq Started /\ stop \in {0} \cup Started
    /\ Started # {} => stop # 0
    /\ \A s \in Conns : s \notin Started => alllogic[s].pc = "no" /\ keepalive[s] = "no"
    /\ \A h \in Handlers : lost[h] # "no" => h[2] \in Started

\* There is one turn at most.
TurnInv ==
    /\ dialling <= 1 /\ (conn = 0 => dialling = 1)
    /\ dialling = 1 => Dialled = {} /\ Handling = {} /\ ~Open
    /\ Dialled # {} => Handling = {} /\ ~Open
    /\ Handling # {} => ~Open
    /\ \A s, t \in Dialled : s = t
    /\ \A g, h \in Handling : g = h
    /\ Writing # {} => dialling = 0 /\ Dialled = {}

\* What most steps do about turns: nothing, or they end something.
Keeps ==
    /\ UNCHANGED <<starting, stop, closed, dialling>>
    /\ conn' = conn \/ (conn' = 0 /\ dialling > 0)
    /\ Writing' \subseteq Writing /\ Handling' \subseteq Handling
    /\ \A s \in Conns : s \notin Started => alllogic'[s].pc = "no" /\ keepalive'[s] = "no"
    /\ \A h \in Handlers : lost'[h] # "no" => h[2] \in Started

LEMMA KeptTurn ==
    ASSUME Typed, StartInv, TurnInv, Keeps PROVE StartInv' /\ TurnInv'
<1>1. UNCHANGED <<Started, Dialled, Open>>
  BY DEF Keeps, Started, Dialled, Open
<1>2. StartInv'
  BY <1>1 DEF Keeps, StartInv
<1>3. TurnInv'
  BY <1>1 DEF Keeps, TurnInv, Typed, FieldTyped
<1> QED
  BY <1>2, <1>3

\* Of the handlers of losses, a step moves at most one.
LEMMA StillHandled ==
    ASSUME Typed, StartInv, UNCHANGED lost
    PROVE  Handling' = Handling /\ \A h \in Handlers : lost'[h] # "no" => h[2] \in Started
  BY DEF Handling, StartInv

LEMMA NewlyHandled ==
    ASSUME Typed, StartInv, NEW h \in Handlers, h[2] \in Started,
           NEW pc \in {"close", "done"}, lost' = [lost EXCEPT ![h] = pc]
    PROVE  /\ Handling' = Handling \ {h}
           /\ \A g \in Handlers : lost'[g] # "no" => g[2] \in Started
<1>1. lost'[h] = pc /\ \A g \in Handlers \ {h} : lost'[g] = lost[g]
  BY DEF Typed, OtherTyped
<1> QED
  BY <1>1 DEF Handling, StartInv

LEMMA StarterTurn ==
    ASSUME ConnectionAssumption, Typed, StartInv, TurnInv, NEW s \in Conns, Starter(s)
    PROVE  StartInv' /\ TurnInv'
<1> USE DEF Typed, FieldTyped, Conns, ConnectionAssumption
<1>1. CASE DialSucceeds(s)
  <2>1. Started' = Started /\ Dialled' = Dialled \cup {s} /\ UNCHANGED <<Open, Handling, Writing>>
    BY <1>1 DEF DialSucceeds, Started, Dialled, Open, Handling, Writing, routines
  <2>2. dialling = 1 /\ dialling' = 0 /\ conn' # 0
    BY <1>1 DEF DialSucceeds, TurnInv
  <2>3. StartInv'
    BY <1>1, <2>1 DEF DialSucceeds, StartInv, routines
  <2>4. Writing = {} /\ Handling = {} /\ Dialled = {} /\ ~Open
    BY <2>2 DEF TurnInv
  <2> QED
    BY <2>1, <2>2, <2>3, <2>4 DEF TurnInv
<1>2. CASE StartWriters(s)
  <2>1. Started' = Started \cup {s} /\ Dialled' = Dialled \ {s} /\ s \in Dialled
    BY <1>2 DEF StartWriters, Started, Dialled
  <2>2. Dialled' = {} /\ Handling' = {} /\ dialling' = 0 /\ conn' # 0
    <3>1. Dialled = {s} /\ Handling = {} /\ dialling # 1
      BY <2>1 DEF TurnInv
    <3>2. UNCHANGED <<Handling, dialling, conn>>
      BY <1>2 DEF StartWriters, Handling
    <3> QED
      BY <2>1, <3>1, <3>2 DEF TurnInv
  <2>3. StartInv'
    BY <1>2, <2>1 DEF StartWriters, StartInv, RoutineTypeOK
  <2> QED
    BY <2>2, <2>3 DEF TurnInv
<1>3. CASE StartReaders(s)
  <2>1. UNCHANGED <<Started, Dialled, Open, Handling, Writing>> /\ s \in Started
    BY <1>3 DEF StartReaders, Started, Dialled, Open, Handling, Writing
  <2>2. StartInv'
    BY <1>3, <2>1 DEF StartReaders, StartInv, RoutineTypeOK
  <2> QED
    BY <1>3, <2>1, <2>2 DEF StartReaders, TurnInv
<1> QED
  BY <1>1, <1>2, <1>3 DEF Starter

LEMMA LostTurn ==
    ASSUME ConnectionAssumption, Typed, StartInv, TurnInv, NEW h \in Handlers, Lost(h)
    PROVE  StartInv' /\ TurnInv'
<1> USE DEF Typed, FieldTyped, Conns, ConnectionAssumption
<1>1. lost[h] # "no" => h[2] \in Started
  BY DEF StartInv
<1>2. CASE LostCloses(h)
  <2>1. Open /\ ~Open'
    BY <1>1, <1>2 DEF LostCloses, StartInv, Open
  <2>2. Dialled = {} /\ Handling = {} /\ dialling = 0
    BY <2>1 DEF TurnInv
  <2>3. UNCHANGED <<Started, Dialled, Writing, dialling, conn>>
    BY <1>2 DEF LostCloses, Started, Dialled, Writing, startVars, routines
  <2>4. lost'[h] = "shut" /\ \A g \in Handlers \ {h} : lost'[g] = lost[g]
    BY <1>2 DEF LostCloses, OtherTyped
  <2>5. Handling' = {h}
    BY <2>2, <2>4 DEF Handling
  <2>6. StartInv'
    BY <1>1, <1>2, <2>1, <2>3, <2>4 DEF LostCloses, StartInv, Open, routines
  <2> QED
    BY <2>1, <2>2, <2>3, <2>5, <2>6 DEF TurnInv
<1>3. CASE LostShuts(h)
  <2>1. lost'[h] = "wait" /\ \A g \in Handlers \ {h} : lost'[g] = lost[g]
    BY <1>3 DEF LostShuts, OtherTyped
  <2>2. Handling' \subseteq Handling
    BY <1>3, <2>1 DEF LostShuts, Handling
  <2>3. Keeps
    BY <1>1, <1>3, <2>1, <2>2, ViewsKept DEF LostShuts, Keeps, StartInv, fieldVars, startVars, routines
  <2> QED
    BY <2>3, KeptTurn
<1>4. CASE LostPanics(h)
  <2>1. Keeps
    BY <1>4, StillHandled, ViewsKept DEF LostPanics, Panic, Keeps, StartInv, startVars, routines
  <2> QED
    BY <2>1, KeptTurn
<1>5. CASE LostReports(h)
  <2>1. h \in Handling /\ Writing = {}
    BY <1>5 DEF LostReports, Handling, Workers, Writing
  <2>2. Handling = {h} /\ Dialled = {} /\ ~Open /\ dialling = 0 /\ conn # 0
    BY <2>1 DEF TurnInv
  <2>3. Handling' = {} /\ \A g \in Handlers : lost'[g] # "no" => g[2] \in Started
    BY <1>1, <1>5, <2>2, NewlyHandled DEF LostReports
  <2>4. UNCHANGED <<Started, Dialled, Open, Writing, conn>> /\ dialling' \in {0, 1}
    BY <1>5, <2>2 DEF LostReports, Started, Dialled, Open, Writing, routines
  <2>5. StartInv'
    BY <1>5, <2>3, <2>4 DEF LostReports, StartInv, routines
  <2> QED
    BY <2>1, <2>2, <2>3, <2>4, <2>5 DEF TurnInv
<1> QED
  BY <1>2, <1>3, <1>4, <1>5 DEF Lost

LEMMA OtherTurn ==
    ASSUME ConnectionAssumption, Typed, StartInv, TurnInv, NEW s \in Conns,
           \/ Incoming(s) \/ Outgoing(s) \/ Logic(s) \/ Keepalive(s) \/ Reset(s) \/ Mute(s)
           \/ DialFails \/ CallDisconnect \/ CallForce \/ Caller \/ UNCHANGED vars
    PROVE  Keeps
<1>1. CASE DialFails \/ CallDisconnect \/ CallForce \/ Caller \/ UNCHANGED vars
  <2>1. UNCHANGED <<starting, stop, closed, dialling, alllogic, keepalive, lost, outgoing>>
    BY <1>1 DEF DialFails, CallDisconnect, CallForce, Caller, Quiesced, ForceShuts, ForcePanics,
                CallerStops, CallerReturns, Panic, vars, fieldVars, startVars, routines
  <2>2. conn' = conn \/ (conn' = 0 /\ dialling > 0)
    BY <1>1 DEF DialFails, CallDisconnect, CallForce, Caller, Quiesced, ForceShuts, ForcePanics,
                CallerStops, CallerReturns, Panic, vars, fieldVars
  <2> QED
    BY <2>1, <2>2, StillHandled, ViewsKept DEF Keeps, StartInv
<1>2. CASE Incoming(s) \/ Reset(s) \/ Mute(s)
  <2>1. UNCHANGED <<starting, stop, closed, dialling, conn, alllogic, keepalive, lost, outgoing>>
    BY <1>2 DEF Incoming, IncomingReads, IncomingFails, IncomingPanics, Reset, Mute, Panic, fieldVars,
                startVars, routines
  <2> QED
    BY <2>1, StillHandled, ViewsKept DEF Keeps, StartInv
<1>3. CASE Outgoing(s)
  <2>1. UNCHANGED <<starting, stop, closed, dialling, conn, alllogic, keepalive, lost>>
    BY <1>3 DEF Outgoing, OutgoingLoops, OutgoingStops, OutgoingWrites, OutgoingDisconnects,
                fieldVars, startVars
  <2>2. outgoing[s].pc \in {"top", "wait"} /\ \A t \in Conns \ {s} : outgoing'[t] = outgoing[t]
    BY <1>3 DEF Outgoing, OutgoingLoops, OutgoingStops, OutgoingWrites, OutgoingDisconnects, Typed,
                RoutineTypeOK
  <2>3. Writing' \subseteq Writing
    BY <2>2 DEF Writing
  <2> QED
    BY <2>1, <2>3, StillHandled DEF Keeps, StartInv
<1>4. CASE Logic(s)
  <2>1. UNCHANGED <<starting, stop, closed, dialling, conn, keepalive>>
    BY <1>4 DEF Logic, LogicTakes, LogicPong, LogicLoops, LogicStops, LogicError, LogicDefers,
                fieldVars, startVars
  <2>2. /\ alllogic[s].pc # "no"
        /\ \A t \in Conns \ {s} : alllogic'[t] = alllogic[t]
    BY <1>4 DEF Logic, LogicTakes, LogicPong, LogicLoops, LogicStops, LogicError, LogicDefers, Typed,
                RoutineTypeOK
  <2>3. Writing' \subseteq Writing
    <3>1. CASE LogicError(s) \/ LogicDefers(s)
      BY <3>1, ErrorWritten DEF LogicError, LogicDefers, ReceiveError
    <3>2. CASE UNCHANGED outgoing
      BY <3>2, ViewsKept
    <3> QED
      BY <1>4, <3>1, <3>2 DEF Logic, LogicTakes, LogicPong, LogicLoops, LogicStops
  <2>4. s \in Started
    BY <2>2 DEF StartInv
  <2>5. Handling' \subseteq Handling /\ \A g \in Handlers : lost'[g] # "no" => g[2] \in Started
    <3>1. CASE LogicError(s)
      BY <2>4, <3>1, NewlyHandled, <<"alllogic", s>> \in Handlers DEF LogicError, Handlers
    <3>2. CASE UNCHANGED lost
      BY <3>2, StillHandled
    <3> QED
      BY <1>4, <3>1, <3>2 DEF Logic, LogicTakes, LogicPong, LogicLoops, LogicStops, LogicDefers
  <2> QED
    BY <2>1, <2>2, <2>3, <2>4, <2>5 DEF Keeps, StartInv
<1>5. CASE Keepalive(s)
  <2>1. UNCHANGED <<starting, stop, closed, dialling, conn, alllogic, outgoing>>
    BY <1>5 DEF Keepalive, KeepaliveStops, KeepalivePings, KeepaliveNotes, KeepaliveGivesUp,
                fieldVars, startVars
  <2>2. keepalive[s] # "no" /\ \A t \in Conns \ {s} : keepalive'[t] = keepalive[t]
    BY <1>5 DEF Keepalive, KeepaliveStops, KeepalivePings, KeepaliveNotes, KeepaliveGivesUp, Typed,
                RoutineTypeOK
  <2>3. s \in Started
    BY <2>2 DEF StartInv
  <2>4. Handling' \subseteq Handling /\ \A g \in Handlers : lost'[g] # "no" => g[2] \in Started
    <3>1. CASE KeepaliveGivesUp(s)
      BY <2>3, <3>1, NewlyHandled, <<"keepalive", s>> \in Handlers DEF KeepaliveGivesUp, Handlers
    <3>2. CASE UNCHANGED lost
      BY <3>2, StillHandled
    <3> QED
      BY <1>5, <3>1, <3>2 DEF Keepalive, KeepaliveStops, KeepalivePings, KeepaliveNotes
  <2> QED
    BY <2>1, <2>2, <2>3, <2>4, ViewsKept DEF Keeps, StartInv
<1> QED
  BY <1>1, <1>2, <1>3, <1>4, <1>5

LEMMA TurnStep ==
    ConnectionAssumption /\ Typed /\ StartInv /\ TurnInv /\ [Next]_vars => StartInv' /\ TurnInv'
<1> SUFFICES ASSUME ConnectionAssumption, Typed, StartInv, TurnInv, [Next]_vars
             PROVE  StartInv' /\ TurnInv'
  OBVIOUS
<1>1. 1 \in Conns
  BY DEF Conns, ConnectionAssumption
<1>2. ASSUME NEW s \in Conns, Starter(s) PROVE StartInv' /\ TurnInv'
  BY <1>2, StarterTurn
<1>3. ASSUME NEW h \in Handlers, Lost(h) PROVE StartInv' /\ TurnInv'
  BY <1>3, LostTurn
<1>4. ASSUME NEW s \in Conns,
             \/ Incoming(s) \/ Outgoing(s) \/ Logic(s) \/ Keepalive(s) \/ Reset(s) \/ Mute(s)
             \/ DialFails \/ CallDisconnect \/ CallForce \/ Caller \/ UNCHANGED vars
      PROVE  StartInv' /\ TurnInv'
  BY <1>4, OtherTurn, KeptTurn
<1> QED
  BY <1>1, <1>2, <1>3, <1>4 DEF Next
-----------------------------------------------------------------------------
(* Until a loss is reported.                                               *)

Unreported == \A s \in Conns : reports[s] = 0

\* There is one connection.
SoleInv ==
    /\ dialling = 0 /\ conn = 1
    /\ starting[1] # "no" /\ \A s \in Conns : s > 1 => starting[s] = "no"

\* A call meets the client on it, and takes over c.connected.
CallerInv ==
    /\ connected \/ caller.pc # "idle" => starting[1] = "yes"
    /\ caller.pc # "idle" => ~connected
    /\ caller.pc \in {"stop", "workers", "returned"} => caller.stop = 1

\* incoming ends only when the connection is closed.
ReaderInv ==
    \A s \in Conns : /\ incoming[s].pc # "no" => incoming[s].conn = 1
                     /\ incoming[s].pc \in {"error", "done"} => 1 \notin alive

\* The workers are those that were started, and none starts again.
WorkerInv ==
    /\ \A s \in Conns : /\ starting[s] # "yes" => incoming[s].pc = "no" /\ keepalive[s] = "no"
                        /\ starting[s] \in {"no", "dialled"} => outgoing[s].pc = "no"
                        /\ starting[s] = "yes" => incoming[s].pc # "no"
    /\ caller.pc = "returned" => Workers = {}

FirstInv == Unreported => SoleInv /\ CallerInv /\ ReaderInv /\ WorkerInv

\* A count of reports never falls.
LEMMA ReportsGrow ==
    ASSUME ConnectionAssumption, Typed, [Next]_vars, Unreported' PROVE Unreported /\ UNCHANGED reports
<1>1. ASSUME NEW h \in Handlers, LostReports(h) PROVE UNCHANGED reports
  <2>1. h[2] \in Conns
    BY DEF Handlers
  <2> QED
    BY <1>1, <2>1 DEF LostReports, Unreported, Typed, OtherTyped
<1>2. ASSUME NEW h \in Handlers, Lost(h) PROVE UNCHANGED reports
  BY <1>1, <1>2 DEF Lost, LostCloses, LostShuts, LostPanics, Panic
<1>3. CASE DialFails \/ CallDisconnect \/ CallForce \/ Caller \/ UNCHANGED vars
  BY <1>3 DEF DialFails, CallDisconnect, CallForce, Caller, Quiesced, ForceShuts, ForcePanics,
              CallerStops, CallerReturns, Panic, vars, Unreported
<1>4. ASSUME NEW s \in Conns, Starter(s) \/ Incoming(s) \/ Outgoing(s) \/ Reset(s) \/ Mute(s)
      PROVE  UNCHANGED reports
  BY <1>4 DEF Starter, DialSucceeds, StartWriters, StartReaders, Incoming, IncomingReads,
              IncomingFails, IncomingPanics, Outgoing, OutgoingLoops, OutgoingStops, OutgoingWrites,
              OutgoingDisconnects, Reset, Mute, Panic
<1>5. ASSUME NEW s \in Conns, Logic(s) \/ Keepalive(s) PROVE UNCHANGED reports
  BY <1>5 DEF Logic, LogicTakes, LogicPong, LogicLoops, LogicStops, LogicError, LogicDefers,
              Keepalive, KeepaliveStops, KeepalivePings, KeepaliveNotes, KeepaliveGivesUp
<1> QED
  BY <1>2, <1>3, <1>4, <1>5 DEF Next, Unreported

LEMMA SoleStep ==
    ASSUME ConnectionAssumption, Typed, SoleInv, [Next]_vars, UNCHANGED reports PROVE SoleInv'
<1> USE DEF Typed, FieldTyped, Conns, ConnectionAssumption
<1>1. ASSUME NEW h \in Handlers, Lost(h) PROVE UNCHANGED <<dialling, conn, starting>>
  <2>1. h[2] \in Conns
    BY DEF Handlers
  <2>2. CASE LostReports(h)
    BY <2>1, <2>2 DEF LostReports, OtherTyped
  <2> QED
    BY <1>1, <2>2 DEF Lost, LostCloses, LostShuts, LostPanics, Panic, fieldVars, startVars
<1>2. ~DialFails /\ \A s \in Conns : ~DialSucceeds(s)
  BY DEF DialFails, DialSucceeds, SoleInv
<1>3. CASE CallDisconnect \/ CallForce \/ Caller \/ UNCHANGED vars
  BY <1>3 DEF CallDisconnect, CallForce, Caller, Quiesced, ForceShuts, ForcePanics, CallerStops,
              CallerReturns, Panic, vars, fieldVars, startVars, SoleInv
<1>4. ASSUME NEW s \in Conns, Starter(s) PROVE SoleInv'
  BY <1>2, <1>4 DEF Starter, StartWriters, StartReaders, SoleInv
<1>5. ASSUME NEW s \in Conns, Incoming(s) \/ Outgoing(s) \/ Reset(s) \/ Mute(s)
      PROVE  UNCHANGED <<dialling, conn, starting>>
  BY <1>5 DEF Incoming, IncomingReads, IncomingFails, IncomingPanics, Outgoing, OutgoingLoops,
              OutgoingStops, OutgoingWrites, OutgoingDisconnects, Reset, Mute, Panic, fieldVars,
              startVars
<1>6. ASSUME NEW s \in Conns, Logic(s) \/ Keepalive(s) PROVE UNCHANGED <<dialling, conn, starting>>
  BY <1>6 DEF Logic, LogicTakes, LogicPong, LogicLoops, LogicStops, LogicError, LogicDefers,
              Keepalive, KeepaliveStops, KeepalivePings, KeepaliveNotes, KeepaliveGivesUp, fieldVars,
              startVars
<1> QED
  BY <1>1, <1>2, <1>3, <1>4, <1>5, <1>6 DEF Next, SoleInv

LEMMA CallerStep ==
    ASSUME ConnectionAssumption, Typed, StartInv, SoleInv, CallerInv, [Next]_vars PROVE CallerInv'
<1> USE DEF Typed, FieldTyped, Conns, ConnectionAssumption
<1>1. starting[1] = "yes" => stop = 1
  BY DEF StartInv, SoleInv, Started
<1>2. ASSUME NEW h \in Handlers, Lost(h)
      PROVE  UNCHANGED <<starting, caller>> /\ (connected' => connected)
  BY <1>2 DEF Lost, LostCloses, LostShuts, LostPanics, LostReports, Panic, fieldVars, startVars,
              callVars
<1>3. CASE CallDisconnect \/ CallForce
  BY <1>3 DEF CallDisconnect, CallForce, CallerInv, startVars, OtherTyped
<1>4. CASE Caller
  BY <1>1, <1>4 DEF Caller, Quiesced, ForceShuts, ForcePanics, CallerStops, CallerReturns, Panic,
                    fieldVars, startVars, callVars, CallerInv, OtherTyped
<1>5. CASE DialFails \/ UNCHANGED vars
  BY <1>5 DEF DialFails, vars, fieldVars, startVars, callVars, CallerInv
<1>6. ASSUME NEW s \in Conns, Starter(s) PROVE CallerInv'
  <2>1. ~DialSucceeds(s)
    BY DEF DialSucceeds, SoleInv
  <2>2. CASE StartWriters(s)
    BY <2>2 DEF StartWriters, SoleInv, CallerInv, callVars
  <2>3. CASE StartReaders(s)
    BY <2>3 DEF StartReaders, SoleInv, CallerInv, callVars
  <2> QED
    BY <1>6, <2>1, <2>2, <2>3 DEF Starter
<1>7. ASSUME NEW s \in Conns, Incoming(s) \/ Outgoing(s) \/ Reset(s) \/ Mute(s)
      PROVE  UNCHANGED <<starting, caller, connected>>
  BY <1>7 DEF Incoming, IncomingReads, IncomingFails, IncomingPanics, Outgoing, OutgoingLoops,
              OutgoingStops, OutgoingWrites, OutgoingDisconnects, Reset, Mute, Panic, fieldVars,
              startVars, callVars
<1>8. ASSUME NEW s \in Conns, Logic(s) \/ Keepalive(s) PROVE UNCHANGED <<starting, caller, connected>>
  BY <1>8 DEF Logic, LogicTakes, LogicPong, LogicLoops, LogicStops, LogicError, LogicDefers,
              Keepalive, KeepaliveStops, KeepalivePings, KeepaliveNotes, KeepaliveGivesUp, fieldVars,
              startVars, callVars
<1> QED
  BY <1>2, <1>3, <1>4, <1>5, <1>6, <1>7, <1>8 DEF Next, CallerInv

\* What a step may do to incoming of a connection.
ReadsOrEnds(s) ==
    \/ incoming'[s] = incoming[s]
    \/ incoming'[s].pc \in {"read", "put"} /\ incoming'[s].conn \in {conn, incoming[s].conn}
       /\ incoming[s].pc \in {"no", "read", "put"} /\ (incoming[s].pc = "no" => incoming'[s].conn = conn)
    \/ incoming[s].pc = "read" /\ incoming[s].conn \notin alive
       /\ incoming'[s].pc \in {"error", "done"} /\ incoming'[s].conn = incoming[s].conn
    \/ incoming[s].pc = "error" /\ incoming'[s].pc = "done" /\ incoming'[s].conn = incoming[s].conn

LEMMA ReaderMoves ==
    ASSUME ConnectionAssumption, Typed, SoleInv, WorkerInv, [Next]_vars
    PROVE  alive' \subseteq alive /\ \A s \in Conns : ReadsOrEnds(s)
<1> USE DEF Typed, RoutineTypeOK
<1>1. UNCHANGED incoming => \A s \in Conns : ReadsOrEnds(s)
  BY DEF ReadsOrEnds
<1>2. ~DialFails /\ \A s \in Conns : ~DialSucceeds(s)
  BY DEF DialFails, DialSucceeds, SoleInv
<1>3. CASE CallDisconnect \/ CallForce \/ Caller \/ UNCHANGED vars
  BY <1>1, <1>3 DEF CallDisconnect, CallForce, Caller, Quiesced, ForceShuts, ForcePanics, CallerStops,
                    CallerReturns, Panic, vars, routines, netVars
<1>4. ASSUME NEW h \in Handlers, Lost(h) PROVE UNCHANGED incoming /\ alive' \subseteq alive
  BY <1>4 DEF Lost, LostCloses, LostShuts, LostPanics, LostReports, Panic, routines, netVars
<1>5. ASSUME NEW s \in Conns, StartWriters(s) \/ Reset(s) \/ Mute(s) \/ Outgoing(s) \/ Keepalive(s)
      PROVE  UNCHANGED incoming /\ alive' \subseteq alive
  BY <1>5 DEF StartWriters, Reset, Mute, Outgoing, OutgoingLoops, OutgoingStops, OutgoingWrites,
              OutgoingDisconnects, Keepalive, KeepaliveStops, KeepalivePings, KeepaliveNotes,
              KeepaliveGivesUp, routines, netVars
<1>6. ASSUME NEW s \in Conns, StartReaders(s)
      PROVE  UNCHANGED alive /\ \A t \in Conns : ReadsOrEnds(t)
  BY <1>6 DEF StartReaders, ReadsOrEnds, WorkerInv, netVars
<1>7. ASSUME NEW s \in Conns, Incoming(s)
      PROVE  UNCHANGED alive /\ \A t \in Conns : ReadsOrEnds(t)
  <2>1. CASE IncomingReads(s)
    BY <2>1 DEF IncomingReads, ReadsOrEnds
  <2>2. CASE IncomingFails(s)
    BY <2>2 DEF IncomingFails, ReadsOrEnds, netVars
  <2>3. CASE IncomingPanics(s)
    BY <1>1, <2>3 DEF IncomingPanics, Panic, routines, netVars
  <2> QED
    BY <1>7, <2>1, <2>2, <2>3 DEF Incoming
<1>8. ASSUME NEW t \in Conns, Logic(t)
      PROVE  UNCHANGED alive /\ \A s \in Conns : ReadsOrEnds(s)
  <2>1. ASSUME NEW s \in Conns, LogicTakes(t, s) \/ LogicPong(t, s)
        PROVE  UNCHANGED alive /\ \A u \in Conns : ReadsOrEnds(u)
    BY <2>1 DEF LogicTakes, LogicPong, ReadsOrEnds, netVars
  <2>2. ASSUME NEW s \in Conns, incoming[s].pc = "error", incoming' = [incoming EXCEPT ![s].pc = "done"]
        PROVE  \A u \in Conns : ReadsOrEnds(u)
    BY <2>2 DEF ReadsOrEnds
  <2>3. CASE LogicError(t)
    BY <1>1, <2>2, <2>3 DEF LogicError, ReceiveError, netVars
  <2>4. CASE LogicDefers(t)
    BY <1>1, <2>2, <2>4 DEF LogicDefers, netVars
  <2>5. CASE LogicLoops(t) \/ LogicStops(t)
    BY <1>1, <2>5 DEF LogicLoops, LogicStops, netVars
  <2> QED
    BY <1>8, <2>1, <2>3, <2>4, <2>5 DEF Logic
<1> QED
  BY <1>1, <1>2, <1>3, <1>4, <1>5, <1>6, <1>7, <1>8 DEF Next, Starter

LEMMA ReaderStep ==
    ASSUME ConnectionAssumption, Typed, SoleInv, WorkerInv, ReaderInv, [Next]_vars PROVE ReaderInv'
<1>1. alive' \subseteq alive /\ conn = 1 /\ \A s \in Conns : ReadsOrEnds(s)
  BY ReaderMoves DEF SoleInv
<1> QED
  BY <1>1 DEF ReaderInv, ReadsOrEnds

\* What a step but that of a starter does to the workers: they go on or end.
WorkOn ==
    /\ UNCHANGED starting /\ Workers' \subseteq Workers
    /\ \A s \in Conns : /\ incoming'[s].pc = "no" <=> incoming[s].pc = "no"
                        /\ outgoing'[s].pc = "no" <=> outgoing[s].pc = "no"
                        /\ keepalive'[s] = "no" <=> keepalive[s] = "no"

LEMMA SameWork == UNCHANGED <<starting, outgoing, incoming, keepalive>> => WorkOn
  BY DEF WorkOn, Workers

\* One of them moves.
LEMMA OneWorks ==
    ASSUME Typed, UNCHANGED starting, NEW s \in Conns,
           \/ /\ UNCHANGED <<outgoing, keepalive>>
              /\ incoming[s].pc \in {"read", "put", "error"}
              /\ \A t \in Conns \ {s} : incoming'[t] = incoming[t]
              /\ incoming'[s].pc # "no"
           \/ /\ UNCHANGED <<incoming, keepalive>>
              /\ outgoing[s].pc \in {"top", "wait", "error"}
              /\ \A t \in Conns \ {s} : outgoing'[t] = outgoing[t]
              /\ outgoing'[s].pc # "no"
           \/ /\ UNCHANGED <<incoming, outgoing>>
              /\ keepalive[s] \in {"run", "pinged"}
              /\ \A t \in Conns \ {s} : keepalive'[t] = keepalive[t]
              /\ keepalive'[s] # "no"
    PROVE  WorkOn
<1>1. s \in Workers
  BY DEF Workers
<1>2. \A t \in Conns \ {s} : /\ incoming'[t] = incoming[t] /\ outgoing'[t] = outgoing[t]
                             /\ keepalive'[t] = keepalive[t]
  OBVIOUS
<1>3. Workers' \subseteq Workers
  BY <1>1, <1>2 DEF Workers
<1> QED
  BY <1>2, <1>3 DEF WorkOn

LEMMA OthersWork ==
    ASSUME ConnectionAssumption, Typed, SoleInv, [Next]_vars, \A s \in Conns : ~Starter(s)
    PROVE  WorkOn
<1> USE DEF Typed, RoutineTypeOK
<1>1. CASE DialFails \/ CallDisconnect \/ CallForce \/ Caller \/ UNCHANGED vars
  BY <1>1, SameWork DEF DialFails, CallDisconnect, CallForce, Caller, Quiesced, ForceShuts,
                        ForcePanics, CallerStops, CallerReturns, Panic, vars, startVars, routines
<1>2. ASSUME NEW h \in Handlers, Lost(h) PROVE WorkOn
  BY <1>2, SameWork DEF Lost, LostCloses, LostShuts, LostPanics, LostReports, Panic, startVars, routines
<1>3. ASSUME NEW s \in Conns, Reset(s) \/ Mute(s) \/ IncomingPanics(s) PROVE WorkOn
  BY <1>3, SameWork DEF Reset, Mute, IncomingPanics, Panic, startVars, routines
<1>4. ASSUME NEW s \in Conns, IncomingReads(s) \/ IncomingFails(s) PROVE WorkOn
  BY <1>4, OneWorks DEF IncomingReads, IncomingFails, startVars
<1>5. ASSUME NEW s \in Conns, Outgoing(s) PROVE WorkOn
  <2>1. UNCHANGED <<starting, incoming, keepalive>> /\ outgoing[s].pc \in {"top", "wait"}
    BY <1>5 DEF Outgoing, OutgoingLoops, OutgoingStops, OutgoingWrites, OutgoingDisconnects, startVars
  <2>2. outgoing'[s].pc # "no" /\ \A t \in Conns \ {s} : outgoing'[t] = outgoing[t]
    BY <1>5 DEF Outgoing, OutgoingLoops, OutgoingStops, OutgoingWrites, OutgoingDisconnects
  <2> QED
    BY <2>1, <2>2, OneWorks
<1>6. ASSUME NEW s \in Conns, Keepalive(s) PROVE WorkOn
  BY <1>6, OneWorks DEF Keepalive, KeepaliveStops, KeepalivePings, KeepaliveNotes, KeepaliveGivesUp,
                        startVars
<1>7. ASSUME NEW t \in Conns, Logic(t) PROVE WorkOn
  <2>1. ASSUME NEW s \in Conns, LogicTakes(t, s) \/ LogicPong(t, s) PROVE WorkOn
    BY <2>1, OneWorks DEF LogicTakes, LogicPong, startVars
  <2>2. CASE LogicLoops(t) \/ LogicStops(t)
    BY <2>2, SameWork DEF LogicLoops, LogicStops, startVars
  <2>3. ASSUME NEW s \in Conns, UNCHANGED <<starting, outgoing, keepalive>>, incoming[s].pc = "error",
               incoming' = [incoming EXCEPT ![s].pc = "done"]
        PROVE  WorkOn
    BY <2>3, OneWorks
  <2>4. ASSUME NEW s \in Conns, UNCHANGED <<starting, incoming, keepalive>>, outgoing[s].pc = "error",
               outgoing' = [outgoing EXCEPT ![s].pc = "done"]
        PROVE  WorkOn
    BY <2>4, OneWorks
  <2>5. CASE LogicError(t) \/ LogicDefers(t)
    BY <2>3, <2>4, <2>5, SameWork DEF LogicError, LogicDefers, ReceiveError, startVars
  <2> QED
    BY <1>7, <2>1, <2>2, <2>5 DEF Logic
<1> QED
  BY <1>1, <1>2, <1>3, <1>4, <1>5, <1>6, <1>7 DEF Next, Incoming

LEMMA WorkerStep ==
    ASSUME ConnectionAssumption, Typed, SoleInv, CallerInv, WorkerInv, [Next]_vars PROVE WorkerInv'
<1> USE DEF Typed, RoutineTypeOK
<1>1. ASSUME NEW s \in Conns, Starter(s) PROVE WorkerInv'
  <2>1. ~DialSucceeds(s)
    BY DEF DialSucceeds, SoleInv
  <2>2. starting[s] # "yes" /\ s = 1
    <3>1. starting[s] \in {"dialled", "writing"}
      BY <1>1, <2>1 DEF Starter, StartWriters, StartReaders
    <3> QED
      BY <3>1 DEF SoleInv, Conns, ConnectionAssumption
  <2>3. caller.pc = "idle" /\ UNCHANGED caller
    BY <1>1, <2>1, <2>2 DEF Starter, StartWriters, StartReaders, CallerInv, callVars
  <2>4. CASE StartWriters(s)
    BY <2>3, <2>4 DEF StartWriters, WorkerInv, FieldTyped
  <2>5. CASE StartReaders(s)
    BY <2>3, <2>5 DEF StartReaders, WorkerInv, FieldTyped
  <2> QED
    BY <1>1, <2>1, <2>4, <2>5 DEF Starter
<1>2. ASSUME \A s \in Conns : ~Starter(s) PROVE WorkerInv'
  <2>1. WorkOn
    BY <1>2, OthersWork
  <2>2. caller'.pc = "returned" => Workers' = {}
    <3>1. CASE CallerReturns
      BY <2>1, <3>1 DEF CallerReturns, WorkOn
    <3>2. CASE ~CallerReturns
      <4>1. ASSUME DialFails \/ CallDisconnect \/ CallForce \/ Caller \/ UNCHANGED vars
            PROVE  caller'.pc = "returned" => caller.pc = "returned"
        BY <3>2, <4>1 DEF DialFails, CallDisconnect, CallForce, Caller, Quiesced, ForceShuts,
                          ForcePanics, CallerStops, Panic, vars, callVars, OtherTyped
      <4>2. ASSUME NEW s \in Conns, Incoming(s) \/ Outgoing(s) \/ Reset(s) \/ Mute(s)
            PROVE  UNCHANGED caller
        BY <4>2 DEF Incoming, IncomingReads, IncomingFails, IncomingPanics, Outgoing, OutgoingLoops,
                    OutgoingStops, OutgoingWrites, OutgoingDisconnects, Reset, Mute, Panic, callVars
      <4>3. ASSUME NEW s \in Conns, Logic(s) \/ Keepalive(s) PROVE UNCHANGED caller
        BY <4>3 DEF Logic, LogicTakes, LogicPong, LogicLoops, LogicStops, LogicError, LogicDefers,
                    Keepalive, KeepaliveStops, KeepalivePings, KeepaliveNotes, KeepaliveGivesUp, callVars
      <4>4. ASSUME NEW h \in Handlers, Lost(h) PROVE UNCHANGED caller
        BY <4>4 DEF Lost, LostCloses, LostShuts, LostPanics, LostReports, Panic, callVars
      <4>5. caller'.pc = "returned" => caller.pc = "returned"
        BY <1>2, <4>1, <4>2, <4>3, <4>4 DEF Next
      <4> QED
        BY <2>1, <4>5 DEF WorkOn, WorkerInv
    <3> QED
      BY <3>1, <3>2
  <2> QED
    BY <2>1, <2>2 DEF WorkOn, WorkerInv
<1> QED
  BY <1>1, <1>2

LEMMA FirstStep ==
    ConnectionAssumption /\ Typed /\ StartInv /\ FirstInv /\ [Next]_vars => FirstInv'
<1> SUFFICES ASSUME ConnectionAssumption, Typed, StartInv, FirstInv, [Next]_vars, Unreported'
             PROVE  SoleInv' /\ CallerInv' /\ ReaderInv' /\ WorkerInv'
  BY DEF FirstInv
<1>1. Unreported /\ UNCHANGED reports
  BY ReportsGrow
<1>2. SoleInv /\ CallerInv /\ ReaderInv /\ WorkerInv
  BY <1>1 DEF FirstInv
<1> QED
  BY <1>1, <1>2, SoleStep, CallerStep, ReaderStep, WorkerStep

\* What TypeOK says of the variables that the proofs above do not speak of.
RestTyped ==
    /\ setup \in Setups /\ proc \in {"up", "panicked"}
    /\ connected \in BOOLEAN /\ pingOutstanding \in BOOLEAN /\ farewell \in BOOLEAN
    /\ mute \subseteq Conns /\ pings \subseteq Conns /\ packets \in 0..MaxPackets

\* A ping is written to a connection there is: its stop channel is open.
LEMMA PingsConn ==
    ASSUME Typed, StartInv, TurnInv, NEW s \in Conns, keepalive[s] = "run", stop \notin closed
    PROVE  conn # 0
<1>1. Open
  BY DEF StartInv, Open
<1> QED
  BY <1>1 DEF TurnInv

LEMMA RestStep ==
    ASSUME ConnectionAssumption, Typed, StartInv, TurnInv, RestTyped, [Next]_vars PROVE RestTyped'
<1> USE DEF RestTyped
<1>1. UNCHANGED setup
  BY SetupKept
<1>2. CASE DialFails \/ CallDisconnect \/ CallForce \/ Caller \/ UNCHANGED vars
  BY <1>1, <1>2 DEF DialFails, CallDisconnect, CallForce, Caller, Quiesced, ForceShuts, ForcePanics,
                    CallerStops, CallerReturns, Panic, vars, fieldVars, callVars, netVars
<1>3. ASSUME NEW s \in Conns, Starter(s) PROVE RestTyped'
  BY <1>1, <1>3 DEF Starter, DialSucceeds, StartWriters, StartReaders, callVars, netVars
<1>4. ASSUME NEW s \in Conns, Incoming(s) \/ Reset(s) \/ Mute(s) PROVE RestTyped'
  BY <1>1, <1>4 DEF Incoming, IncomingReads, IncomingFails, IncomingPanics, Reset, Mute, Panic,
                    fieldVars, callVars, netVars, ConnectionAssumption
<1>5. ASSUME NEW s \in Conns, Outgoing(s) PROVE RestTyped'
  BY <1>1, <1>5 DEF Outgoing, OutgoingLoops, OutgoingStops, OutgoingWrites, OutgoingDisconnects,
                    fieldVars, callVars, netVars
<1>6. ASSUME NEW s \in Conns, Logic(s) PROVE RestTyped'
  BY <1>1, <1>6 DEF Logic, LogicTakes, LogicPong, LogicLoops, LogicStops, LogicError, LogicDefers,
                    fieldVars, callVars, netVars
<1>7. ASSUME NEW s \in Conns, Keepalive(s) PROVE RestTyped'
  <2>1. CASE KeepalivePings(s)
    <3>1. conn \in Conns
      BY <2>1, PingsConn DEF KeepalivePings, Typed, FieldTyped, Conns, ConnectionAssumption
    <3> QED
      BY <1>1, <2>1, <3>1 DEF KeepalivePings, fieldVars, callVars
  <2>2. CASE KeepaliveStops(s) \/ KeepaliveNotes(s) \/ KeepaliveGivesUp(s)
    BY <1>1, <2>2 DEF KeepaliveStops, KeepaliveNotes, KeepaliveGivesUp, fieldVars, callVars, netVars
  <2> QED
    BY <1>7, <2>1, <2>2 DEF Keepalive
<1>8. ASSUME NEW h \in Handlers, Lost(h) PROVE RestTyped'
  BY <1>1, <1>8 DEF Lost, LostCloses, LostShuts, LostPanics, LostReports, Panic, fieldVars, callVars,
                    netVars
<1> QED
  BY <1>2, <1>3, <1>4, <1>5, <1>6, <1>7, <1>8 DEF Next

AnyInv == StartInv /\ TurnInv /\ FirstInv /\ RestTyped

LEMMA InitAny == ConnectionAssumption /\ Init => AnyInv
<1> SUFFICES ASSUME ConnectionAssumption, Init PROVE AnyInv
  OBVIOUS
<1> USE DEF Conns, ConnectionAssumption, Init
<1>1. Started = {} /\ Dialled = {1} /\ Handling = {} /\ ~Open /\ Writing = {} /\ Workers = {}
  BY DEF Started, Dialled, Handling, Open, Writing, Workers
<1>2. StartInv
  BY <1>1 DEF StartInv
<1>3. TurnInv
  BY <1>1 DEF TurnInv
<1>4. FirstInv
  BY <1>1 DEF FirstInv, SoleInv, CallerInv, ReaderInv, WorkerInv
<1>5. RestTyped
  <2>1. setup \in Setups /\ proc = "up" /\ mute = {} /\ pings = {} /\ packets = 0
    OBVIOUS
  <2>2. connected = FALSE /\ pingOutstanding = FALSE /\ farewell = FALSE
    OBVIOUS
  <2>3. connected \in BOOLEAN /\ pingOutstanding \in BOOLEAN /\ farewell \in BOOLEAN
    BY <2>2, Zenon
  <2>4. 0 \in 0..MaxPackets
    OBVIOUS
  <2> QED
    BY <2>1, <2>3, <2>4, Zenon DEF RestTyped
<1> QED
  BY <1>2, <1>3, <1>4, <1>5 DEF AnyInv

LEMMA StepAny == ConnectionAssumption /\ Inv /\ AnyInv /\ [Next]_vars => AnyInv'
  BY TurnStep, FirstStep, RestStep DEF Inv, AnyInv

LEMMA AnyInvariance == Spec => [](Inv /\ AnyInv)
<1>1. Init => AnyInv
  BY InitAny, ConnectionAssumption
<1>2. Inv /\ AnyInv /\ [Next]_vars => AnyInv'
  BY StepAny, ConnectionAssumption
<1> QED
  BY <1>1, <1>2, Invariance, PTL DEF Spec

\* Every variable has its type: no stop channel is closed but one that was made,
\* and no ping is written to a connection that is nil, in any situation.
THEOREM TypeCorrect == Spec => []TypeOK
<1>1. Inv /\ AnyInv => TypeOK
  <2> SUFFICES ASSUME Inv, AnyInv PROVE TypeOK
    OBVIOUS
  <2>1. FieldTypeOK
    BY DEF Inv, AnyInv, Typed, FieldTyped, RestTyped, StartInv, Started, FieldTypeOK
  <2>2. OtherTypeOK
    BY DEF Inv, AnyInv, Typed, OtherTyped, RestTyped, OtherTypeOK
  <2> QED
    BY <2>1, <2>2 DEF Inv, Typed, TypeOK
<1> QED
  BY <1>1, AnyInvariance, PTL

\* While the client has no connection, no goroutine is left that would use it,
\* though two of them may have noticed the loss: the retries of reconnect are
\* alone with c.conn.  ConnInUse of outgoing, keepalive and internalConnLost.
THEOREM NilIsUnused == Spec => []ConnInUse
<1>1. Inv /\ AnyInv => ConnInUse
  <2> SUFFICES ASSUME Inv, AnyInv PROVE ConnInUse
    OBVIOUS
  <2>1. Typed /\ StartInv /\ TurnInv
    BY DEF Inv, AnyInv
  <2>2. ASSUME NEW s \in Conns, outgoing[s].pc = "wait" PROVE conn # 0
    BY <2>1, <2>2 DEF TurnInv, Writing
  <2>3. ASSUME NEW s \in Conns, keepalive[s] = "run", stop \notin closed PROVE conn # 0
    BY <2>1, <2>3, PingsConn
  <2>4. ASSUME NEW h \in Handlers, lost[h] = "shut" PROVE conn # 0
    BY <2>1, <2>4 DEF TurnInv, Handling
  <2> QED
    BY <2>2, <2>3, <2>4 DEF ConnInUse
<1> QED
  BY <1>1, AnyInvariance, PTL

\* What Disconnect and ForceDisconnect leave when they return: the connection
\* they met is closed and its workers have ended, if no loss was reported, in
\* any situation.
THEOREM CallReleases == Spec => []Released
<1>1. Inv /\ AnyInv => Released
  <2> SUFFICES ASSUME Inv, AnyInv, caller.pc = "returned", Unreported
               PROVE  caller.stop \notin alive /\ caller.stop \notin Workers
    BY DEF Released, Unreported
  <2>1. SoleInv /\ CallerInv /\ ReaderInv /\ WorkerInv /\ Typed /\ ConnectionAssumption
    BY ConnectionAssumption DEF Inv, AnyInv, FirstInv
  <2>2. caller.stop = 1 /\ Workers = {} /\ 1 \in Conns /\ starting[1] = "yes"
    BY <2>1 DEF CallerInv, WorkerInv, Conns, ConnectionAssumption
  <2>3. incoming[1].pc = "done"
    BY <2>1, <2>2 DEF WorkerInv, Workers, Typed, RoutineTypeOK
  <2> QED
    BY <2>1, <2>2, <2>3 DEF ReaderInv
<1> QED
  BY <1>1, AnyInvariance, PTL

\* After Disconnect or ForceDisconnect has been called OnConnectionLost is not,
\* unless it was called before: the client says at once that it is not connected.
THEOREM CallSilences == Spec => NotReportedAfterwards
<1>1. Inv /\ AnyInv /\ [Next]_vars
        => [caller.pc # "idle" /\ (\A s \in Conns : reports[s] = 0) => reports' = reports]_vars
  <2> SUFFICES ASSUME Inv, AnyInv, Next, caller.pc # "idle", Unreported PROVE reports' = reports
    BY DEF Unreported
  <2>1. ~connected
    BY DEF AnyInv, FirstInv, CallerInv
  <2>2. ASSUME NEW h \in Handlers, Lost(h) PROVE reports' = reports
    BY <2>1, <2>2 DEF Lost, LostCloses, LostShuts, LostPanics, LostReports, Panic
  <2>3. CASE DialFails \/ CallDisconnect \/ CallForce \/ Caller
    BY <2>3 DEF DialFails, CallDisconnect, CallForce, Caller, Quiesced, ForceShuts, ForcePanics,
                CallerStops, CallerReturns, Panic
  <2>4. ASSUME NEW s \in Conns, Starter(s) \/ Incoming(s) \/ Outgoing(s) \/ Reset(s) \/ Mute(s)
        PROVE  reports' = reports
    BY <2>4 DEF Starter, DialSucceeds, StartWriters, StartReaders, Incoming, IncomingReads,
                IncomingFails, IncomingPanics, Outgoing, OutgoingLoops, OutgoingStops, OutgoingWrites,
                OutgoingDisconnects, Reset, Mute, Panic
  <2>5. ASSUME NEW s \in Conns, Logic(s) \/ Keepalive(s) PROVE reports' = reports
    BY <2>5 DEF Logic, LogicTakes, LogicPong, LogicLoops, LogicStops, LogicError, LogicDefers,
                Keepalive, KeepaliveStops, KeepalivePings, KeepaliveNotes, KeepaliveGivesUp
  <2> QED
    BY <2>2, <2>3, <2>4, <2>5 DEF Next
<1> QED
  BY <1>1, AnyInvariance, PTL DEF Spec, NotReportedAfterwards

\* In ordinary situations nothing closes a closed channel or uses a connection
\* that is nil, however many connections are lost one after the other: NoPanic
\* of internalConnLost, ReadPacket and ForceDisconnect.
THEOREM NeverPanics == Spec => []NoPanic
<1>1. Inv => NoPanic
  BY DEF Inv, OrdInv, NoPanic
<1> QED
  BY <1>1, Invariance, PTL

\* Without keepalive one alllogic at a time takes packets: the order in which
\* they are answered is the order in which they came.
THEOREM LogicIsAlone == Spec => []OneLogic
<1>1. Inv => OneLogic
  <2> SUFFICES ASSUME Inv, ~setup.keepAlive, NEW s \in Conns, NEW t \in Conns, Reads(s), Reads(t)
               PROVE  s = t
    BY DEF OneLogic
  <2>1. s \in Watching /\ t \in Watching
    BY DEF Reads, Watching, Inv, Typed, RoutineTypeOK
  <2> QED
    BY <2>1 DEF Inv, Foreseen, CoreInv, WatchInv
<1> QED
  BY <1>1, Invariance, PTL

\* No worker of a connection that was lost is left when the next is opened, in
\* ordinary situations: internalConnLost waits for those it must wait for.
THEOREM WorkersAreGone == Spec => []WorkersEndFirst
<1>1. Inv => WorkersEndFirst
  <2> SUFFICES ASSUME Inv, Ordinary, NEW s \in Workers, NEW t \in Conns, starting[t] # "no"
               PROVE  t <= s
    BY DEF WorkersEndFirst
  <2>1. Typed /\ CoreInv /\ ReadInv /\ s \in Conns
    BY DEF Inv, Foreseen, OrdInv, Workers
  <2>2. s = stop /\ Loses[s] # "done"
    <3>1. CASE s \in Writing
      BY <2>1, <3>1 DEF CoreInv, DialInv
    <3>2. CASE s \in Reading
      BY <2>1, <3>2 DEF ReadInv
    <3>3. CASE s \in Watching
      BY <2>1, <3>3 DEF CoreInv, WatchInv
    <3>4. s \in Writing \/ s \in Reading \/ s \in Watching
      BY <2>1 DEF Workers, Writing, Reading, Watching, CoreInv, SpareInv
    <3> QED
      BY <3>1, <3>2, <3>3, <3>4
  <2>3. starting[t] \in {"writing", "yes"}
    BY <2>1, <2>2 DEF CoreInv, DialInv, Typed, FieldTyped
  <2> QED
    BY <2>1, <2>2, <2>3 DEF CoreInv, OrderInv
<1> QED
  BY <1>1, Invariance, PTL

\* Without keepalive OnConnectionLost is called at most once for a connection.
THEOREM LossReportedOnce == Spec => []ReportedOnce
<1>1. Inv => ReportedOnce
  BY DEF Inv, Foreseen, CoreInv, CountInv, ReportedOnce
<1> QED
  BY <1>1, Invariance, PTL
=============================================================================
