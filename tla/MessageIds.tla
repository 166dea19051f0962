------------------------------ MODULE MessageIds ------------------------------
(***************************************************************************)
(* Message identifiers and tokens of the paho client.  outgoing gives a    *)
(* request an identifier (getID), alllogic finds the token of an answer by *)
(* its identifier (getToken), completes it and frees the identifier: by    *)
(* itself for a publication, by a goroutine of its own (go c.freeID) for a *)
(* subscription.  The broker answers in any order.                         *)
(*                                                                         *)
(* A request is a number; req, which says whose a packet is, is for the    *)
(* properties only: the client sees type and id.  Room in the channels is  *)
(* the subject of Plumber, why a connection is lost that of Connection.    *)
(***************************************************************************)
EXTENDS Integers, FiniteSets

CONSTANTS
    NIds,         \* identifiers: midMin..midMax-1 (65534 in the code)
    Kinds,        \* kinds of requests the application makes
    Faults,       \* "lose": a connection is lost; "drop": a PUBREL is dropped
    MaxRequests   \* bound: requests

AllKinds == {"SUBSCRIBE", "UNSUBSCRIBE", "PUBLISH1", "PUBLISH2"}

ASSUME MessageIdsAssumption ==
    /\ NIds \in Nat /\ MaxRequests \in Nat
    /\ Kinds \subseteq AllKinds /\ Faults \subseteq {"lose", "drop"}

Ids      == 1..NIds
Requests == 1..MaxRequests

VARIABLES
    kind,       \* kind of each request, "none" before it is made
    waiting,    \* requests in obound and oboundP
    index,      \* messageIds.index: request by identifier, 0 for no entry
    toBroker,   \* packets on their way to the broker
    toClient,   \* packets on their way to alllogic
    completed,  \* times flowComplete was called, by request
    freeing,    \* freeID about to run, in a goroutine of its own or in alllogic
    lost        \* whether a packet was ever lost or dropped

vars == <<kind, waiting, index, toBroker, toClient, completed, freeing, lost>>

OutType == AllKinds \cup {"PUBREL"}
InType  == {"SUBACK", "UNSUBACK", "PUBACK", "PUBREC", "PUBCOMP"}

Answer == [SUBSCRIBE |-> "SUBACK", UNSUBSCRIBE |-> "UNSUBACK", PUBLISH1 |-> "PUBACK",
           PUBLISH2 |-> "PUBREC", PUBREL |-> "PUBCOMP"]

Pkt(t, i, r) == [type |-> t, id |-> i, req |-> r]

Init ==
    /\ kind = [r \in Requests |-> "none"] /\ waiting = {}
    /\ index = [i \in Ids |-> 0]
    /\ toBroker = {} /\ toClient = {}
    /\ completed = [r \in Requests |-> 0] /\ freeing = {} /\ lost = FALSE
-----------------------------------------------------------------------------
\* Publish (QoS 1 or 2), Subscribe or Unsubscribe.
Request(r) ==
    /\ kind[r] = "none"
    /\ \E k \in Kinds : kind' = [kind EXCEPT ![r] = k]
    /\ waiting' = waiting \cup {r}
    /\ UNCHANGED <<index, toBroker, toClient, completed, freeing, lost>>

\* getID: the lowest identifier without an entry, 0 if there is none.
Lowest(i) == index[i] = 0 /\ \A j \in 1..i-1 : index[j] # 0

\* Mutant: getID looks at the first identifier only.
AssignFirst(r, i) ==
    /\ r \in waiting
    /\ waiting' = waiting \ {r}
    /\ toBroker' = toBroker \cup {Pkt(kind[r], i, r)}
    /\ \/ i = 1 /\ i \in Ids /\ index' = [index EXCEPT ![i] = r]
       \/ i = 0 /\ Ids = {} /\ UNCHANGED index
    /\ UNCHANGED <<kind, toClient, completed, freeing, lost>>

\* outgoing takes a request, gets an identifier for it and writes the packet.
Assign(r, i) ==
    /\ r \in waiting
    /\ waiting' = waiting \ {r}
    /\ toBroker' = toBroker \cup {Pkt(kind[r], i, r)}
    /\ \/ i \in Ids /\ Lowest(i) /\ index' = [index EXCEPT ![i] = r]
       \/ i = 0 /\ (\A j \in Ids : index[j] # 0) /\ UNCHANGED index
    /\ UNCHANGED <<kind, toClient, completed, freeing, lost>>

\* alllogic is past its own freeID, if the last answer had one.
LogicReady == \A f \in freeing : f.async

\* Mutant: a PUBREC frees the identifier that its PUBREL and PUBCOMP still use.
LogicRecFrees(p) ==
    /\ LogicReady /\ p \in toClient /\ p.type = "PUBREC"
    /\ toClient' = toClient \ {p}
    /\ toBroker' = toBroker \cup {Pkt("PUBREL", p.id, p.req)}
    /\ index' = [index EXCEPT ![p.id] = 0]
    /\ UNCHANGED <<kind, waiting, completed, freeing, lost>>

\* Mutant: a PUBREC completes the token as well.
LogicRecCompletes(p) ==
    /\ LogicReady /\ p \in toClient /\ p.type = "PUBREC"
    /\ toClient' = toClient \ {p}
    /\ toBroker' = toBroker \cup {Pkt("PUBREL", p.id, p.req)}
    /\ completed' = [completed EXCEPT ![index[p.id]] = @ + 1]
    /\ UNCHANGED <<kind, waiting, index, freeing, lost>>

\* Mutant: no PUBREL is sent.
LogicRecForgets(p) ==
    /\ LogicReady /\ p \in toClient /\ p.type = "PUBREC"
    /\ toClient' = toClient \ {p}
    /\ UNCHANGED <<kind, waiting, index, toBroker, completed, freeing, lost>>

\* PUBREC: the same identifier goes on to PUBREL, which may be dropped.
LogicRec(p) ==
    /\ LogicReady /\ p \in toClient /\ p.type = "PUBREC"
    /\ toClient' = toClient \ {p}
    /\ \/ toBroker' = toBroker \cup {Pkt("PUBREL", p.id, p.req)} /\ UNCHANGED lost
       \/ "drop" \in Faults /\ lost' = TRUE /\ UNCHANGED toBroker
    /\ UNCHANGED <<kind, waiting, index, completed, freeing>>

\* Mutant: the identifier is freed both at once and by a goroutine.
LogicAckFreesTwice(p) ==
    /\ LogicReady /\ p \in toClient /\ p.type # "PUBREC"
    /\ toClient' = toClient \ {p}
    /\ completed' = [completed EXCEPT ![index[p.id]] = @ + 1]
    /\ freeing' = freeing \cup {[id |-> p.id, req |-> index[p.id], async |-> a] : a \in BOOLEAN}
    /\ UNCHANGED <<kind, waiting, index, toBroker, lost>>

\* Mutant: the identifier of a PUBACK is not freed.
LogicAckKeeps(p) ==
    /\ LogicReady /\ p \in toClient /\ p.type # "PUBREC"
    /\ toClient' = toClient \ {p}
    /\ completed' = [completed EXCEPT ![index[p.id]] = @ + 1]
    /\ freeing' = freeing \cup {[id |-> p.id, req |-> index[p.id], async |-> TRUE] :
                                 t \in {p.type} \ {"PUBACK"}}
    /\ UNCHANGED <<kind, waiting, index, toBroker, lost>>

\* The answers that end a request: flowComplete, then freeID.
LogicAck(p) ==
    /\ LogicReady /\ p \in toClient /\ p.type # "PUBREC"
    /\ toClient' = toClient \ {p}
    /\ completed' = [completed EXCEPT ![index[p.id]] = @ + 1]
    /\ freeing' = freeing \cup {[id |-> p.id, req |-> index[p.id],
                                 async |-> p.type \in {"SUBACK", "UNSUBACK"}]}
    /\ UNCHANGED <<kind, waiting, index, toBroker, lost>>

FreeID(f) ==
    /\ f \in freeing
    /\ index' = [index EXCEPT ![f.id] = 0]
    /\ freeing' = freeing \ {f}
    /\ UNCHANGED <<kind, waiting, toBroker, toClient, completed, lost>>
-----------------------------------------------------------------------------
(* The broker and the network (external).  A packet with identifier 0      *)
(* breaks the protocol: the broker closes the connection.                  *)

BrokerAnswers(p) ==
    /\ p \in toBroker /\ p.id # 0
    /\ toBroker' = toBroker \ {p}
    /\ toClient' = toClient \cup {Pkt(Answer[p.type], p.id, p.req)}
    /\ UNCHANGED <<kind, waiting, index, completed, freeing, lost>>

\* A connection ends with all that was on its way, but for what the client's
\* goroutines hold: a PUBREL in oboundP, the packet incoming offers.  reconnect
\* neither sends anything again nor clears the index.
ConnectionEnds ==
    /\ toBroker' \in SUBSET {p \in toBroker : p.type = "PUBREL"}
    /\ toClient' \in {{}} \cup {{p} : p \in toClient}
    /\ lost' = TRUE
    /\ UNCHANGED <<kind, waiting, index, completed, freeing>>

Lose         == "lose" \in Faults /\ toBroker \cup toClient # {} /\ ConnectionEnds
BrokerCloses == (\E p \in toBroker : p.id = 0) /\ ConnectionEnds
-----------------------------------------------------------------------------
Next == \/ \E r \in Requests : Request(r) \/ \E i \in 0..NIds : Assign(r, i)
        \/ \E p \in toClient : LogicRec(p) \/ LogicAck(p)
        \/ \E f \in freeing : FreeID(f)
        \/ \E p \in toBroker : BrokerAnswers(p)
        \/ Lose \/ BrokerCloses

\* outgoing, alllogic and the freeing goroutines run, and the broker answers.
Fairness ==
    /\ WF_vars(\E r \in Requests, i \in 0..NIds : Assign(r, i))
    /\ WF_vars(\E p \in toClient : LogicRec(p) \/ LogicAck(p))
    /\ WF_vars(\E f \in freeing : FreeID(f))
    /\ WF_vars(\E p \in toBroker : BrokerAnswers(p))
    /\ WF_vars(BrokerCloses)

Spec     == Init /\ [][Next]_vars
FairSpec == Spec /\ Fairness
-----------------------------------------------------------------------------
\* Every variable has its type.
TypeOK ==
    /\ kind \in [Requests -> AllKinds \cup {"none"}] /\ waiting \subseteq Requests
    /\ index \in [Ids -> 0..MaxRequests]
    /\ toBroker \subseteq [type : OutType, id : 0..NIds, req : Requests]
    /\ toClient \subseteq [type : InType, id : 0..NIds, req : Requests]
    /\ completed \in [Requests -> Nat]
    /\ freeing \subseteq [id : Ids, req : Requests, async : BOOLEAN]
    /\ lost \in BOOLEAN

\* The identifier of an answer still stands for the request it answers, however
\* late the answer comes and however often identifiers are used again.
AnswerFindsRequest ==
    \A p \in toClient : p.id \in Ids /\ index[p.id] = p.req

\* The token that getToken finds is one the answer can complete.  Otherwise the
\* process panics: the token is nil, alllogic's type assertion fails, or
\* flowComplete closes a closed channel.
AnswerCompletes ==
    \A p \in toClient : p.type # "PUBREC" /\ p.id \in Ids =>
        LET r == index[p.id] IN
        /\ r # 0 /\ completed[r] = 0
        /\ p.type = "SUBACK" => kind[r] = "SUBSCRIBE"
        /\ p.type = "UNSUBACK" => kind[r] = "UNSUBSCRIBE"

\* freeID, which may run long after the token is complete, frees the entry of
\* the request it was started for, and no two of them free the same entry.
FreesOwn ==
    /\ \A f \in freeing : index[f.id] = f.req
    /\ \A f, g \in freeing : f.id = g.id => f = g

\* An identifier with an entry belongs to a request that is on its way or that
\* is about to be freed: none leaks, as long as no packet does.
NoneLeaks ==
    ~lost => \A i \in Ids :
        index[i] # 0 => \E x \in toBroker \cup toClient \cup freeing : x.id = i

\* A request that was made is completed, unless a packet is lost.  (Nothing
\* sends it again then, and its token is left to wait for ever.)
EveryRequestCompletes ==
    \A r \in Requests : (kind[r] # "none") ~> (completed[r] = 1 \/ lost)
=============================================================================
