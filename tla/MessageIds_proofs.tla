--------------------------- MODULE MessageIds_proofs ---------------------------
(***************************************************************************)
(* Proofs about MessageIds, for any number of identifiers and requests and *)
(* whatever is lost: an answer finds the token of its own request, and no  *)
(* token is completed twice.                                               *)
(***************************************************************************)
EXTENDS MessageIds, TLAPS

Packets == toBroker \cup toClient

\* A request that has no identifier yet.
Fresh(r) == kind[r] = "none" \/ r \in waiting

FreshInv ==
    /\ \A r \in waiting : kind[r] # "none"
    /\ \A r \in Requests : Fresh(r) => completed[r] = 0 /\ \A i \in Ids : index[i] # r

\* No request has two identifiers.
IndexInv == \A i, j \in Ids : index[i] = index[j] /\ index[i] # 0 => i = j

\* The packets that a request of kind k can cause.
Suits(t, k) ==
    /\ t \in AllKinds => k = t
    /\ t = "SUBACK" => k = "SUBSCRIBE"
    /\ t = "UNSUBACK" => k = "UNSUBSCRIBE"

\* A packet with an identifier belongs to a request that is not complete, and is
\* the only one with it.
PacketInv ==
    /\ \A p \in toClient : p.id # 0
    /\ \A p \in Packets : p.id # 0 =>
          index[p.id] = p.req /\ completed[p.req] = 0 /\ Suits(p.type, kind[p.req])
    /\ \A p, q \in Packets : p.id = q.id /\ p.id # 0 => p = q

\* What freeID is about to free belongs to a request completed once.
FreeingInv ==
    /\ \A f \in freeing : index[f.id] = f.req /\ completed[f.req] = 1
    /\ \A f, g \in freeing : f.id = g.id => f = g

IInv == TypeOK /\ FreshInv /\ IndexInv /\ PacketInv /\ FreeingInv /\ NoneLeaks

USE MessageIdsAssumption
USE DEF Ids, Requests, AllKinds, OutType, InType, Pkt, vars
-----------------------------------------------------------------------------
LEMMA InitIInv == Init => IInv
<1> SUFFICES ASSUME Init PROVE IInv
  OBVIOUS
<1>1. TypeOK
  <2>1. kind \in [Requests -> AllKinds \cup {"none"}]
    BY DEF Init
  <2>2. completed \in [Requests -> Nat] /\ waiting \subseteq Requests
    BY DEF Init
  <2>3. index \in [Ids -> 0..MaxRequests]
    BY DEF Init
  <2>4. toBroker = {} /\ toClient = {} /\ freeing = {} /\ lost = FALSE
    BY DEF Init
  <2> QED BY <2>1, <2>2, <2>3, <2>4 DEF TypeOK
<1>2. FreshInv /\ IndexInv /\ NoneLeaks
  BY DEF Init, FreshInv, Fresh, IndexInv, NoneLeaks
<1>3. PacketInv /\ FreeingInv
  BY DEF Init, PacketInv, Packets, FreeingInv
<1> QED BY <1>1, <1>2, <1>3 DEF IInv

LEMMA PacketFacts ==
  ASSUME TypeOK, NEW p \in Packets
  PROVE  p.req \in Requests /\ p.id \in 0..NIds /\ (p.id # 0 => p.id \in Ids)
<1>1. p.req \in Requests /\ p.id \in 0..NIds
  BY DEF TypeOK, Packets
<1> QED BY <1>1

\* Request: the request was fresh and still is.
LEMMA RequestIInv ==
  ASSUME IInv, NEW r \in Requests, Request(r)
  PROVE  IInv'
<1>1. TypeOK'
  BY DEF IInv, TypeOK, Request
<1>2. FreshInv'
  BY DEF IInv, TypeOK, FreshInv, Fresh, Request
<1>3. PacketInv'
  <2>1. \A p \in Packets : p.id # 0 => p.req # r
    BY PacketFacts DEF IInv, PacketInv, FreshInv, Fresh, Request
  <2>2. \A p \in Packets : p.id # 0 => kind'[p.req] = kind[p.req]
    BY <2>1, PacketFacts DEF IInv, TypeOK, Request
  <2> QED BY <2>2 DEF IInv, PacketInv, Packets, Request
<1>4. IndexInv' /\ FreeingInv' /\ NoneLeaks'
  BY DEF IInv, IndexInv, FreeingInv, NoneLeaks, Request
<1> QED BY <1>1, <1>2, <1>3, <1>4 DEF IInv

\* Assign: a free identifier stands for no packet, and the request had none.
LEMMA AssignIInv ==
  ASSUME IInv, NEW r \in Requests, NEW i \in 0..NIds, Assign(r, i)
  PROVE  IInv'
<1> DEFINE n == Pkt(kind[r], i, r)
<1>1. /\ r \in waiting /\ kind[r] \in AllKinds /\ completed[r] = 0
      /\ \A j \in Ids : index[j] # r
  BY DEF IInv, TypeOK, FreshInv, Fresh, Assign
<1>2. /\ toBroker' = toBroker \cup {n} /\ waiting' = waiting \ {r}
      /\ UNCHANGED <<kind, toClient, completed, freeing, lost>>
  BY DEF Assign
<1>3. \/ i \in Ids /\ index[i] = 0 /\ index' = [index EXCEPT ![i] = r]
      \/ i = 0 /\ index' = index
  BY DEF Assign, Lowest
<1>4. TypeOK'
  <2>1. n \in [type : OutType, id : 0..NIds, req : Requests]
    BY <1>1
  <2>2. index' \in [Ids -> 0..MaxRequests]
    BY <1>3 DEF IInv, TypeOK
  <2> QED BY <1>2, <2>1, <2>2 DEF IInv, TypeOK
<1>5. FreshInv'
  BY <1>1, <1>2, <1>3 DEF IInv, TypeOK, FreshInv, Fresh
<1>6. IndexInv'
  <2>1. CASE index' = index
    BY <2>1 DEF IInv, IndexInv
  <2>2. CASE i \in Ids /\ index' = [index EXCEPT ![i] = r]
    <3>1. \A j \in Ids : index'[j] = (IF j = i THEN r ELSE index[j]) /\ index[j] # r
      BY <1>1, <2>2 DEF IInv, TypeOK
    <3> QED BY <3>1 DEF IInv, IndexInv
  <2> QED BY <1>3, <2>1, <2>2
<1>7. \A p \in Packets : p.id # 0 => p.id # i /\ index'[p.id] = index[p.id]
  <2>1. SUFFICES ASSUME NEW p \in Packets, p.id # 0 PROVE p.id # i /\ index'[p.id] = index[p.id]
    OBVIOUS
  <2>2. index[p.id] = p.req /\ p.req \in Requests
    BY <2>1 DEF IInv, TypeOK, PacketInv, Packets
  <2>3. p.id \in Ids
    BY <2>1, MessageIdsAssumption DEF IInv, TypeOK, Packets, Ids
  <2>4. index \in [Ids -> 0..MaxRequests]
    BY DEF IInv, TypeOK
  <2>5. p.id # i
    BY <1>3, <2>1, <2>2 DEF Requests
  <2> QED BY <1>3, <2>3, <2>4, <2>5
<1>8. PacketInv'
  <2>1. n.id = i /\ n.req = r /\ n.type = kind[r]
    OBVIOUS
  <2>2. \A p \in toClient' : p.id # 0
    BY <1>2 DEF IInv, PacketInv
  <2>3. i # 0 => index'[i] = r /\ completed'[r] = 0 /\ Suits(kind[r], kind'[r])
    BY <1>1, <1>2, <1>3 DEF IInv, TypeOK, Suits
  <2>4. ASSUME NEW p \in Packets, p.id # 0
        PROVE  index'[p.id] = p.req /\ completed'[p.req] = 0 /\ Suits(p.type, kind'[p.req])
    BY <2>4, <1>2, <1>7 DEF IInv, PacketInv
  <2>5. Packets' = Packets \cup {n}
    BY <1>2 DEF Packets
  <2>6. \A p, q \in Packets' : p.id = q.id /\ p.id # 0 => p = q
    BY <1>7, <2>1, <2>5 DEF IInv, PacketInv
  <2> QED BY <2>1, <2>2, <2>3, <2>4, <2>5, <2>6 DEF PacketInv
<1>9. FreeingInv'
  BY <1>2, <1>3 DEF IInv, TypeOK, FreeingInv
<1>10. NoneLeaks'
  <2>1. n.id = i
    OBVIOUS
  <2> QED BY <1>2, <1>3, <2>1 DEF IInv, TypeOK, NoneLeaks
<1> QED BY <1>4, <1>5, <1>6, <1>8, <1>9, <1>10 DEF IInv

\* PUBREC: its PUBREL has the same identifier and request.
LEMMA LogicRecIInv ==
  ASSUME IInv, NEW p \in toClient, LogicRec(p)
  PROVE  IInv'
<1> DEFINE n == Pkt("PUBREL", p.id, p.req)
<1>1. /\ p.id \in 0..NIds /\ p.req \in Requests
      /\ toClient' = toClient \ {p}
      /\ \/ toBroker' = toBroker \cup {n} /\ lost' = lost
         \/ toBroker' = toBroker /\ lost'
      /\ UNCHANGED <<kind, waiting, index, completed, freeing>>
  BY DEF IInv, TypeOK, LogicRec
<1>2. n.id = p.id /\ n.req = p.req /\ n.type = "PUBREL"
  OBVIOUS
<1>3. TypeOK'
  <2>1. n \in [type : OutType, id : 0..NIds, req : Requests]
    BY <1>1
  <2>2. toBroker' \subseteq [type : OutType, id : 0..NIds, req : Requests]
    BY <1>1, <2>1 DEF IInv, TypeOK
  <2>3. lost' \in BOOLEAN
    BY <1>1 DEF IInv, TypeOK
  <2> QED BY <1>1, <2>2, <2>3 DEF IInv, TypeOK
<1>4. FreshInv' /\ IndexInv' /\ FreeingInv'
  BY <1>1 DEF IInv, FreshInv, Fresh, IndexInv, FreeingInv
<1>5. PacketInv'
  <2>1. Packets' \subseteq (Packets \ {p}) \cup {n}
    <3>1. p \notin toBroker
      BY DEF IInv, TypeOK, LogicRec
    <3> QED BY <1>1, <3>1 DEF Packets
  <2>2. \A q \in toClient' : q.id # 0
    BY <1>1 DEF IInv, PacketInv
  <2>3. ASSUME NEW q \in Packets, q.id # 0
        PROVE  index'[q.id] = q.req /\ completed'[q.req] = 0 /\ Suits(q.type, kind'[q.req])
    BY <2>3, <1>1 DEF IInv, PacketInv
  <2>4. index'[p.id] = p.req /\ completed'[p.req] = 0 /\ Suits("PUBREL", kind'[p.req])
    BY <2>3 DEF IInv, PacketInv, Packets, Suits
  <2>5. \A q \in Packets \ {p} : q.id = p.id => q.id = 0
    BY DEF IInv, PacketInv, Packets
  <2>6. \A q, s \in Packets' : q.id = s.id /\ q.id # 0 => q = s
    BY <1>2, <2>1, <2>5 DEF IInv, PacketInv
  <2> QED BY <1>2, <2>1, <2>2, <2>3, <2>4, <2>6 DEF PacketInv
<1>6. NoneLeaks'
  <2> SUFFICES ASSUME ~lost', NEW i \in Ids, index'[i] # 0
               PROVE  \E x \in toBroker' \cup toClient' \cup freeing' : x.id = i
    BY DEF NoneLeaks
  <2>1. ~lost /\ toBroker' = toBroker \cup {n} /\ index[i] # 0
    BY <1>1
  <2>2. PICK x \in toBroker \cup toClient \cup freeing : x.id = i
    BY <2>1 DEF IInv, NoneLeaks
  <2>3. CASE x = p
    BY <1>2, <2>1, <2>2, <2>3
  <2>4. CASE x # p
    BY <1>1, <2>1, <2>2, <2>4
  <2> QED BY <2>3, <2>4
<1> QED BY <1>3, <1>4, <1>5, <1>6 DEF IInv

\* The last answer: no other packet and no freeID has its identifier.
LEMMA LogicAckIInv ==
  ASSUME IInv, NEW p \in toClient, LogicAck(p)
  PROVE  IInv'
<1> DEFINE r == p.req
<1> DEFINE f == [id |-> p.id, req |-> r, async |-> p.type \in {"SUBACK", "UNSUBACK"}]
<1>1. p.id \in Ids /\ r \in Requests /\ index[p.id] = r /\ completed[r] = 0
  BY DEF IInv, TypeOK, PacketInv, Packets
<1>2. /\ toClient' = toClient \ {p}
      /\ completed' = [completed EXCEPT ![r] = 1]
      /\ freeing' = freeing \cup {f}
      /\ UNCHANGED <<kind, waiting, index, toBroker, lost>>
  BY <1>1 DEF IInv, TypeOK, LogicAck
<1>3. TypeOK'
  <2>1. f \in [id : Ids, req : Requests, async : BOOLEAN]
    BY <1>1
  <2>2. completed' \in [Requests -> Nat]
    BY <1>2 DEF IInv, TypeOK
  <2> QED BY <1>2, <2>1, <2>2 DEF IInv, TypeOK
<1>4. FreshInv' /\ IndexInv'
  BY <1>1, <1>2 DEF IInv, TypeOK, FreshInv, Fresh, IndexInv
<1>5. \A q \in Packets \ {p} : q.id # 0 => q.id # p.id /\ q.req # r
  <2> SUFFICES ASSUME NEW q \in Packets, q # p, q.id # 0
               PROVE  q.id # p.id /\ q.req # r
    OBVIOUS
  <2>1. q.id \in Ids /\ index[q.id] = q.req
    BY PacketFacts DEF IInv, PacketInv
  <2>2. q.id # p.id
    BY DEF IInv, PacketInv, Packets
  <2> QED BY <1>1, <2>1, <2>2 DEF IInv, IndexInv
<1>6. PacketInv'
  <2>1. Packets' = Packets \ {p}
    <3>1. p \notin toBroker
      BY DEF IInv, TypeOK
    <3> QED BY <1>2, <3>1 DEF Packets
  <2>2. \A q \in Packets \ {p} : q.id # 0 => completed'[q.req] = completed[q.req]
    BY <1>2, <1>5 DEF IInv, TypeOK, Packets
  <2> QED BY <1>2, <2>1, <2>2 DEF IInv, PacketInv
<1>7. FreeingInv'
  <2>1. \A g \in freeing : g.req # r /\ g.id # p.id /\ g.req \in Requests
    BY <1>1 DEF IInv, TypeOK, FreeingInv
  <2>2. f.id = p.id /\ f.req = r
    OBVIOUS
  <2>3. completed'[r] = 1 /\ \A s \in Requests \ {r} : completed'[s] = completed[s]
    BY <1>1, <1>2 DEF IInv, TypeOK
  <2> QED BY <1>1, <1>2, <2>1, <2>2, <2>3 DEF IInv, FreeingInv
<1>8. NoneLeaks'
  <2>1. f.id = p.id
    OBVIOUS
  <2> QED BY <1>2, <2>1 DEF IInv, NoneLeaks
<1> QED BY <1>3, <1>4, <1>6, <1>7, <1>8 DEF IInv

\* freeID: a packet with the identifier would be of a request not complete.
LEMMA FreeIDIInv ==
  ASSUME IInv, NEW f \in freeing, FreeID(f)
  PROVE  IInv'
<1>1. /\ f.id \in Ids /\ f.req \in Requests
      /\ index[f.id] = f.req /\ completed[f.req] = 1
  BY DEF IInv, TypeOK, FreeingInv
<1>2. /\ index' = [index EXCEPT ![f.id] = 0]
      /\ freeing' = freeing \ {f}
      /\ UNCHANGED <<kind, waiting, toBroker, toClient, completed, lost>>
  BY DEF FreeID
<1>3. TypeOK'
  <2>1. index' \in [Ids -> 0..MaxRequests]
    BY <1>1, <1>2, MessageIdsAssumption DEF IInv, TypeOK
  <2> QED BY <1>2, <2>1 DEF IInv, TypeOK
<1>4. FreshInv' /\ IndexInv'
  <2>1. \A j \in Ids : index'[j] = index[j] \/ index'[j] = 0
    BY <1>1, <1>2 DEF IInv, TypeOK
  <2>2. FreshInv'
    BY <1>2, <2>1 DEF IInv, TypeOK, FreshInv, Fresh, Requests
  <2>3. IndexInv'
    BY <2>1 DEF IInv, IndexInv
  <2> QED BY <2>2, <2>3
<1>5. PacketInv'
  <2>1. \A p \in Packets : p.id # 0 => index'[p.id] = index[p.id]
    BY <1>1, <1>2 DEF IInv, TypeOK, PacketInv, Packets
  <2> QED BY <1>2, <2>1 DEF IInv, PacketInv, Packets
<1>6. FreeingInv'
  BY <1>1, <1>2 DEF IInv, TypeOK, FreeingInv
<1>7. NoneLeaks'
  BY <1>1, <1>2 DEF IInv, TypeOK, NoneLeaks
<1> QED BY <1>3, <1>4, <1>5, <1>6, <1>7 DEF IInv

\* The broker's answer takes the place of the packet it answers.
LEMMA BrokerAnswersIInv ==
  ASSUME IInv, NEW p \in toBroker, BrokerAnswers(p)
  PROVE  IInv'
<1> DEFINE n == Pkt(Answer[p.type], p.id, p.req)
<1>1. /\ p.id \in Ids /\ p.req \in Requests /\ p.type \in OutType
      /\ toBroker' = toBroker \ {p} /\ toClient' = toClient \cup {n}
      /\ UNCHANGED <<kind, waiting, index, completed, freeing, lost>>
  BY DEF IInv, TypeOK, BrokerAnswers
<1>2. n.id = p.id /\ n.req = p.req /\ n.type = Answer[p.type]
  OBVIOUS
<1>3. Answer[p.type] \in InType
  BY <1>1 DEF Answer
<1>4. TypeOK'
  BY <1>1, <1>3 DEF IInv, TypeOK
<1>5. FreshInv' /\ IndexInv' /\ FreeingInv'
  BY <1>1 DEF IInv, FreshInv, Fresh, IndexInv, FreeingInv
<1>6. PacketInv'
  <2>1. Packets' = (Packets \ {p}) \cup {n}
    <3>1. p \notin toClient
      BY DEF IInv, TypeOK
    <3> QED BY <1>1, <3>1 DEF Packets
  <2>2. \A q \in toClient' : q.id # 0
    BY <1>1, <1>2 DEF IInv, PacketInv
  <2>3. ASSUME NEW q \in Packets, q.id # 0
        PROVE  index'[q.id] = q.req /\ completed'[q.req] = 0 /\ Suits(q.type, kind'[q.req])
    BY <2>3, <1>1 DEF IInv, PacketInv
  <2>4. index'[p.id] = p.req /\ completed'[p.req] = 0 /\ Suits(p.type, kind'[p.req])
    BY <1>1, <2>3 DEF Packets
  <2>5. Suits(Answer[p.type], kind'[p.req])
    BY <1>1, <2>4 DEF Suits, Answer
  <2>6. \A q \in Packets \ {p} : q.id = p.id => q.id = 0
    BY DEF IInv, PacketInv, Packets
  <2>7. \A q, s \in Packets' : q.id = s.id /\ q.id # 0 => q = s
    BY <1>2, <2>1, <2>6 DEF IInv, PacketInv
  <2> QED BY <1>2, <2>1, <2>2, <2>3, <2>4, <2>5, <2>7 DEF PacketInv
<1>7. NoneLeaks'
  BY <1>1, <1>2 DEF IInv, NoneLeaks
<1> QED BY <1>4, <1>5, <1>6, <1>7 DEF IInv

LEMMA ConnectionEndsIInv == IInv /\ ConnectionEnds => IInv'
<1> SUFFICES ASSUME IInv, ConnectionEnds PROVE IInv'
  OBVIOUS
<1>1. toBroker' \subseteq toBroker /\ toClient' \subseteq toClient
  BY DEF ConnectionEnds
<1>2. lost' /\ UNCHANGED <<kind, waiting, index, completed, freeing>>
  BY DEF ConnectionEnds
<1>3. TypeOK'
  BY <1>1, <1>2 DEF IInv, TypeOK, ConnectionEnds
<1>4. PacketInv'
  BY <1>1, <1>2 DEF IInv, PacketInv, Packets
<1> QED BY <1>2, <1>3, <1>4 DEF IInv, FreshInv, Fresh, IndexInv, FreeingInv, NoneLeaks

LEMMA StutterIInv == IInv /\ UNCHANGED vars => IInv'
<1> SUFFICES ASSUME IInv, UNCHANGED vars PROVE IInv'
  OBVIOUS
<1>1. UNCHANGED <<kind, waiting, index, toBroker, toClient, completed, freeing, lost>>
  BY DEF vars
<1>2. TypeOK'
  BY <1>1 DEF IInv, TypeOK
<1>3. FreshInv' /\ IndexInv'
  BY <1>1 DEF IInv, FreshInv, Fresh, IndexInv
<1>4. PacketInv'
  BY <1>1 DEF IInv, PacketInv, Packets
<1>5. FreeingInv' /\ NoneLeaks'
  BY <1>1 DEF IInv, FreeingInv, NoneLeaks
<1> QED BY <1>2, <1>3, <1>4, <1>5 DEF IInv
-----------------------------------------------------------------------------
\* The invariant holds in every state, whatever is lost or dropped.
THEOREM Invariance == Spec => []IInv
<1>1. ASSUME IInv, [Next]_vars PROVE IInv'
  <2>1. CASE \E r \in Requests : Request(r) \/ \E i \in 0..NIds : Assign(r, i)
    BY <1>1, <2>1, RequestIInv, AssignIInv
  <2>2. CASE \E p \in toClient : LogicRec(p) \/ LogicAck(p)
    BY <1>1, <2>2, LogicRecIInv, LogicAckIInv
  <2>3. CASE \E f \in freeing : FreeID(f)
    BY <1>1, <2>3, FreeIDIInv
  <2>4. CASE \E p \in toBroker : BrokerAnswers(p)
    BY <1>1, <2>4, BrokerAnswersIInv
  <2>5. CASE Lose \/ BrokerCloses
    BY <1>1, <2>5, ConnectionEndsIInv DEF Lose, BrokerCloses
  <2>6. CASE UNCHANGED vars
    BY <1>1, <2>6, StutterIInv
  <2> QED BY <1>1, <2>1, <2>2, <2>3, <2>4, <2>5, <2>6 DEF Next
<1> QED BY <1>1, InitIInv, PTL DEF Spec

\* Every variable has its type: getID and freeID stay within the identifiers.
THEOREM TypeCorrect == Spec => []TypeOK
<1>1. IInv => TypeOK
  BY DEF IInv
<1> QED BY <1>1, Invariance, PTL

\* The identifier of an answer stands for the request it answers, for any number
\* of identifiers and requests: getToken never returns another flow's token.
THEOREM AnswersFindRequests == Spec => []AnswerFindsRequest
<1>1. IInv => AnswerFindsRequest
  BY DEF IInv, TypeOK, PacketInv, Packets, AnswerFindsRequest
<1> QED BY <1>1, Invariance, PTL

\* alllogic never meets a nil token, a token of the wrong kind or a token that is
\* complete, so none of its calls of flowComplete panics.
THEOREM AnswersComplete == Spec => []AnswerCompletes
<1>1. IInv => AnswerCompletes
  BY DEF IInv, TypeOK, PacketInv, Packets, Suits, AnswerCompletes
<1> QED BY <1>1, Invariance, PTL

\* freeID, however late, frees the entry of the request it was started for.
THEOREM OwnFreed == Spec => []FreesOwn
<1>1. IInv => FreesOwn
  BY DEF IInv, FreeingInv, FreesOwn
<1> QED BY <1>1, Invariance, PTL

\* As long as nothing is lost, no identifier leaks.
THEOREM NothingLeaks == Spec => []NoneLeaks
<1>1. IInv => NoneLeaks
  BY DEF IInv
<1> QED BY <1>1, Invariance, PTL
=============================================================================
