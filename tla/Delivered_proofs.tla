-------------------------- MODULE Delivered_proofs --------------------------
(***************************************************************************)
(* Proofs about what Plumber promises of single messages and publications, *)
(* for every number of topics, messages and lines and every capacity: in a *)
(* clean session no message is lost, what is confirmed to the broker is    *)
(* past alllogic and the prompt counts what is stored; in any session a    *)
(* publication that returned has reached the broker.                       *)
(*                                                                         *)
(* And Plumber implements Ingest, for every kind of session: what leaves   *)
(* the pipe leaves it in order, one message at a time, and what the client *)
(* confirms is at most a full channel and the router's message ahead of    *)
(* that.                                                                   *)
(***************************************************************************)
EXTENDS Plumber_proofs, FiniteSetTheorems

-----------------------------------------------------------------------------
(* Where a packet is, and how it gets there.                               *)

Has(s, x) == \E i \in DOMAIN s : s[i] = x

OutFlight(p) == Has(oboundP, p) \/ Has(toBroker, p)

InFlight(p) == Has(toClient, p) \/ Has(ibound, p)

LEMMA HasAppend ==
  \A S, x : \A s \in Seq(S), e \in S : Has(Append(s, e), x) <=> Has(s, x) \/ x = e
<1> SUFFICES ASSUME NEW S, NEW x, NEW s \in Seq(S), NEW e \in S
             PROVE  Has(Append(s, e), x) <=> Has(s, x) \/ x = e
  OBVIOUS
<1>1. /\ Len(s) \in Nat /\ DOMAIN s = 1..Len(s) /\ DOMAIN Append(s, e) = 1..Len(s) + 1
      /\ \A i \in 1..Len(s) : Append(s, e)[i] = s[i]
      /\ Append(s, e)[Len(s) + 1] = e
  OBVIOUS
<1> QED
  BY <1>1 DEF Has

LEMMA HasTail ==
  \A S, x : \A s \in Seq(S) : s # <<>> => (Has(s, x) <=> x = Head(s) \/ Has(Tail(s), x))
<1> SUFFICES ASSUME NEW S, NEW x, NEW s \in Seq(S), s # <<>>
             PROVE  Has(s, x) <=> x = Head(s) \/ Has(Tail(s), x)
  OBVIOUS
<1>1. /\ Len(s) \in Nat \ {0} /\ DOMAIN s = 1..Len(s) /\ DOMAIN Tail(s) = 1..Len(s) - 1
      /\ \A i \in 1..Len(s) - 1 : Tail(s)[i] = s[i + 1]
      /\ Head(s) = s[1]
  BY HeadTailProperties
<1>2. Has(s, x) => x = Head(s) \/ Has(Tail(s), x)
  <2> SUFFICES ASSUME NEW i \in 1..Len(s), s[i] = x, i # 1 PROVE Has(Tail(s), x)
    BY <1>1 DEF Has
  <2>1. i - 1 \in 1..Len(s) - 1 /\ Tail(s)[i - 1] = s[i]
    BY <1>1
  <2> QED
    BY <1>1, <2>1 DEF Has
<1>3. Has(Tail(s), x) => Has(s, x)
  <2> SUFFICES ASSUME NEW i \in 1..Len(s) - 1, Tail(s)[i] = x PROVE Has(s, x)
    BY <1>1 DEF Has
  <2>1. i + 1 \in 1..Len(s) /\ s[i + 1] = x
    BY <1>1
  <2> QED
    BY <1>1, <2>1 DEF Has
<1> QED
  BY <1>1, <1>2, <1>3 DEF Has

LEMMA HasOne ==
  ASSUME ReceiveTypeOK
  PROVE  \A x : Has(ibound, x) <=> ibound # <<>> /\ ibound[1] = x
<1>1. ibound = <<>> \/ (DOMAIN ibound = 1..1)
  <2>1. ibound \in Seq(InPkt) /\ Len(ibound) <= 1
    BY DEF ReceiveTypeOK
  <2>2. DOMAIN ibound = 1..Len(ibound) /\ (ibound # <<>> => Len(ibound) \in Nat \ {0})
    BY <2>1, EmptySeq
  <2> QED
    BY <2>1, <2>2
<1> QED
  BY <1>1 DEF Has

\* The actions that change alllogic.
LEMMA LogicChanges ==
  [Next]_vars => LogicForward \/ LogicPutPub \/ LogicPutAck \/ LogicTimeout \/ UNCHANGED logic
  BY ReceiveFrame DEF Incoming, LogicSuback, LogicPubAcked, BrokerSubscribe, BrokerPublish,
                      BrokerPubrel, BrokerAcked, BrokerSends

\* A packet on its way to the broker was there before, or one of three actions
\* put it there.
LEMMA OutMoves ==
  ASSUME TypeInv, [Next]_vars, NEW p, OutFlight(p)'
  PROVE  \/ OutFlight(p)
         \/ Subscribe /\ p = Pkt("SUBSCRIBE", main.sub)
         \/ OutgoingPublish /\ p = Pkt("PUBLISH", Head(obound))
         \/ LogicPutAck /\ p = Pkt(AckType, logic.id)
<1>0. oboundP \in Seq(OutPkt) /\ toBroker \in Seq(OutPkt) /\ obound \in Seq(Nat)
      /\ logic.id \in Nat /\ main.sub \in Nat
  BY NSubsNat DEF TypeInv, TypeOK, SendTypeOK, ReceiveTypeOK, MainTypeOK
<1>1. CASE Subscribe
  <2>1. Pkt("SUBSCRIBE", main.sub) \in OutPkt
    BY <1>0, OutPktOK DEF OutType
  <2>2. oboundP' = Append(oboundP, Pkt("SUBSCRIBE", main.sub)) /\ UNCHANGED toBroker
    BY <1>1 DEF Subscribe
  <2> QED
    BY <1>0, <1>1, <2>1, <2>2, HasAppend DEF OutFlight
<1>2. CASE OutgoingPublish
  <2>1. Pkt("PUBLISH", Head(obound)) \in OutPkt
    BY <1>0, <1>2, OutPktOK, HeadTailProperties DEF OutType, OutgoingPublish
  <2>2. toBroker' = Append(toBroker, Pkt("PUBLISH", Head(obound))) /\ UNCHANGED oboundP
    BY <1>2 DEF OutgoingPublish
  <2> QED
    BY <1>0, <1>2, <2>1, <2>2, HasAppend DEF OutFlight
<1>3. CASE OutgoingPriority
  <2>1. oboundP # <<>> /\ oboundP' = Tail(oboundP) /\ toBroker' = Append(toBroker, Head(oboundP))
    BY <1>3 DEF OutgoingPriority
  <2>2. Head(oboundP) \in OutPkt
    BY <1>0, <2>1, HeadTailProperties
  <2>3. Has(oboundP', p) => Has(oboundP, p)
    BY <1>0, <2>1, HasTail
  <2>4. Has(toBroker', p) => Has(toBroker, p) \/ p = Head(oboundP)
    BY <1>0, <2>1, <2>2, HasAppend
  <2>5. Has(oboundP, Head(oboundP))
    BY <1>0, <2>1, HasTail
  <2> QED
    BY <2>3, <2>4, <2>5 DEF OutFlight
<1>4. CASE LogicPutAck
  <2>1. Pkt(AckType, logic.id) \in OutPkt
    BY <1>0, OutPktOK DEF OutType, AckType
  <2>2. oboundP' = Append(oboundP, Pkt(AckType, logic.id)) /\ UNCHANGED toBroker
    BY <1>4 DEF LogicPutAck
  <2> QED
    BY <1>0, <1>4, <2>1, <2>2, HasAppend DEF OutFlight
<1>5. CASE BrokerSubscribe \/ BrokerPublish \/ BrokerPubrel \/ BrokerAcked
  <2>1. toBroker # <<>> /\ toBroker' = Tail(toBroker) /\ UNCHANGED oboundP
    BY <1>5 DEF BrokerSubscribe, BrokerPublish, BrokerPubrel, BrokerAcked, BrokerTakes, outVars
  <2> QED
    BY <1>0, <2>1, HasTail DEF OutFlight
<1>6. CASE Publish \/ UNCHANGED <<outVars, toBroker>>
  BY <1>6 DEF OutFlight, Publish, outVars
<1> QED
  BY SendFrame, <1>1, <1>2, <1>3, <1>4, <1>5, <1>6

\* A packet on its way from the broker was there before, or the broker sent it.
LEMMA InMoves ==
  ASSUME TypeInv, [Next]_vars, NEW p, InFlight(p)'
  PROVE  \/ InFlight(p)
         \/ BrokerSubscribe /\ p = Pkt("SUBACK", Head(toBroker).id)
         \/ BrokerPublish /\ \E t \in {"PUBACK", "PUBREC"} : p = Pkt(t, Head(toBroker).id)
         \/ BrokerPubrel /\ p = Pkt("PUBCOMP", Head(toBroker).id)
         \/ BrokerAcked /\ Head(toBroker).type = "PUBREC" /\ p = Pkt("PUBREL", Head(toBroker).id)
         \/ BrokerSends /\ p = Pkt("PUBLISH", Len(msgs) + 1)
<1>0. toClient \in Seq(InPkt) /\ ibound \in Seq(InPkt) /\ SendTypeOK /\ ReceiveTypeOK
      /\ Len(msgs) + 1 \in Nat
  BY DEF TypeInv, TypeOK, ReceiveTypeOK, PeerTypeOK
<1>1. CASE Incoming
  <2>1. /\ toClient # <<>> /\ toClient' = Tail(toClient)
        /\ ibound' = <<Head(toClient)>>
    BY <1>1 DEF Incoming
  <2>2. Has(ibound', p) => p = Head(toClient)
    BY <2>1 DEF Has
  <2> QED
    BY <1>0, <2>1, <2>2, HasTail DEF InFlight
<1>2. CASE LogicForward \/ LogicSuback \/ LogicPubAcked
  <2>1. ibound' = <<>> /\ UNCHANGED toClient
    BY <1>2 DEF LogicForward, LogicSuback, LogicPubAcked, LogicTakes
  <2> QED
    BY <2>1 DEF InFlight, Has
<1>3. CASE LogicPutPub \/ LogicPutAck \/ LogicTimeout
  BY <1>3 DEF LogicPutPub, LogicPutAck, LogicTimeout, InFlight
<1>4. CASE BrokerSubscribe
  <2>1. Pkt("SUBACK", Head(toBroker).id) \in InPkt
    BY <1>0, <1>4, BrokerTakesOK, InPktOK DEF BrokerSubscribe, InType
  <2> QED
    BY <1>0, <1>4, <2>1, HasAppend DEF InFlight, BrokerSubscribe
<1>5. CASE BrokerPublish
  <2>1. \A t \in {"PUBACK", "PUBREC"} : Pkt(t, Head(toBroker).id) \in InPkt
    BY <1>0, <1>5, BrokerTakesOK, InPktOK DEF BrokerPublish, InType
  <2>2. UNCHANGED ibound
    BY <1>5 DEF BrokerPublish
  <2>3. \/ UNCHANGED toClient
        \/ toClient' = Append(toClient, Pkt("PUBACK", Head(toBroker).id))
        \/ toClient' = Append(toClient, Pkt("PUBREC", Head(toBroker).id))
    BY <1>5, PlumberAssumption DEF BrokerPublish
  <2>4. Has(toClient', p) => \/ Has(toClient, p)
                            \/ p = Pkt("PUBACK", Head(toBroker).id)
                            \/ p = Pkt("PUBREC", Head(toBroker).id)
    <3>1. \A t \in {"PUBACK", "PUBREC"} :
              Has(Append(toClient, Pkt(t, Head(toBroker).id)), p)
                  => Has(toClient, p) \/ p = Pkt(t, Head(toBroker).id)
      BY <1>0, <2>1, HasAppend
    <3> QED
      BY <2>3, <3>1
  <2> QED
    BY <1>5, <2>2, <2>4 DEF InFlight
<1>6. CASE BrokerPubrel
  <2>1. Pkt("PUBCOMP", Head(toBroker).id) \in InPkt
    BY <1>0, <1>6, BrokerTakesOK, InPktOK DEF BrokerPubrel, InType
  <2> QED
    BY <1>0, <1>6, <2>1, HasAppend DEF InFlight, BrokerPubrel
<1>7. CASE BrokerAcked
  <2>1. Pkt("PUBREL", Head(toBroker).id) \in InPkt
    BY <1>0, <1>7, BrokerTakesOK, InPktOK DEF BrokerAcked, InType
  <2>2. UNCHANGED ibound
    BY <1>7 DEF BrokerAcked
  <2>3. \/ UNCHANGED toClient
        \/ /\ toClient' = Append(toClient, Pkt("PUBREL", Head(toBroker).id))
           /\ Head(toBroker).type = "PUBREC"
    BY <1>7 DEF BrokerAcked, BrokerTakes
  <2>4. Has(toClient', p) => \/ Has(toClient, p)
                            \/ /\ p = Pkt("PUBREL", Head(toBroker).id)
                               /\ Head(toBroker).type = "PUBREC"
    <3>1. Has(Append(toClient, Pkt("PUBREL", Head(toBroker).id)), p)
              => Has(toClient, p) \/ p = Pkt("PUBREL", Head(toBroker).id)
      BY <1>0, <2>1, HasAppend
    <3> QED
      BY <2>3, <3>1
  <2> QED
    BY <1>7, <2>2, <2>4 DEF InFlight
<1>8. CASE BrokerSends
  <2>1. Pkt("PUBLISH", Len(msgs) + 1) \in InPkt
    BY <1>0, InPktOK DEF InType
  <2> QED
    BY <1>0, <1>8, <2>1, HasAppend DEF InFlight, BrokerSends
<1>9. CASE UNCHANGED <<toClient, ibound, logic>>
  BY <1>9 DEF InFlight
<1> QED
  BY ReceiveFrame, <1>1, <1>2, <1>3, <1>4, <1>5, <1>6, <1>7, <1>8, <1>9

\* What the broker takes was on its way to it, what alllogic takes on its way
\* from it.
LEMMA TakenByBroker ==
  ASSUME TypeInv, NEW t, BrokerTakes(t)
  PROVE  OutFlight(Pkt(t, Head(toBroker).id)) /\ Head(toBroker).id \in Nat
<1>1. toBroker \in Seq(OutPkt) /\ toBroker # <<>> /\ Head(toBroker).type = t
  BY DEF TypeInv, TypeOK, SendTypeOK, BrokerTakes
<1>2. Head(toBroker) \in OutPkt
  BY <1>1, HeadTailProperties
<1>3. Head(toBroker) = Pkt(t, Head(toBroker).id) /\ Head(toBroker).id \in Nat
  BY <1>1, <1>2 DEF OutPkt, Pkt
<1>4. Has(toBroker, Head(toBroker))
  BY <1>1, HasTail
<1> QED
  BY <1>3, <1>4 DEF OutFlight

LEMMA TakenByLogic ==
  ASSUME TypeInv, NEW t, LogicTakes(t)
  PROVE  InFlight(Pkt(t, ibound[1].id)) /\ ibound[1].id \in Nat
<1>1. ibound[1] \in InPkt /\ ibound[1].id \in Nat /\ ibound # <<>> /\ ibound[1].type = t
  BY LogicTakesOK DEF TypeInv, TypeOK, LogicTakes
<1>2. ibound[1] = Pkt(t, ibound[1].id)
  BY <1>1 DEF InPkt, Pkt
<1>3. Has(ibound, ibound[1])
  BY <1>1, HasOne DEF TypeInv, TypeOK
<1> QED
  BY <1>1, <1>2, <1>3 DEF InFlight

LEMMA PktParts ==
  \A t, i, u, j : Pkt(t, i) = Pkt(u, j) => t = u /\ i = j
  BY DEF Pkt

-----------------------------------------------------------------------------
(* Publications: whatever speaks of publication k on its way back, or in   *)
(* the second half of an exchange of QoS 2, says that the broker has it.   *)

Answered(k) ==
    \/ \E t \in {"PUBACK", "PUBREC", "PUBCOMP"} : InFlight(Pkt(t, k))
    \/ logic.pc = "putRel" /\ logic.id = k
    \/ OutFlight(Pkt("PUBREL", k))

TokenInv ==
    /\ \A k \in Nat : Answered(k) => k \in got
    /\ ConfirmedPublish

LEMMA AnsweredMoves ==
  ASSUME TypeInv, [Next]_vars, NEW k \in Nat, Answered(k)'
  PROVE  Answered(k) \/ k \in got'
<1>1. ASSUME NEW t \in {"PUBACK", "PUBREC", "PUBCOMP"}, InFlight(Pkt(t, k))'
      PROVE  Answered(k) \/ k \in got'
  <2>1. \/ InFlight(Pkt(t, k))
        \/ BrokerPublish /\ k = Head(toBroker).id
        \/ BrokerPubrel /\ k = Head(toBroker).id
    BY <1>1, InMoves, PktParts
  <2>2. CASE BrokerPublish /\ k = Head(toBroker).id
    BY <2>2 DEF BrokerPublish
  <2>3. CASE BrokerPubrel /\ k = Head(toBroker).id
    BY <2>3, TakenByBroker DEF BrokerPubrel, Answered
  <2> QED
    BY <2>1, <2>2, <2>3 DEF Answered
<1>2. CASE (logic.pc = "putRel" /\ logic.id = k)'
  <2>1. CASE LogicForward
    <3>1. LogicTakes("PUBREC") /\ k = ibound[1].id
      BY <1>2, <2>1 DEF LogicForward
    <3> QED
      BY <3>1, TakenByLogic DEF Answered
  <2>2. CASE UNCHANGED logic
    BY <1>2, <2>2 DEF Answered
  <2>3. CASE LogicPutPub \/ LogicPutAck \/ LogicTimeout
    BY <1>2, <2>3 DEF LogicPutPub, LogicPutAck, LogicTimeout, TypeInv, TypeOK, ReceiveTypeOK
  <2> QED
    BY <2>1, <2>2, <2>3, LogicChanges
<1>3. CASE OutFlight(Pkt("PUBREL", k))'
  <2>1. \/ OutFlight(Pkt("PUBREL", k))
        \/ LogicPutAck /\ AckType = "PUBREL" /\ k = logic.id
    BY <1>3, OutMoves, PktParts
  <2>2. CASE LogicPutAck /\ AckType = "PUBREL" /\ k = logic.id
    BY <2>2 DEF AckType, Answered
  <2> QED
    BY <2>1, <2>2 DEF Answered
<1> QED
  BY <1>1, <1>2, <1>3 DEF Answered

LEMMA TokenStep == TypeInv /\ TokenInv /\ [Next]_vars => TokenInv'
<1> SUFFICES ASSUME TypeInv, TokenInv, [Next]_vars PROVE TokenInv'
  OBVIOUS
<1>1. got \subseteq got'
  <2>1. CASE BrokerPublish
    BY <2>1 DEF BrokerPublish
  <2> QED
    BY <2>1, PeerFrame DEF OutgoingPublish, LogicSuback, LogicPubAcked, BrokerSubscribe,
                           BrokerAcked, BrokerSends, brokerVars
<1>2. \A k \in Nat : Answered(k)' => k \in got'
  BY <1>1, AnsweredMoves DEF TokenInv
<1>3. ConfirmedPublish'
  <2>1. CASE OutgoingPublish
    BY <1>1, <2>1 DEF OutgoingPublish, TokenInv, ConfirmedPublish
  <2>2. CASE LogicPubAcked
    <3>1. Answered(ibound[1].id) /\ ibound[1].id \in Nat
      BY <2>2, TakenByLogic DEF LogicPubAcked, Answered
    <3> QED
      BY <1>1, <2>2, <3>1 DEF LogicPubAcked, TokenInv, ConfirmedPublish
  <2>3. UNCHANGED pubDone => ConfirmedPublish'
    BY <1>1 DEF TokenInv, ConfirmedPublish
  <2> QED
    BY <2>1, <2>2, <2>3, PeerFrame
    DEF LogicSuback, BrokerSubscribe, BrokerPublish, BrokerAcked, BrokerSends, tokenVars
<1> QED
  BY <1>2, <1>3 DEF TokenInv

\* A publication of QoS 1 or 2 whose token is complete, so that onStdinReceived
\* went on, has been received by the broker.
THEOREM PublishConfirmed == Spec => []ConfirmedPublish
<1>1. Init => TokenInv
  BY DEF Init, TokenInv, ConfirmedPublish, Answered, InFlight, OutFlight, Has
<1>2. TokenInv => ConfirmedPublish
  BY DEF TokenInv
<1> QED
  BY <1>1, <1>2, TypeInit, TypeStep, TokenStep, PTL DEF Spec

-----------------------------------------------------------------------------
(* Routes.  A clean session asks the broker for nothing it has no route    *)
(* for, so that every message of the session has one.                      *)

Asked(i) ==
    \/ main.pc = "subscribe" /\ main.sub = i
    \/ OutFlight(Pkt("SUBSCRIBE", i))
    \/ i \in granted
    \/ \E n \in DOMAIN msgs : msgs[n].topic = i

RouteInv ==
    /\ \A i \in Nat : Asked(i) => i \in routes
    /\ \A n \in DOMAIN msgs : ~msgs[n].dup

LEMMA RoutesGrow == [Next]_vars => routes \subseteq routes'
  BY RouterFrame DEF AddRoute, ReceiveMsg, LogicPutPub, Dispatch, RunDefault, Persist, routerVars

LEMMA MsgsGrow ==
  ASSUME TypeInv, [Next]_vars
  PROVE  \/ UNCHANGED msgs
         \/ /\ BrokerSends /\ DOMAIN msgs' = DOMAIN msgs \cup {Len(msgs) + 1}
            /\ \A n \in DOMAIN msgs : msgs'[n] = msgs[n]
            /\ msgs'[Len(msgs) + 1].topic \in granted
            /\ Clean => ~msgs'[Len(msgs) + 1].dup
<1>1. CASE BrokerSends
  <2>1. PICK t \in granted, q \in 0..Qos, dup \in BOOLEAN :
            /\ dup => ~Clean
            /\ msgs' = Append(msgs, [topic |-> t, qos |-> q, dup |-> dup])
    BY <1>1 DEF BrokerSends
  <2>2. msgs \in Seq([topic : Nat, qos : 0..2, dup : BOOLEAN]) /\ Len(msgs) \in Nat
    BY DEF TypeInv, TypeOK, PeerTypeOK
  <2>3. /\ DOMAIN msgs = 1..Len(msgs) /\ DOMAIN msgs' = 1..Len(msgs) + 1
        /\ \A n \in 1..Len(msgs) : msgs'[n] = msgs[n]
        /\ msgs'[Len(msgs) + 1] = [topic |-> t, qos |-> q, dup |-> dup]
    BY <2>1, <2>2
  <2>4. DOMAIN msgs' = DOMAIN msgs \cup {Len(msgs) + 1}
    BY <2>2, <2>3
  <2>5. msgs'[Len(msgs) + 1].topic = t /\ msgs'[Len(msgs) + 1].dup = dup
    BY <2>3
  <2> QED
    BY <1>1, <2>1, <2>3, <2>4, <2>5
<1>2. ~BrokerSends => UNCHANGED msgs
  BY PeerFrame DEF OutgoingPublish, LogicSuback, LogicPubAcked, BrokerSubscribe,
                   BrokerPublish, BrokerAcked, brokerVars
<1> QED
  BY <1>1, <1>2

LEMMA AskedMoves ==
  ASSUME TypeInv, [Next]_vars, NEW i \in Nat, Asked(i)'
  PROVE  Asked(i) \/ i \in routes'
<1>1. CASE (main.pc = "subscribe" /\ main.sub = i)'
  <2>1. CASE AddRoute
    BY <1>1, <2>1 DEF AddRoute, TypeInv, TypeOK, MainTypeOK
  <2>2. CASE Subscribe
    <3>1. main' = [main EXCEPT !.pc = "waitSub"] \/ NextSub
      BY <2>2 DEF Subscribe
    <3> QED
      BY <1>1, <3>1 DEF NextSub, TypeInv, TypeOK, MainTypeOK
  <2>3. CASE Subscribed
    BY <1>1, <2>3 DEF Subscribed, NextSub, TypeInv, TypeOK, MainTypeOK
  <2>4. CASE ReceiveLine \/ Publish \/ Published
    BY <1>1, <2>4 DEF ReceiveLine, Publish, Published, TypeInv, TypeOK, MainTypeOK
  <2>5. CASE UNCHANGED main
    BY <1>1, <2>5 DEF Asked
  <2> QED
    BY <2>1, <2>2, <2>3, <2>4, <2>5, MainFrame
    DEF ReceiveMsg, Exit, ReadLine, ReadEOF, PersistPanics, mainVars
<1>2. CASE OutFlight(Pkt("SUBSCRIBE", i))'
  <2>1. OutFlight(Pkt("SUBSCRIBE", i)) \/ (Subscribe /\ i = main.sub)
    <3>1. AckType # "SUBSCRIBE"
      BY DEF AckType
    <3> QED
      BY <1>2, <3>1, OutMoves, PktParts
  <2> QED
    BY <2>1 DEF Asked, Subscribe
<1>3. CASE (i \in granted)'
  <2>1. CASE BrokerSubscribe
    <3>1. i \in granted \/ i = Head(toBroker).id
      BY <1>3, <2>1 DEF BrokerSubscribe
    <3>2. OutFlight(Pkt("SUBSCRIBE", Head(toBroker).id))
      BY <2>1, TakenByBroker DEF BrokerSubscribe
    <3> QED
      BY <3>1, <3>2 DEF Asked
  <2>2. ~BrokerSubscribe => UNCHANGED granted
    BY PeerFrame DEF OutgoingPublish, LogicSuback, LogicPubAcked, BrokerPublish, BrokerAcked,
                     BrokerSends, brokerVars
  <2> QED
    BY <1>3, <2>1, <2>2 DEF Asked
<1>4. CASE (\E n \in DOMAIN msgs : msgs[n].topic = i)'
  BY <1>4, MsgsGrow DEF Asked
<1> QED
  BY <1>1, <1>2, <1>3, <1>4 DEF Asked

LEMMA RouteStep ==
  ASSUME Clean, TypeInv, RouteInv, [Next]_vars
  PROVE  RouteInv'
<1>1. \A i \in Nat : Asked(i)' => i \in routes'
  BY AskedMoves, RoutesGrow DEF RouteInv
<1>2. (\A n \in DOMAIN msgs : ~msgs[n].dup)'
  BY MsgsGrow DEF RouteInv
<1> QED
  BY <1>1, <1>2 DEF RouteInv

LEMMA RouteInit == Clean /\ Init => RouteInv
  BY DEF Init, RouteInv, Asked, OutFlight, Has

\* The message at alllogic, in the channel and at the router is one the broker
\* sent, and has a route.
LEMMA HasRoute ==
  ASSUME TypeInv, RouteInv, NEW n \in Nat, n >= 1, n <= Len(msgs)
  PROVE  msgs[n].topic \in routes /\ ~msgs[n].dup /\ n \in DOMAIN msgs
<1>1. msgs \in Seq([topic : Nat, qos : 0..2, dup : BOOLEAN])
  BY DEF TypeInv, TypeOK, PeerTypeOK
<1>2. n \in 1..Len(msgs) /\ n \in DOMAIN msgs
  BY <1>1
<1>3. msgs[n] \in [topic : Nat, qos : 0..2, dup : BOOLEAN]
  BY <1>1, <1>2, ElementOfSeq
<1>4. msgs[n].topic \in Nat
  BY <1>3
<1> QED
  BY <1>2, <1>4 DEF RouteInv, Asked

-----------------------------------------------------------------------------
(* The way of a message.  It is upstream until alllogic has passed it on,  *)
(* then in the router's hands or in the database for ever.                 *)

Upstream(n) == InFlight(Pkt("PUBLISH", n)) \/ (logic.pc = "putPub" /\ logic.id = n)

Passed(n) == Has(incomingPubChan, n) \/ (router.pc = "handle" /\ router.id = n) \/ Has(db, n)

LEMMA DispatchHandles ==
  ASSUME TypeInv, PipeInv, RouteInv, Dispatch
  PROVE  router'.pc = "handle" /\ router'.id = Head(incomingPubChan)
<1>1. /\ incomingPubChan # <<>> /\ incomingPubChan \in Seq(Nat)
  BY DEF Dispatch, TypeInv, TypeOK, RouterTypeOK
<1>2. Head(incomingPubChan) = incomingPubChan[1] /\ 1 \in DOMAIN incomingPubChan
      /\ Head(incomingPubChan) \in Nat
  BY <1>1, HeadTailProperties
<1>3. incomingPubChan[1] >= 1 /\ incomingPubChan[1] <= Len(msgs)
  BY <1>2 DEF PipeInv, ChanBehind, BehindLogic, BehindIbound, BehindClient
<1>4. msgs[Head(incomingPubChan)].topic \in routes
  BY <1>2, <1>3, HasRoute
<1> QED
  BY <1>4 DEF Dispatch

LEMMA HandlesClean ==
  ASSUME TypeInv, PipeInv, RouteInv, Persist
  PROVE  db' = Append(db, router.id) /\ router.id \in Nat
<1>1. router.id >= 1 /\ router.id <= Len(msgs) /\ router.id \in Nat
  BY DEF Persist, TypeInv, TypeOK, RouterTypeOK, PipeInv, RouterOrdered, BehindChan, BehindLogic,
         BehindIbound, BehindClient
<1> QED
  BY <1>1, HasRoute DEF Persist

LEMMA PassedStays ==
  ASSUME TypeInv, PipeInv, RouteInv, [Next]_vars, NEW n \in Nat, Passed(n)
  PROVE  Passed(n)'
<1>0. incomingPubChan \in Seq(Nat) /\ db \in Seq(Nat)
  BY DEF TypeInv, TypeOK, RouterTypeOK
<1>1. CASE LogicPutPub
  <2>1. incomingPubChan' = Append(incomingPubChan, logic.id) /\ UNCHANGED <<router, db>>
    BY <1>1 DEF LogicPutPub
  <2>2. logic.id \in Nat
    BY DEF TypeInv, TypeOK, ReceiveTypeOK
  <2>3. Has(incomingPubChan, n) => Has(incomingPubChan', n)
    BY <1>0, <2>1, <2>2, HasAppend
  <2> QED
    BY <2>1, <2>3 DEF Passed
<1>2. CASE Dispatch
  <2>1. incomingPubChan # <<>> /\ incomingPubChan' = Tail(incomingPubChan) /\ UNCHANGED db
        /\ router.pc = "select"
    BY <1>2 DEF Dispatch
  <2>2. router'.pc = "handle" /\ router'.id = Head(incomingPubChan)
    BY <1>2, DispatchHandles
  <2>3. Has(incomingPubChan, n) => n = Head(incomingPubChan) \/ Has(incomingPubChan', n)
    BY <1>0, <2>1, HasTail
  <2> QED
    BY <2>1, <2>2, <2>3 DEF Passed
<1>3. CASE Persist
  <2>1. db' = Append(db, router.id) /\ router.id \in Nat /\ UNCHANGED incomingPubChan
    BY <1>3, HandlesClean DEF Persist
  <2> QED
    BY <1>0, <2>1, HasAppend DEF Passed
<1>4. CASE ReceiveMsg \/ RunDefault
  BY <1>4 DEF ReceiveMsg, RunDefault, Passed
<1>5. CASE AddRoute \/ UNCHANGED routerVars
  BY <1>5 DEF AddRoute, routerVars, Passed
<1> QED
  BY RouterFrame, <1>1, <1>2, <1>3, <1>4, <1>5

LEMMA UpstreamMoves ==
  ASSUME TypeInv, [Next]_vars, NEW n \in Nat, Upstream(n)
  PROVE  Upstream(n)' \/ Passed(n)'
<1>0. /\ toClient \in Seq(InPkt) /\ ibound \in Seq(InPkt) /\ incomingPubChan \in Seq(Nat)
      /\ ReceiveTypeOK /\ SendTypeOK
  BY DEF TypeInv, TypeOK, ReceiveTypeOK, RouterTypeOK
<1>1. CASE Incoming
  <2>1. /\ toClient # <<>> /\ toClient' = Tail(toClient) /\ ibound = <<>>
        /\ ibound' = <<Head(toClient)>> /\ UNCHANGED logic
    BY <1>1 DEF Incoming
  <2>2. Has(ibound', Head(toClient)) /\ ~Has(ibound, Pkt("PUBLISH", n))
    BY <2>1 DEF Has
  <2> QED
    BY <1>0, <2>1, <2>2, HasTail DEF InFlight, Upstream
<1>2. CASE LogicForward
  <2>1. ibound # <<>> /\ UNCHANGED toClient /\ logic.pc = "select"
    BY <1>2 DEF LogicForward, LogicTakes
  <2>2. CASE ibound[1] = Pkt("PUBLISH", n)
    <3>1. ibound[1].type = "PUBLISH" /\ ibound[1].id = n
      BY <2>2 DEF Pkt
    <3>2. logic' = [pc |-> "putPub", id |-> n]
      BY <1>2, <3>1 DEF LogicForward, LogicTakes
    <3> QED
      BY <3>2 DEF Upstream
  <2> QED
    BY <1>0, <2>1, <2>2, HasOne DEF Upstream, InFlight
<1>3. CASE LogicSuback \/ LogicPubAcked
  <2>1. ibound # <<>> /\ UNCHANGED <<toClient, logic>> /\ ibound[1].type # "PUBLISH"
    BY <1>3 DEF LogicSuback, LogicPubAcked, LogicTakes
  <2>2. ibound[1] # Pkt("PUBLISH", n)
    BY <2>1 DEF Pkt
  <2> QED
    BY <1>0, <2>1, <2>2, HasOne DEF Upstream, InFlight
<1>4. CASE LogicPutPub
  <2>1. /\ UNCHANGED <<toClient, ibound>> /\ logic.id \in Nat
        /\ incomingPubChan' = Append(incomingPubChan, logic.id)
    BY <1>0, <1>4 DEF LogicPutPub, ReceiveTypeOK
  <2> QED
    BY <1>0, <2>1, HasAppend DEF Upstream, Passed, InFlight
<1>5. CASE LogicPutAck \/ LogicTimeout
  BY <1>5 DEF LogicPutAck, LogicTimeout, Upstream, InFlight
<1>6. CASE BrokerSubscribe \/ BrokerPublish \/ BrokerPubrel \/ BrokerAcked \/ BrokerSends
  <2>1. /\ UNCHANGED <<ibound, logic>>
        /\ \/ UNCHANGED toClient
           \/ \E p \in InPkt : toClient' = Append(toClient, p)
    <3>1. UNCHANGED <<ibound, logic>>
      BY <1>6 DEF BrokerSubscribe, BrokerPublish, BrokerPubrel, BrokerAcked, BrokerSends
    <3>2. \/ UNCHANGED toClient
          \/ \E t \in InType, i \in Nat : toClient' = Append(toClient, Pkt(t, i))
      <4>1. CASE BrokerSubscribe
        BY <1>0, <4>1, BrokerTakesOK DEF BrokerSubscribe, InType
      <4>2. CASE BrokerPublish
        BY <1>0, <4>2, BrokerTakesOK, PlumberAssumption DEF BrokerPublish, InType
      <4>3. CASE BrokerPubrel
        BY <1>0, <4>3, BrokerTakesOK DEF BrokerPubrel, InType
      <4>4. CASE BrokerAcked
        <5>1. Head(toBroker).id \in Nat
          BY <1>0, <4>4, BrokerTakesOK DEF BrokerAcked
        <5>2. UNCHANGED toClient \/ toClient' = Append(toClient, Pkt("PUBREL", Head(toBroker).id))
          BY <4>4 DEF BrokerAcked
        <5> QED
          BY <5>1, <5>2 DEF InType
      <4>5. CASE BrokerSends
        <5>1. Len(msgs) + 1 \in Nat /\ toClient' = Append(toClient, Pkt("PUBLISH", Len(msgs) + 1))
          BY <4>5 DEF BrokerSends, TypeInv, TypeOK, PeerTypeOK
        <5> QED
          BY <5>1 DEF InType
      <4> QED
        BY <1>6, <4>1, <4>2, <4>3, <4>4, <4>5
    <3> QED
      BY <3>1, <3>2, InPktOK
  <2>2. Has(toClient, Pkt("PUBLISH", n)) => Has(toClient', Pkt("PUBLISH", n))
    <3>1. \A p \in InPkt : Has(toClient, Pkt("PUBLISH", n))
                              => Has(Append(toClient, p), Pkt("PUBLISH", n))
      BY <1>0, HasAppend
    <3> QED
      BY <2>1, <3>1
  <2> QED
    BY <2>1, <2>2 DEF Upstream, InFlight
<1>7. CASE UNCHANGED <<toClient, ibound, logic>>
  BY <1>7 DEF Upstream, InFlight
<1> QED
  BY ReceiveFrame, <1>1, <1>2, <1>3, <1>4, <1>5, <1>6, <1>7

-----------------------------------------------------------------------------
(* What a clean session promises: three invariants on top of the routes.   *)

\* The client has confirmed message n, or is about to.
Confirming(n) ==
    \/ logic.pc \in {"putAck", "putComp"} /\ logic.id = n
    \/ \E t \in {"PUBACK", "PUBREC", "PUBCOMP"} : OutFlight(Pkt(t, n))
    \/ InFlight(Pkt("PUBREL", n))
    \/ n \in acked

AllKept == \A n \in DOMAIN msgs : Upstream(n) \/ Passed(n)

ConfirmedPassed == \A n \in Nat : Confirming(n) => Passed(n)

Counted == CountedIsStored /\ router.pc \in {"select", "handle", "send"}

CleanInv == RouteInv /\ AllKept /\ ConfirmedPassed /\ Counted

LEMMA KeptStep ==
  ASSUME TypeInv, PipeInv, RouteInv, AllKept, [Next]_vars
  PROVE  AllKept'
<1>1. DOMAIN msgs \subseteq Nat
  BY DEF TypeInv, TypeOK, PeerTypeOK
<1>2. \A n \in DOMAIN msgs : (Upstream(n) \/ Passed(n))'
  BY <1>1, UpstreamMoves, PassedStays DEF AllKept
<1>3. CASE BrokerSends
  <2>1. toClient \in Seq(InPkt) /\ Len(msgs) + 1 \in Nat
    BY DEF TypeInv, TypeOK, ReceiveTypeOK, PeerTypeOK
  <2>2. PICK m \in Nat : m = Len(msgs) + 1
    BY <2>1
  <2>3. Pkt("PUBLISH", m) \in InPkt /\ toClient' = Append(toClient, Pkt("PUBLISH", m))
    BY <1>3, <2>2, InPktOK DEF BrokerSends, InType
  <2>4. Has(toClient', Pkt("PUBLISH", m))
    BY <2>1, <2>3, HasAppend
  <2>5. Upstream(m)'
    BY <2>4 DEF Upstream, InFlight
  <2>6. DOMAIN msgs' \subseteq DOMAIN msgs \cup {m}
    BY <2>2, MsgsGrow
  <2> QED
    BY <1>2, <2>5, <2>6 DEF AllKept
<1> QED
  BY <1>2, <1>3, MsgsGrow DEF AllKept

LEMMA ConfirmingMoves ==
  ASSUME TypeInv, [Next]_vars, NEW n \in Nat, Confirming(n)'
  PROVE  Confirming(n) \/ Passed(n)'
<1>1. CASE (logic.pc \in {"putAck", "putComp"} /\ logic.id = n)'
  <2>1. CASE LogicForward
    <3>1. LogicTakes("PUBREL") /\ n = ibound[1].id
      BY <1>1, <2>1 DEF LogicForward
    <3> QED
      BY <3>1, TakenByLogic DEF Confirming
  <2>2. CASE LogicPutPub
    <3>1. /\ incomingPubChan \in Seq(Nat) /\ logic.id \in Nat
          /\ logic'.id = logic.id /\ incomingPubChan' = Append(incomingPubChan, logic.id)
      BY <2>2 DEF LogicPutPub, TypeInv, TypeOK, ReceiveTypeOK, RouterTypeOK
    <3> QED
      BY <1>1, <3>1, HasAppend DEF Passed
  <2>3. CASE LogicPutAck \/ LogicTimeout
    BY <1>1, <2>3 DEF LogicPutAck, LogicTimeout, TypeInv, TypeOK, ReceiveTypeOK
  <2>4. CASE UNCHANGED logic
    BY <1>1, <2>4 DEF Confirming
  <2> QED
    BY <2>1, <2>2, <2>3, <2>4, LogicChanges
<1>2. ASSUME NEW t \in {"PUBACK", "PUBREC", "PUBCOMP"}, OutFlight(Pkt(t, n))'
      PROVE  Confirming(n)
  <2>1. OutFlight(Pkt(t, n)) \/ (LogicPutAck /\ AckType = t /\ n = logic.id)
    BY <1>2, OutMoves, PktParts
  <2>2. CASE LogicPutAck /\ AckType = t /\ n = logic.id
    <3>1. logic.pc \in {"putAck", "putComp"}
      BY <2>2 DEF LogicPutAck, AckType
    <3> QED
      BY <2>2, <3>1 DEF Confirming
  <2> QED
    BY <2>1, <2>2 DEF Confirming
<1>3. CASE InFlight(Pkt("PUBREL", n))'
  <2>1. \/ InFlight(Pkt("PUBREL", n))
        \/ BrokerAcked /\ Head(toBroker).type = "PUBREC" /\ n = Head(toBroker).id
    BY <1>3, InMoves, PktParts
  <2>2. CASE BrokerAcked /\ Head(toBroker).type = "PUBREC" /\ n = Head(toBroker).id
    <3>1. OutFlight(Pkt("PUBREC", n))
      BY <2>2, TakenByBroker DEF BrokerAcked, BrokerTakes
    <3> QED
      BY <3>1 DEF Confirming
  <2> QED
    BY <2>1, <2>2 DEF Confirming
<1>4. CASE (n \in acked)'
  <2>1. CASE BrokerAcked
    <3>1. n \in acked \/ n = Head(toBroker).id
      BY <1>4, <2>1 DEF BrokerAcked
    <3>2. \E t \in {"PUBACK", "PUBREC", "PUBCOMP"} : OutFlight(Pkt(t, Head(toBroker).id))
      BY <2>1, TakenByBroker DEF BrokerAcked
    <3> QED
      BY <3>1, <3>2 DEF Confirming
  <2>2. ~BrokerAcked => UNCHANGED acked
    BY PeerFrame DEF OutgoingPublish, LogicSuback, LogicPubAcked, BrokerSubscribe,
                     BrokerPublish, BrokerSends, brokerVars
  <2> QED
    BY <1>4, <2>1, <2>2 DEF Confirming
<1> QED
  BY <1>1, <1>2, <1>3, <1>4 DEF Confirming

LEMMA ConfirmedStep ==
  ASSUME TypeInv, PipeInv, RouteInv, ConfirmedPassed, [Next]_vars
  PROVE  ConfirmedPassed'
<1> SUFFICES ASSUME NEW n \in Nat, Confirming(n)' PROVE Passed(n)'
  BY DEF ConfirmedPassed
<1> QED
  BY ConfirmingMoves, PassedStays DEF ConfirmedPassed

LEMMA CountStep ==
  ASSUME Clean, TypeInv, PipeInv, RouteInv, Counted, [Next]_vars
  PROVE  Counted'
<1>0. /\ Len(db) = received + (IF router.pc = "send" THEN 1 ELSE 0)
      /\ router.pc \in {"select", "handle", "send"} /\ received \in Nat /\ db \in Seq(Nat)
      /\ "pc" \in DOMAIN router
  BY DEF Counted, CountedIsStored, TypeInv, TypeOK, MainTypeOK, RouterTypeOK
<1>1. CASE ReceiveMsg
  <2>1. /\ router.pc = "send" /\ router'.pc = "select" /\ received' = received + 1
        /\ db' = db
    BY <1>0, <1>1 DEF ReceiveMsg
  <2> QED
    BY <1>0, <2>1 DEF Counted, CountedIsStored
<1>2. CASE Dispatch
  <2>1. router.pc = "select" /\ db' = db /\ received' = received
    BY <1>2 DEF Dispatch, mainVars
  <2> QED
    BY <1>0, <1>2, <2>1, DispatchHandles DEF Counted, CountedIsStored
<1>3. CASE Persist
  <2>1. /\ router.pc = "handle" /\ router'.pc = "send" /\ received' = received
        /\ db' = Append(db, router.id) /\ router.id \in Nat
    BY <1>0, <1>3, HandlesClean DEF Persist, mainVars
  <2>2. Len(db') = Len(db) + 1
    BY <1>0, <2>1, AppendOK
  <2> QED
    BY <1>0, <2>1, <2>2 DEF Counted, CountedIsStored
<1>4. ~RunDefault
  BY <1>0 DEF RunDefault
<1>5. CASE UNCHANGED <<router, db, received>>
  BY <1>0, <1>5 DEF Counted, CountedIsStored
<1>6. ~ReceiveMsg => UNCHANGED received
  BY MainFrame DEF AddRoute, Subscribe, Subscribed, ReceiveLine, Publish, Published, Exit,
                   ReadLine, ReadEOF, PersistPanics, mainVars
<1>7. ~(ReceiveMsg \/ Dispatch \/ RunDefault \/ Persist) => UNCHANGED <<router, db>>
  BY RouterFrame DEF AddRoute, LogicPutPub, routerVars
<1> QED
  BY <1>1, <1>2, <1>3, <1>4, <1>5, <1>6, <1>7

LEMMA CleanInit == Clean /\ Init => CleanInv
<1> SUFFICES ASSUME Clean, Init PROVE CleanInv
  OBVIOUS
<1>1. RouteInv
  BY RouteInit
<1>2. AllKept /\ ConfirmedPassed
  BY DEF Init, AllKept, ConfirmedPassed, Confirming, OutFlight, InFlight, Has
<1>3. Counted
  BY DEF Init, Counted, CountedIsStored
<1> QED
  BY <1>1, <1>2, <1>3 DEF CleanInv

LEMMA CleanStep == Clean /\ IInv /\ CleanInv /\ [Next]_vars => CleanInv'
  BY RouteStep, KeptStep, ConfirmedStep, CountStep DEF IInv, CleanInv

LEMMA CleanInductive == Clean => (Spec => []CleanInv)
<1> SUFFICES ASSUME Clean PROVE Spec => []CleanInv
  OBVIOUS
<1>1. Init => CleanInv
  BY CleanInit
<1>2. IInv /\ IInv' /\ CleanInv /\ [Next]_vars => CleanInv'
  BY CleanStep
<1> QED
  BY <1>1, <1>2, Inductive, PTL DEF Spec

\* In a clean session a message the broker sent is in the database or on its way
\* there: main has a route in place before it asks for what the route is for.
THEOREM CleanLosesNothing == Clean => (Spec => []NothingLost)
<1>1. TypeInv /\ CleanInv => NothingLost
  <2> SUFFICES ASSUME TypeInv, AllKept, NEW n \in DOMAIN msgs, Upstream(n) \/ Passed(n)
               PROVE  InPipe(n) \/ Stored(n)
    BY DEF CleanInv, AllKept, NothingLost
  <2>1. Has(ibound, Pkt("PUBLISH", n)) => ibound = <<Pkt("PUBLISH", n)>>
    <3>1. ibound \in Seq(InPkt) /\ Len(ibound) <= 1
      BY DEF TypeInv, TypeOK, ReceiveTypeOK
    <3>2. DOMAIN ibound = 1..Len(ibound) /\ (ibound # <<>> => Len(ibound) \in Nat \ {0})
      BY <3>1, EmptySeq
    <3>3. ibound # <<>> => ibound = <<ibound[1]>>
      BY <3>1, <3>2
    <3> QED
      BY <3>3, HasOne DEF TypeInv, TypeOK, Has
  <2> QED
    BY <2>1 DEF Upstream, Passed, InFlight, InPipe, Stored, Has
<1> QED
  BY <1>1, Inductive, CleanInductive, PTL DEF IInv

\* In a clean session what the client confirmed to the broker is past alllogic.
THEOREM CleanConfirmsPassed == Clean => (Spec => []AckedIsQueued)
<1>1. TypeInv /\ CleanInv => AckedIsQueued
  BY DEF CleanInv, ConfirmedPassed, Confirming, Passed, Has, Stored, AckedIsQueued, TypeInv,
         TypeOK, PeerTypeOK
<1> QED
  BY <1>1, Inductive, CleanInductive, PTL DEF IInv

\* In a clean session, verbose or not, the prompt's counter of received messages
\* and the database never differ by more than the message of a waiting handler.
THEOREM CleanCounts == Spec => []CountedIsStored
<1>1. CASE Clean
  <2>1. CleanInv => CountedIsStored
    BY DEF CleanInv, Counted
  <2> QED
    BY <1>1, <2>1, CleanInductive, PTL
<1>2. CASE ~Clean
  <2>1. CountedIsStored
    BY <1>2 DEF CountedIsStored
  <2> QED
    BY <2>1, PTL
<1> QED
  BY <1>1, <1>2

-----------------------------------------------------------------------------
(* The messages in the pipe are the last ones sent: what is not there is   *)
(* an initial segment, and Taken its length.                               *)

AtRouter(n) == Has(incomingPubChan, n) \/ (router.pc = "handle" /\ router.id = n)

PipeIsTail ==
    \A m, n \in DOMAIN msgs : m < n /\ InPipe(m) => InPipe(n)

\* What was passed on, and what is confirmed, is a message of the broker that
\* alllogic is done with.
Forwarded(n) == n \in DOMAIN msgs /\ ~Upstream(n)

PassedForwarded == \A n \in Nat : Passed(n) => Forwarded(n)

PipeSplit == \A n \in Nat : InPipe(n) <=> Upstream(n) \/ AtRouter(n)

ConfirmedForwarded == \A n \in Nat : Confirming(n) => Forwarded(n)

IngestInv == PipeIsTail /\ ConfirmedForwarded /\ (Clean => RouteInv)

LEMMA InitialSegment ==
  ASSUME NEW L \in Nat, NEW S \in SUBSET (1..L),
         \A m, n \in 1..L : m < n /\ n \in S => m \in S
  PROVE  /\ IsFiniteSet(S) /\ Cardinality(S) \in Nat /\ Cardinality(S) <= L
         /\ \A n \in 1..L : n \in S <=> n <= Cardinality(S)
<1>0. \A x \in S : \A y \in 1..L : y < x => y \in S
  OBVIOUS
<1>1. IsFiniteSet(1..L) /\ Cardinality(1..L) = L
  BY FS_Interval
<1>2. IsFiniteSet(S) /\ Cardinality(S) \in Nat /\ Cardinality(S) <= L
  BY <1>1, FS_Subset, FS_CardinalityType
<1>3. ASSUME NEW n \in 1..L, n \in S PROVE n <= Cardinality(S)
  <2>1. (1..n) \in SUBSET S
    <3>1. ASSUME NEW m \in 1..n PROVE m \in S
      <4>1. m \in 1..L /\ (m = n \/ m < n)
        OBVIOUS
      <4> QED
        BY <1>0, <1>3, <4>1
    <3> QED
      BY <3>1
  <2>2. Cardinality(1..n) = n
    BY FS_Interval
  <2> QED
    BY <1>2, <2>1, <2>2, FS_Subset
<1>4. ASSUME NEW n \in 1..L, n \notin S PROVE n > Cardinality(S)
  <2>1. S \in SUBSET (1..n - 1)
    <3>1. \A m \in S : ~(n < m) /\ m # n
      BY <1>0, <1>4, Zenon
    <3>2. ASSUME NEW m \in S PROVE m \in 1..n - 1
      <4>1. ~(n < m) /\ m # n /\ m \in 1..L
        BY <3>1
      <4> QED
        BY <4>1
    <3> QED
      BY <3>2, Zenon
  <2>2. IsFiniteSet(1..n - 1) /\ Cardinality(1..n - 1) = n - 1
    BY FS_Interval
  <2>3. Cardinality(S) <= Cardinality(1..n - 1)
    BY <2>1, <2>2, FS_Subset, Zenon
  <2>4. Cardinality(S) <= n - 1
    BY <2>2, <2>3
  <2> QED
    BY <1>2, <2>4
<1> QED
  BY <1>2, <1>3, <1>4

\* The stages of InPipe, by the definitions of the other proofs.
LEMMA PipeParts ==
  ASSUME ReceiveTypeOK, NEW n
  PROVE  InPipe(n) <=> Upstream(n) \/ AtRouter(n)
<1>1. Has(ibound, Pkt("PUBLISH", n)) <=> ibound = <<Pkt("PUBLISH", n)>>
  <2>1. ibound \in Seq(InPkt) /\ Len(ibound) <= 1
    BY DEF ReceiveTypeOK
  <2>2. DOMAIN ibound = 1..Len(ibound) /\ (ibound # <<>> => Len(ibound) \in Nat \ {0})
    BY <2>1, EmptySeq
  <2>3. ibound # <<>> => ibound = <<ibound[1]>>
    BY <2>1, <2>2
  <2> QED
    BY <2>3, HasOne
<1> QED
  BY <1>1 DEF InPipe, Upstream, AtRouter, InFlight, Has

LEMMA TakenIsLength ==
  ASSUME TypeOK, PipeIsTail
  PROVE  /\ Taken \in Nat /\ Taken <= Len(msgs)
         /\ IsFiniteSet({n \in DOMAIN msgs : ~InPipe(n)})
         /\ \A n \in DOMAIN msgs : InPipe(n) <=> n > Taken
<1> DEFINE S == {n \in DOMAIN msgs : ~InPipe(n)}
<1>1. Len(msgs) \in Nat /\ DOMAIN msgs = 1..Len(msgs)
  BY DEF TypeOK, PeerTypeOK
<1>2. S \in SUBSET (1..Len(msgs))
  BY <1>1
<1>3. \A m, n \in 1..Len(msgs) : m < n /\ n \in S => m \in S
  BY <1>1 DEF PipeIsTail
<1>4. \A n \in DOMAIN msgs : InPipe(n) <=> n \notin S
  OBVIOUS
<1>5. Taken = Cardinality(S)
  BY DEF Taken
<1> HIDE DEF S
<1>6. /\ IsFiniteSet(S) /\ Cardinality(S) \in Nat /\ Cardinality(S) <= Len(msgs)
      /\ \A n \in 1..Len(msgs) : n \in S <=> n <= Cardinality(S)
  BY <1>1, <1>2, <1>3, InitialSegment
<1>7. \A n \in DOMAIN msgs : InPipe(n) <=> n > Taken
  BY <1>1, <1>4, <1>5, <1>6
<1> QED
  BY <1>5, <1>6, <1>7 DEF S
-----------------------------------------------------------------------------
(* Order.                                                                  *)

LEMMA BehindIsForwarded ==
  ASSUME TypeOK, NEW n \in Nat, n >= 1, BehindLogic(n)
  PROVE  Forwarded(n) /\ \A m \in Nat : Upstream(m) => n < m
<1>1. n \in DOMAIN msgs
  BY DEF TypeOK, PeerTypeOK, BehindLogic, BehindIbound, BehindClient
<1>2. ASSUME NEW m \in Nat, Upstream(m) PROVE n < m
  <2>1. CASE Has(toClient, Pkt("PUBLISH", m))
    BY <2>1 DEF Has, Pkt, BehindLogic, BehindIbound, BehindClient
  <2>2. CASE Has(ibound, Pkt("PUBLISH", m))
    <3>1. ibound # <<>> /\ ibound[1] = Pkt("PUBLISH", m)
      BY <2>2, HasOne DEF TypeOK
    <3>2. ibound[1].type = "PUBLISH" /\ ibound[1].id = m
      BY <3>1 DEF Pkt
    <3> QED
      BY <3>1, <3>2 DEF BehindLogic, BehindIbound
  <2>3. CASE logic.pc = "putPub" /\ logic.id = m
    BY <2>3 DEF BehindLogic
  <2> QED
    BY <1>2, <2>1, <2>2, <2>3 DEF Upstream, InFlight
<1> QED
  BY <1>1, <1>2 DEF Forwarded

LEMMA PassedIsForwarded == IInv => PassedForwarded
<1> SUFFICES ASSUME TypeOK, PipeInv, NEW n \in Nat, Passed(n) PROVE Forwarded(n)
  BY DEF IInv, TypeInv, PassedForwarded
<1>1. CASE Has(incomingPubChan, n)
  BY <1>1, BehindIsForwarded DEF Has, PipeInv, ChanBehind
<1>2. CASE router.pc = "handle" /\ router.id = n
  BY <1>2, BehindIsForwarded DEF PipeInv, RouterOrdered, BehindChan
<1>3. CASE Has(db, n)
  BY <1>3, BehindIsForwarded DEF Has, PipeInv, StoredBehind, BehindRouter, BehindChan
<1> QED
  BY <1>1, <1>2, <1>3 DEF Passed

LEMMA PipeIsSplit == IInv => PipeSplit
  BY PipeParts DEF IInv, TypeInv, TypeOK, PipeSplit

\* The router's message, or the channel's first, is the least in the pipe.
LEMMA HandledIsLeast ==
  ASSUME TypeOK, PipeInv, router.pc = "handle"
  PROVE  /\ router.id \in DOMAIN msgs /\ InPipe(router.id)
         /\ \A m \in Nat : InPipe(m) => router.id <= m
<1>1. router.id \in Nat /\ router.id >= 1 /\ BehindChan(router.id) /\ ReceiveTypeOK
  BY DEF TypeOK, RouterTypeOK, PipeInv, RouterOrdered
<1>2. BehindLogic(router.id)
  BY <1>1 DEF BehindChan
<1>3. router.id \in DOMAIN msgs /\ \A m \in Nat : Upstream(m) => router.id < m
  BY <1>1, <1>2, BehindIsForwarded DEF Forwarded
<1>4. ASSUME NEW m \in Nat, Has(incomingPubChan, m) PROVE router.id <= m
  <2>1. PICK j \in DOMAIN incomingPubChan : incomingPubChan[j] = m
    BY <1>4 DEF Has
  <2>2. j \in Nat /\ router.id + j <= m
    BY <1>1, <2>1 DEF BehindChan, TypeOK, RouterTypeOK
  <2> QED
    BY <1>1, <2>2
<1>5. InPipe(router.id)
  BY DEF InPipe
<1>6. ASSUME NEW m \in Nat, InPipe(m) PROVE router.id <= m
  <2>1. Upstream(m) \/ Has(incomingPubChan, m) \/ router.id = m
    BY <1>1, <1>6, PipeParts DEF AtRouter
  <2> QED
    BY <1>1, <1>3, <1>4, <2>1
<1> QED
  BY <1>3, <1>5, <1>6

LEMMA HeadIsLeast ==
  ASSUME TypeOK, PipeInv, router.pc # "handle", incomingPubChan # <<>>
  PROVE  /\ Head(incomingPubChan) \in DOMAIN msgs /\ InPipe(Head(incomingPubChan))
         /\ \A m \in Nat : InPipe(m) => Head(incomingPubChan) <= m
<1>1. /\ incomingPubChan \in Seq(Nat) /\ DOMAIN incomingPubChan = 1..Len(incomingPubChan)
      /\ 1 \in DOMAIN incomingPubChan /\ Head(incomingPubChan) = incomingPubChan[1]
      /\ ReceiveTypeOK
  BY HeadTailProperties DEF TypeOK, RouterTypeOK
<1>2. PICK h \in Nat : h = incomingPubChan[1]
  BY <1>1, ElementOfSeq
<1>3. h >= 1 /\ BehindLogic(h)
  BY <1>1, <1>2 DEF PipeInv, ChanBehind
<1>4. h \in DOMAIN msgs /\ \A m \in Nat : Upstream(m) => h < m
  BY <1>3, BehindIsForwarded DEF Forwarded
<1>5. ASSUME NEW m \in Nat, Has(incomingPubChan, m) PROVE h <= m
  <2>1. PICK j \in DOMAIN incomingPubChan : incomingPubChan[j] = m
    BY <1>5 DEF Has
  <2>2. j = 1 \/ (1 < j /\ h + (j - 1) <= m)
    <3>1. j \in Nat /\ j >= 1
      BY <1>1, <2>1
    <3>2. 1 < j => incomingPubChan[1] + (j - 1) <= incomingPubChan[j]
      BY <1>1, <2>1 DEF PipeInv, ChanOrdered
    <3> QED
      BY <1>2, <2>1, <3>1, <3>2
  <2> QED
    BY <1>1, <1>2, <2>1, <2>2
<1>6. InPipe(h)
  BY <1>1, <1>2 DEF InPipe
<1>7. ASSUME NEW m \in Nat, InPipe(m) PROVE h <= m
  <2>1. Upstream(m) \/ Has(incomingPubChan, m)
    BY <1>1, <1>7, PipeParts DEF AtRouter
  <2> QED
    BY <1>4, <1>5, <2>1
<1> QED
  BY <1>1, <1>2, <1>4, <1>6, <1>7

\* The least message in the pipe is the next to be taken.
LEMMA LeastIsNext ==
  ASSUME TypeOK, PipeIsTail, NEW p \in DOMAIN msgs, InPipe(p),
         \A m \in Nat : InPipe(m) => p <= m
  PROVE  p = Taken + 1
<1>1. Len(msgs) \in Nat /\ DOMAIN msgs = 1..Len(msgs)
  BY DEF TypeOK, PeerTypeOK
<1>2. Taken \in Nat /\ \A n \in DOMAIN msgs : InPipe(n) <=> n > Taken
  BY TakenIsLength
<1>3. p > Taken
  BY <1>2
<1>4. Taken + 1 \in DOMAIN msgs
  BY <1>1, <1>2, <1>3
<1>5. InPipe(Taken + 1)
  BY <1>2, <1>4
<1> QED
  BY <1>1, <1>2, <1>3, <1>5
-----------------------------------------------------------------------------
(* Who enters the pipe, and who leaves it.                                 *)

\* Only a message the broker sends becomes one alllogic still has to pass on.
LEMMA UpstreamComes ==
  ASSUME TypeInv, PipeInv, [Next]_vars, NEW n \in Nat, Upstream(n)'
  PROVE  Upstream(n) \/ (BrokerSends /\ n = Len(msgs) + 1)
<1>1. CASE InFlight(Pkt("PUBLISH", n))'
  <2>1. InFlight(Pkt("PUBLISH", n)) \/ (BrokerSends /\ n = Len(msgs) + 1)
    BY <1>1, InMoves, PktParts
  <2> QED
    BY <2>1 DEF Upstream
<1>2. CASE (logic.pc = "putPub" /\ logic.id = n)'
  <2>1. CASE LogicForward
    <3>1. LogicTakes("PUBLISH") /\ n = ibound[1].id
      BY <1>2, <2>1 DEF LogicForward
    <3> QED
      BY <3>1, TakenByLogic DEF Upstream
  <2>2. CASE LogicPutPub \/ LogicPutAck \/ LogicTimeout
    BY <1>2, <2>2 DEF LogicPutPub, LogicPutAck, LogicTimeout, TypeInv, TypeOK, ReceiveTypeOK
  <2>3. CASE UNCHANGED logic
    BY <1>2, <2>3 DEF Upstream
  <2> QED
    BY <2>1, <2>2, <2>3, LogicChanges
<1> QED
  BY <1>1, <1>2 DEF Upstream

LEMMA ForwardedStays ==
  ASSUME TypeInv, PipeInv, [Next]_vars, NEW n \in Nat, Forwarded(n)
  PROVE  Forwarded(n)'
<1>1. n \in DOMAIN msgs' /\ n # Len(msgs) + 1
  <2>1. n \in 1..Len(msgs) /\ Len(msgs) \in Nat
    BY DEF Forwarded, TypeInv, TypeOK, PeerTypeOK
  <2> QED
    BY <2>1, MsgsGrow DEF Forwarded
<1> QED
  BY <1>1, UpstreamComes DEF Forwarded

\* What alllogic passes on is at the router, for it was not stored before.
LEMMA UpstreamGoes ==
  ASSUME TypeInv, PipeInv, [Next]_vars, NEW n \in Nat, Upstream(n)
  PROVE  Upstream(n)' \/ AtRouter(n)'
<1>1. CASE LogicPutPub
  <2>1. Upstream(n)' \/ Passed(n)'
    BY UpstreamMoves
  <2>2. ~Has(db, n)
    BY PassedIsForwarded DEF IInv, PassedForwarded, Passed, Forwarded
  <2>3. ~Has(db, n)'
    BY <1>1, <2>2 DEF LogicPutPub, Has
  <2> QED
    BY <2>1, <2>3 DEF Passed, AtRouter
<1>2. CASE Persist
  BY <1>2 DEF Persist, Upstream, InFlight
<1>3. CASE ~LogicPutPub /\ ~Persist
  <2>1. Upstream(n)' \/ Passed(n)'
    BY UpstreamMoves
  <2>2. ~Has(db, n)
    BY PassedIsForwarded DEF IInv, PassedForwarded, Passed, Forwarded
  <2>3. UNCHANGED db
    BY <1>3, RouterFrame DEF AddRoute, ReceiveMsg, Dispatch, RunDefault, routerVars
  <2>4. ~Has(db, n)'
    BY <2>2, <2>3 DEF Has
  <2> QED
    BY <2>1, <2>4 DEF Passed, AtRouter
<1> QED
  BY <1>1, <1>2, <1>3

LEMMA RouterMoves ==
  ASSUME TypeInv, [Next]_vars, NEW n \in Nat
  PROVE  /\ AtRouter(n)' => AtRouter(n) \/ Upstream(n)
         /\ AtRouter(n) => \/ AtRouter(n)'
                           \/ /\ Dispatch /\ n = Head(incomingPubChan)
                              /\ router'.pc # "handle"
                           \/ Persist /\ n = router.id
<1>0. incomingPubChan \in Seq(Nat) /\ logic.id \in Nat /\ router.id \in Nat
      /\ "pc" \in DOMAIN router
  BY DEF TypeInv, TypeOK, ReceiveTypeOK, RouterTypeOK
<1>1. CASE LogicPutPub
  <2>1. /\ incomingPubChan' = Append(incomingPubChan, logic.id) /\ UNCHANGED router
        /\ logic.pc = "putPub"
    BY <1>1 DEF LogicPutPub
  <2>2. Has(incomingPubChan', n) <=> Has(incomingPubChan, n) \/ n = logic.id
    BY <1>0, <2>1, HasAppend
  <2> QED
    BY <2>1, <2>2 DEF AtRouter, Upstream
<1>2. CASE Dispatch
  <2>1. /\ incomingPubChan # <<>> /\ incomingPubChan' = Tail(incomingPubChan)
        /\ router.pc = "select" /\ router'.id = Head(incomingPubChan)
    BY <1>2 DEF Dispatch
  <2>2. Has(incomingPubChan, n) <=> n = Head(incomingPubChan) \/ Has(incomingPubChan', n)
    BY <1>0, <2>1, HasTail
  <2> QED
    BY <1>2, <2>1, <2>2 DEF AtRouter
<1>3. CASE Persist
  <2>1. UNCHANGED incomingPubChan /\ router'.pc # "handle" /\ router.pc = "handle"
    BY <1>0, <1>3 DEF Persist
  <2> QED
    BY <1>3, <2>1 DEF AtRouter
<1>4. CASE ReceiveMsg \/ RunDefault
  <2>1. UNCHANGED incomingPubChan /\ router'.pc # "handle" /\ router.pc # "handle"
    BY <1>0, <1>4 DEF ReceiveMsg, RunDefault
  <2> QED
    BY <2>1 DEF AtRouter
<1>5. CASE AddRoute \/ UNCHANGED routerVars
  BY <1>5 DEF AddRoute, routerVars, AtRouter
<1> QED
  BY RouterFrame, <1>1, <1>2, <1>3, <1>4, <1>5

\* A step takes at most one message out of the pipe: the least one.
LEMMA PipeMoves ==
  ASSUME TypeInv, PipeInv, PipeSplit', [Next]_vars, NEW n \in Nat
  PROVE  /\ InPipe(n)' => InPipe(n) \/ (BrokerSends /\ n = Len(msgs) + 1)
         /\ InPipe(n) => \/ InPipe(n)'
                         \/ /\ Dispatch /\ n = Head(incomingPubChan)
                            /\ router'.pc # "handle"
                         \/ Persist /\ n = router.id
<1>1. InPipe(n) <=> Upstream(n) \/ AtRouter(n)
  BY PipeParts DEF TypeInv, TypeOK
<1>2. (InPipe(n) <=> Upstream(n) \/ AtRouter(n))'
  BY DEF PipeSplit
<1> QED
  BY <1>1, <1>2, UpstreamComes, UpstreamGoes, RouterMoves

LEMMA Leaves ==
  ASSUME TypeInv, PipeInv, NEW n \in Nat,
         (Dispatch /\ n = Head(incomingPubChan)) \/ (Persist /\ n = router.id)
  PROVE  n \in DOMAIN msgs /\ InPipe(n) /\ \A m \in Nat : InPipe(m) => n <= m
<1>1. CASE Dispatch /\ n = Head(incomingPubChan)
  BY <1>1, HeadIsLeast DEF Dispatch, TypeInv
<1>2. CASE Persist /\ n = router.id
  BY <1>2, HandledIsLeast DEF Persist, TypeInv
<1> QED
  BY <1>1, <1>2

LEMMA SentIsInPipe ==
  ASSUME TypeInv, BrokerSends, NEW n \in Nat, n = Len(msgs) + 1
  PROVE  InPipe(n)'
<1>1. toClient \in Seq(InPkt) /\ toClient' = Append(toClient, Pkt("PUBLISH", n))
  BY DEF BrokerSends, TypeInv, TypeOK, ReceiveTypeOK
<1>2. Pkt("PUBLISH", n) \in InPkt
  BY InPktOK DEF InType
<1>3. Has(toClient', Pkt("PUBLISH", n))
  BY <1>1, <1>2, HasAppend
<1> QED
  BY <1>3 DEF InPipe, Has

LEMMA TailStep ==
  ASSUME TypeInv, TypeInv', PipeInv, PipeSplit', PipeIsTail, [Next]_vars
  PROVE  PipeIsTail'
<1> SUFFICES ASSUME NEW m \in DOMAIN msgs', NEW n \in DOMAIN msgs', m < n, InPipe(m)'
             PROVE  InPipe(n)'
  BY DEF PipeIsTail
<1>1. /\ Len(msgs) \in Nat /\ DOMAIN msgs = 1..Len(msgs)
      /\ m \in Nat /\ n \in Nat
      /\ DOMAIN msgs' = DOMAIN msgs \/ (BrokerSends /\ DOMAIN msgs' = 1..Len(msgs) + 1)
  <2>1. msgs \in Seq([topic : Nat, qos : 0..2, dup : BOOLEAN])
        /\ msgs' \in Seq([topic : Nat, qos : 0..2, dup : BOOLEAN])
    BY DEF TypeInv, TypeOK, PeerTypeOK
  <2>2. Len(msgs) \in Nat /\ DOMAIN msgs = 1..Len(msgs)
    BY <2>1
  <2>3. UNCHANGED msgs \/ (BrokerSends /\ DOMAIN msgs' = DOMAIN msgs \cup {Len(msgs) + 1})
    BY MsgsGrow
  <2>4. DOMAIN msgs' \subseteq Nat
    BY <2>1
  <2>5. DOMAIN msgs \cup {Len(msgs) + 1} = 1..Len(msgs) + 1
    BY <2>2
  <2> QED
    BY <2>2, <2>3, <2>4, <2>5
<1>2. m \in DOMAIN msgs /\ InPipe(m)
  BY <1>1, PipeMoves
<1>3. CASE n \in DOMAIN msgs
  <2>1. InPipe(n)
    BY <1>2, <1>3 DEF PipeIsTail
  <2>2. ~(Dispatch /\ n = Head(incomingPubChan)) /\ ~(Persist /\ n = router.id)
    BY <1>1, <1>2, Leaves
  <2> QED
    BY <1>1, <2>1, <2>2, PipeMoves
<1>4. CASE n \notin DOMAIN msgs
  <2>1. BrokerSends /\ n = Len(msgs) + 1
    BY <1>1, <1>4
  <2> QED
    BY <2>1, SentIsInPipe
<1> QED
  BY <1>3, <1>4

LEMMA ForwardStep ==
  ASSUME TypeInv, PipeInv, ConfirmedForwarded, PassedForwarded', [Next]_vars
  PROVE  ConfirmedForwarded'
<1> SUFFICES ASSUME NEW n \in Nat, Confirming(n)' PROVE Forwarded(n)'
  BY DEF ConfirmedForwarded
<1>1. CASE Confirming(n)
  BY <1>1, ForwardedStays DEF ConfirmedForwarded
<1>2. CASE Passed(n)'
  BY <1>2 DEF PassedForwarded
<1> QED
  BY <1>1, <1>2, ConfirmingMoves

LEMMA IngestInvInit == Init => IngestInv
<1>1. Init => PipeIsTail /\ ConfirmedForwarded
  BY DEF Init, PipeIsTail, ConfirmedForwarded, Confirming, OutFlight, InFlight, Has
<1> QED
  BY <1>1, RouteInit DEF IngestInv

LEMMA IngestInductive == Spec => []IngestInv
<1>1. IInv /\ IInv' /\ PassedForwarded' /\ PipeSplit' /\ IngestInv /\ [Next]_vars => IngestInv'
  BY TailStep, ForwardStep, RouteStep DEF IInv, IngestInv
<1> QED
  BY <1>1, IngestInvInit, Inductive, PassedIsForwarded, PipeIsSplit, PTL DEF Spec
-----------------------------------------------------------------------------
(* How far confirmations run ahead.                                        *)

\* The messages of the pipe that alllogic is done with are the router's and
\* those in the channel, each in a place of its own.
LEMMA WindowHolds ==
  ASSUME IInv, PipeIsTail, NEW n \in Nat, Forwarded(n)
  PROVE  n <= Taken + (PubCap + 1)
<1> DEFINE A == Taken + 1..n
           place == [m \in A |-> IF router.pc = "handle" /\ router.id = m THEN 0
                                 ELSE CHOOSE j \in DOMAIN incomingPubChan : incomingPubChan[j] = m]
<1>1. /\ Taken \in Nat /\ PubCap \in Nat /\ Len(msgs) \in Nat /\ DOMAIN msgs = 1..Len(msgs)
      /\ \A m \in DOMAIN msgs : InPipe(m) <=> m > Taken
      /\ DOMAIN incomingPubChan = 1..Len(incomingPubChan) /\ Len(incomingPubChan) \in Nat
      /\ Len(incomingPubChan) <= PubCap
  BY TakenIsLength, PlumberAssumption DEF IInv, TypeInv, TypeOK, PeerTypeOK, RouterTypeOK
<1>2. SUFFICES ASSUME n > Taken PROVE n <= Taken + (PubCap + 1)
  <2>1. Taken \in Nat /\ PubCap \in Nat
    BY <1>1
  <2> QED
    BY <2>1
<1>3. n \in DOMAIN msgs /\ AtRouter(n)
  BY <1>1, <1>2, PipeIsSplit DEF Forwarded, PipeSplit
<1>4. \A m \in Nat : Upstream(m) => n < m
  <2>1. TypeOK /\ PipeInv
    BY DEF IInv, TypeInv
  <2>2. BehindLogic(n) /\ n >= 1
    <3>1. CASE Has(incomingPubChan, n)
      BY <2>1, <3>1 DEF Has, PipeInv, ChanBehind
    <3>2. CASE router.pc = "handle" /\ router.id = n
      BY <2>1, <3>2 DEF PipeInv, RouterOrdered, BehindChan
    <3> QED
      BY <1>3, <3>1, <3>2 DEF AtRouter
  <2> QED
    BY <2>1, <2>2, BehindIsForwarded
<1>5. ASSUME NEW m \in A PROVE AtRouter(m)
  <2>1. m \in Nat /\ m \in DOMAIN msgs /\ m > Taken /\ m <= n
    BY <1>1, <1>3
  <2>2. InPipe(m)
    BY <1>1, <2>1
  <2>3. ~Upstream(m)
    BY <1>4, <2>1
  <2> QED
    BY <2>1, <2>2, <2>3, PipeIsSplit DEF PipeSplit
<1>6. ASSUME NEW m \in A
      PROVE  /\ place[m] \in 0..PubCap
             /\ place[m] = 0 => router.id = m
             /\ place[m] # 0 => m = incomingPubChan[place[m]]
  <2>1. CASE router.pc = "handle" /\ router.id = m
    BY <1>1, <2>1
  <2>2. CASE ~(router.pc = "handle" /\ router.id = m)
    <3>1. \E j \in DOMAIN incomingPubChan : incomingPubChan[j] = m
      BY <1>5, <2>2 DEF AtRouter, Has
    <3>2. place[m] \in DOMAIN incomingPubChan /\ incomingPubChan[place[m]] = m
      BY <2>2, <3>1
    <3> QED
      BY <1>1, <3>2
  <2> QED
    BY <2>1, <2>2
<1>7. place \in Injection(A, 0..PubCap)
  <2>1. place \in [A -> 0..PubCap]
    BY <1>6
  <2> HIDE DEF place
  <2>2. \A x, y \in A : place[x] = place[y] => x = y
    BY <1>6
  <2> QED
    BY <2>1, <2>2 DEF Injection, IsInjective
<1>8. Cardinality(A) = n - Taken
  BY <1>1, <1>2, FS_Interval
<1>9. IsFiniteSet(0..PubCap) /\ Cardinality(0..PubCap) = PubCap + 1
  BY <1>1, FS_Interval
<1> HIDE DEF A, place
<1>10. Cardinality(A) <= Cardinality(0..PubCap)
  BY <1>7, <1>9, FS_Injection
<1> QED
  BY <1>1, <1>8, <1>9, <1>10
-----------------------------------------------------------------------------
(* The refinement: what each step is to the tap.                           *)

Flags == [n \in DOMAIN msgs |-> msgs[n].dup]

\* The messages the tap is done with.
Done == {n \in DOMAIN msgs : ~InPipe(n)}

LEMMA FlagsOK ==
  ASSUME TypeOK
  PROVE  /\ Flags \in Seq(BOOLEAN) /\ Len(Flags) = Len(msgs) /\ Len(msgs) \in Nat
         /\ DOMAIN Flags = DOMAIN msgs /\ DOMAIN msgs = 1..Len(msgs)
         /\ \A n \in DOMAIN msgs : Flags[n] = msgs[n].dup
<1>1. msgs \in Seq([topic : Nat, qos : 0..2, dup : BOOLEAN])
  BY DEF TypeOK, PeerTypeOK
<1>2. Len(msgs) \in Nat /\ DOMAIN msgs = 1..Len(msgs) /\ \A n \in DOMAIN msgs : msgs[n].dup \in BOOLEAN
  <2>1. Len(msgs) \in Nat /\ DOMAIN msgs = 1..Len(msgs)
    BY <1>1
  <2>2. \A n \in DOMAIN msgs : msgs[n] \in [topic : Nat, qos : 0..2, dup : BOOLEAN]
    BY <1>1, <2>1, ElementOfSeq
  <2> QED
    BY <2>1, <2>2
<1>3. Flags \in [1..Len(msgs) -> BOOLEAN]
  BY <1>2 DEF Flags
<1>4. Flags \in Seq(BOOLEAN) /\ Len(Flags) = Len(msgs)
  BY <1>2, <1>3
<1> QED
  BY <1>2, <1>4 DEF Flags

\* A step that neither takes a message nor sends one.
LEMMA TakesNone ==
  ASSUME TypeInv, PipeInv, PipeSplit', [Next]_vars,
         ~Persist, ~Dispatch \/ router'.pc = "handle"
  PROVE  UNCHANGED Taken
<1>1. DOMAIN msgs \subseteq Nat /\ Len(msgs) \in Nat /\ DOMAIN msgs = 1..Len(msgs)
  BY DEF TypeInv, TypeOK, PeerTypeOK
<1>2. CASE UNCHANGED msgs
  <2>1. ASSUME NEW n \in DOMAIN msgs PROVE InPipe(n)' <=> InPipe(n)
    <3>1. n \in Nat /\ n # Len(msgs) + 1
      BY <1>1
    <3> QED
      BY <3>1, PipeMoves
  <2>2. Done' = Done
    BY <1>2, <2>1 DEF Done
  <2> QED
    BY <2>2 DEF Taken, Done
<1>3. CASE BrokerSends
  <2>1. PICK m \in Nat : m = Len(msgs) + 1
    BY <1>1
  <2>2. DOMAIN msgs' = DOMAIN msgs \cup {m}
    <3>1. ~UNCHANGED msgs
      <4>1. Len(msgs') = Len(msgs) + 1
        BY <1>3 DEF BrokerSends, TypeInv, TypeOK, PeerTypeOK
      <4> QED
        BY <1>1, <4>1
    <3> QED
      BY <2>1, <3>1, MsgsGrow
  <2>3. InPipe(m)'
    BY <1>3, <2>1, SentIsInPipe
  <2>4. ASSUME NEW n \in DOMAIN msgs PROVE InPipe(n)' <=> InPipe(n)
    <3>1. n \in Nat /\ n # Len(msgs) + 1
      BY <1>1
    <3> QED
      BY <3>1, PipeMoves
  <2>5. Done' = Done
    BY <2>2, <2>3, <2>4 DEF Done
  <2> QED
    BY <2>5 DEF Taken, Done
<1> QED
  BY <1>2, <1>3, MsgsGrow

\* A message leaves: it is the next one.
LEMMA TakesNext ==
  ASSUME TypeInv, PipeInv, PipeSplit', PipeIsTail, [Next]_vars, NEW n \in Nat,
         \/ Dispatch /\ n = Head(incomingPubChan) /\ router'.pc # "handle"
         \/ Persist /\ n = router.id,
         UNCHANGED msgs, ~InPipe(n)'
  PROVE  n \in DOMAIN msgs /\ n = Taken + 1 /\ Taken' = Taken + 1
<1>1. n \in DOMAIN msgs /\ InPipe(n) /\ \A m \in Nat : InPipe(m) => n <= m
  BY Leaves
<1>2. n = Taken + 1
  BY <1>1, LeastIsNext DEF TypeInv
<1>3. IsFiniteSet(Done)
  BY TakenIsLength DEF TypeInv, Done
<1>4. Done' = Done \cup {n}
  <2>1. \A m \in DOMAIN msgs : m \in Nat /\ m # Len(msgs) + 1
    BY DEF TypeInv, TypeOK, PeerTypeOK
  <2>2. ASSUME NEW m \in DOMAIN msgs, m # n PROVE InPipe(m)' <=> InPipe(m)
    <3>1. ~(Dispatch /\ m = Head(incomingPubChan)) /\ ~(Persist /\ m = router.id)
      <4>1. ~(Dispatch /\ Persist)
        BY DEF Dispatch, Persist
      <4> QED
        BY <2>2, <4>1
    <3> QED
      BY <2>1, <3>1, PipeMoves
  <2> QED
    BY <1>1, <2>2 DEF Done
<1>5. n \notin Done
  BY <1>1 DEF Done
<1>6. Cardinality(Done') = Cardinality(Done) + 1
  BY <1>3, <1>4, <1>5, FS_AddElement
<1> QED
  BY <1>1, <1>2, <1>6 DEF Taken, Done

LEMMA PersistTakes ==
  ASSUME IInv, PipeSplit', PipeIsTail, Clean => RouteInv, Persist, [Next]_vars
  PROVE  I!Take
<1>1. TypeInv /\ TypeOK /\ PipeInv
  BY DEF IInv, TypeInv
<1>2. /\ router.pc = "handle" /\ router'.pc = "send" /\ router.id \in Nat
      /\ UNCHANGED <<toClient, ibound, logic, incomingPubChan, msgs, acked>>
      /\ db' = IF msgs[router.id].dup THEN db ELSE Append(db, router.id)
  BY <1>1 DEF Persist, TypeOK, RouterTypeOK, brokerVars
<1>3. PICK p \in Nat : p = router.id
  BY <1>2
<1>4. ~InPipe(p)'
  <2>1. ~Upstream(p) /\ ~Has(incomingPubChan, p)
    <3>1. ~Upstream(p)
      BY <1>2, <1>3, PassedIsForwarded DEF PassedForwarded, Passed, Forwarded
    <3>2. BehindChan(p)
      BY <1>1, <1>2, <1>3 DEF PipeInv, RouterOrdered
    <3>3. \A j \in DOMAIN incomingPubChan : j \in Nat /\ j >= 1 /\ p + j <= incomingPubChan[j]
      BY <1>1, <3>2 DEF BehindChan, TypeOK, RouterTypeOK
    <3> QED
      BY <3>1, <3>3 DEF Has
  <2>2. ~Upstream(p)' /\ ~AtRouter(p)'
    BY <1>2, <2>1 DEF Upstream, InFlight, Has, AtRouter
  <2> QED
    BY <2>2 DEF PipeSplit
<1>5. p \in DOMAIN msgs /\ p = Taken + 1 /\ Taken' = Taken + 1
  BY <1>1, <1>2, <1>3, <1>4, TakesNext
<1>6. Taken \in Nat /\ Flags[p] = msgs[p].dup /\ Taken < Len(Flags) /\ Flags' = Flags
  <2>1. Taken \in Nat
    BY <1>1, TakenIsLength
  <2>2. Flags[p] = msgs[p].dup /\ p <= Len(Flags)
    BY <1>1, <1>5, FlagsOK
  <2>3. Flags' = Flags
    BY <1>2 DEF Flags
  <2> QED
    BY <1>1, <1>5, <2>1, <2>2, <2>3, FlagsOK
<1>7. \/ ~Flags[Taken + 1] /\ db' = Append(db, Taken + 1)
      \/ ~Clean /\ UNCHANGED db
  <2>1. CASE msgs[p].dup
    BY <1>2, <1>3, <1>5, <2>1 DEF RouteInv
  <2>2. CASE ~msgs[p].dup
    BY <1>2, <1>3, <1>5, <1>6, <2>2
  <2> QED
    BY <2>1, <2>2
<1> QED
  BY <1>2, <1>5, <1>6, <1>7 DEF I!Take, Flags

LEMMA PassingOverTakes ==
  ASSUME IInv, PipeSplit', PipeIsTail, Clean => RouteInv, Dispatch, router'.pc # "handle",
         [Next]_vars
  PROVE  I!Take
<1>1. TypeInv /\ TypeOK /\ PipeInv
  BY DEF IInv, TypeInv
<1>2. /\ router.pc = "select" /\ incomingPubChan # <<>> /\ incomingPubChan \in Seq(Nat)
      /\ incomingPubChan' = Tail(incomingPubChan)
      /\ UNCHANGED <<toClient, ibound, logic, msgs, acked, db>>
  BY <1>1 DEF Dispatch, TypeOK, RouterTypeOK, brokerVars
<1>3. PICK p \in Nat : p = Head(incomingPubChan)
  BY <1>2, HeadTailProperties
<1>4. ~InPipe(p)'
  <2>1. ~Upstream(p)
    <3>1. Has(incomingPubChan, p)
      BY <1>2, <1>3, HasTail
    <3> QED
      BY <3>1, PassedIsForwarded DEF PassedForwarded, Passed, Forwarded
  <2>2. ~Has(incomingPubChan', p)
    <3>1. /\ Len(incomingPubChan) \in Nat \ {0} /\ DOMAIN incomingPubChan = 1..Len(incomingPubChan)
          /\ DOMAIN incomingPubChan' = 1..Len(incomingPubChan) - 1
          /\ \A j \in 1..Len(incomingPubChan) - 1 : incomingPubChan'[j] = incomingPubChan[j + 1]
          /\ p = incomingPubChan[1]
      BY <1>2, <1>3, HeadTailProperties
    <3>2. ASSUME NEW j \in 1..Len(incomingPubChan) - 1 PROVE p + j <= incomingPubChan[j + 1]
      <4>1. 1 \in DOMAIN incomingPubChan /\ j + 1 \in DOMAIN incomingPubChan /\ 1 < j + 1
        BY <3>1
      <4>2. incomingPubChan[1] + ((j + 1) - 1) <= incomingPubChan[j + 1]
        BY <1>1, <4>1 DEF PipeInv, ChanOrdered
      <4> QED
        BY <3>1, <4>2
    <3>3. \A j \in 1..Len(incomingPubChan) - 1 : incomingPubChan'[j] # p
      BY <3>1, <3>2
    <3> QED
      BY <3>1, <3>3 DEF Has
  <2>3. ~Upstream(p)' /\ ~AtRouter(p)'
    BY <1>2, <2>1, <2>2 DEF Upstream, InFlight, Has, AtRouter
  <2> QED
    BY <2>3 DEF PipeSplit
<1>5. p \in DOMAIN msgs /\ p = Taken + 1 /\ Taken' = Taken + 1
  BY <1>1, <1>2, <1>3, <1>4, TakesNext
<1>6. Taken < Len(Flags) /\ Flags' = Flags
  <2>1. Taken \in Nat
    BY <1>1, TakenIsLength
  <2>2. Flags' = Flags
    BY <1>2 DEF Flags
  <2> QED
    BY <1>1, <1>5, <2>1, <2>2, FlagsOK
<1>7. ~Clean
  BY <1>1, DispatchHandles
<1> QED
  BY <1>2, <1>5, <1>6, <1>7 DEF I!Take, Flags

LEMMA SendingSends ==
  ASSUME IInv, PipeSplit', BrokerSends, [Next]_vars
  PROVE  \E dup \in BOOLEAN : I!Send(dup)
<1>1. TypeInv /\ TypeOK /\ PipeInv
  BY DEF IInv, TypeInv
<1>2. PICK t \in granted, q \in 0..Qos, dup \in BOOLEAN :
          /\ dup => ~Clean
          /\ msgs' = Append(msgs, [topic |-> t, qos |-> q, dup |-> dup])
  BY DEF BrokerSends
<1>3. msgs \in Seq([topic : Nat, qos : 0..2, dup : BOOLEAN]) /\ Len(msgs) \in Nat
  BY <1>1 DEF TypeOK, PeerTypeOK
<1>4. /\ DOMAIN msgs = 1..Len(msgs) /\ DOMAIN msgs' = 1..Len(msgs) + 1
      /\ \A n \in 1..Len(msgs) : msgs'[n] = msgs[n]
      /\ msgs'[Len(msgs) + 1].dup = dup
  BY <1>2, <1>3
<1>5. Flags' = Append(Flags, dup)
  <2>1. /\ Flags \in Seq(BOOLEAN) /\ Len(Flags) = Len(msgs)
        /\ \A n \in 1..Len(msgs) : Flags[n] = msgs[n].dup
    BY <1>1, FlagsOK
  <2>2. /\ Append(Flags, dup) \in Seq(BOOLEAN) /\ Len(Append(Flags, dup)) = Len(msgs) + 1
        /\ \A n \in 1..Len(msgs) : Append(Flags, dup)[n] = Flags[n]
        /\ Append(Flags, dup)[Len(msgs) + 1] = dup
    BY <2>1, AppendProperties
  <2>3. Flags' = [n \in 1..Len(msgs) + 1 |-> msgs'[n].dup]
    BY <1>4 DEF Flags
  <2>4. ASSUME NEW n \in 1..Len(msgs) + 1
        PROVE  msgs'[n].dup = Append(Flags, dup)[n] /\ Append(Flags, dup)[n] \in BOOLEAN
    <3>1. n = Len(msgs) + 1 \/ n \in 1..Len(msgs)
      BY <1>3
    <3>2. Append(Flags, dup)[n] \in BOOLEAN
      BY <2>2, ElementOfSeq
    <3>3. CASE n = Len(msgs) + 1
      BY <1>4, <2>2, <3>2, <3>3
    <3>4. CASE n \in 1..Len(msgs)
      BY <1>4, <2>1, <2>2, <3>2, <3>4
    <3> QED
      BY <3>1, <3>3, <3>4
  <2>5. Flags' \in Seq(BOOLEAN) /\ Len(Flags') = Len(msgs) + 1
    <3>1. Len(msgs) + 1 \in Nat
      BY <1>3
    <3>2. Flags' \in [1..Len(msgs) + 1 -> BOOLEAN]
      BY <2>3, <2>4
    <3> QED
      BY <3>1, <3>2
  <2> QED
    BY <2>2, <2>3, <2>4, <2>5, SeqEqual
<1>6. ~Persist /\ ~Dispatch
  <2>1. Len(msgs') # Len(msgs)
    BY <1>2, <1>3
  <2> QED
    BY <2>1 DEF Persist, Dispatch, brokerVars
<1>7. UNCHANGED Taken
  BY <1>1, <1>6, TakesNone
<1>8. UNCHANGED <<db, acked>>
  BY DEF BrokerSends, routerVars
<1> QED
  BY <1>2, <1>5, <1>7, <1>8 DEF I!Send, Flags

LEMMA ConfirmingConfirms ==
  ASSUME IInv, IngestInv, PipeSplit', BrokerAcked, [Next]_vars
  PROVE  \E n \in DOMAIN Flags : I!Confirm(n)
<1>1. TypeInv /\ TypeOK /\ PipeInv
  BY DEF IInv, TypeInv
<1>2. PICK n \in Nat : n = Head(toBroker).id
  BY <1>1, TakenByBroker DEF BrokerAcked
<1>3. Confirming(n)
  BY <1>1, <1>2, TakenByBroker DEF BrokerAcked, Confirming
<1>4. Forwarded(n)
  BY <1>3 DEF IngestInv, ConfirmedForwarded
<1>5. n <= Taken + (PubCap + 1)
  BY <1>4, WindowHolds DEF IngestInv
<1>6. /\ acked' = acked \cup {n} /\ UNCHANGED <<logic, routerVars, msgs>>
      /\ toBroker' = Tail(toBroker) /\ toBroker # <<>>
  BY <1>2 DEF BrokerAcked, BrokerTakes
<1>7. ~Persist /\ ~Dispatch
  <2>1. ~Persist
    BY <1>1, <1>6 DEF Persist, routerVars, TypeOK, RouterTypeOK
  <2>2. ~Dispatch
    <3>1. incomingPubChan \in Seq(Nat) /\ incomingPubChan' = incomingPubChan
      BY <1>1, <1>6 DEF TypeOK, RouterTypeOK, routerVars
    <3>2. SUFFICES ASSUME incomingPubChan # <<>>, incomingPubChan' = Tail(incomingPubChan)
                   PROVE  FALSE
      BY DEF Dispatch
    <3>3. Len(incomingPubChan) \in Nat /\ Len(incomingPubChan') = Len(incomingPubChan) - 1
      BY <3>1, <3>2, HeadTailProperties
    <3> QED
      BY <3>1, <3>3
  <2> QED
    BY <2>1, <2>2
<1>8. UNCHANGED Taken
  BY <1>1, <1>7, TakesNone
<1>9. UNCHANGED <<Flags, db>>
  BY <1>6 DEF Flags, routerVars
<1>10. n \in DOMAIN Flags
  BY <1>4 DEF Forwarded, Flags
<1> QED
  BY <1>5, <1>6, <1>8, <1>9, <1>10 DEF I!Confirm, Flags

LEMMA IngestStep ==
  ASSUME IInv, IngestInv, PipeSplit', [Next]_vars
  PROVE  [I!INext]_(I!ivars)
<1>1. TypeInv /\ PipeInv
  BY DEF IInv
<1>2. CASE Persist
  <2>1. I!Take
    BY <1>2, PersistTakes DEF IngestInv
  <2> QED
    BY <2>1 DEF I!INext
<1>3. CASE Dispatch /\ router'.pc # "handle"
  <2>1. I!Take
    BY <1>3, PassingOverTakes DEF IngestInv
  <2> QED
    BY <2>1 DEF I!INext
<1>4. CASE BrokerSends
  <2>1. \E dup \in BOOLEAN : I!Send(dup)
    BY <1>4, SendingSends
  <2> QED
    BY <2>1 DEF I!INext
<1>5. CASE BrokerAcked
  <2>1. \E n \in DOMAIN Flags : I!Confirm(n)
    BY <1>5, ConfirmingConfirms
  <2> QED
    BY <2>1 DEF I!INext, Flags
<1>6. CASE ~Persist /\ (~Dispatch \/ router'.pc = "handle") /\ ~BrokerSends /\ ~BrokerAcked
  <2>1. UNCHANGED Taken
    BY <1>1, <1>6, TakesNone
  <2>2. UNCHANGED msgs
    BY <1>1, <1>6, MsgsGrow
  <2>3. UNCHANGED db
    BY <1>6, RouterFrame DEF AddRoute, ReceiveMsg, LogicPutPub, Dispatch, RunDefault, routerVars
  <2>4. UNCHANGED acked
    BY <1>6, PeerFrame DEF OutgoingPublish, LogicSuback, LogicPubAcked, BrokerSubscribe,
                           BrokerPublish, brokerVars
  <2> QED
    BY <2>1, <2>2, <2>3, <2>4 DEF I!ivars
<1> QED
  BY <1>2, <1>3, <1>4, <1>5, <1>6

LEMMA IngestInit == Init => I!IInit
<1> SUFFICES ASSUME Init PROVE I!IInit
  OBVIOUS
<1>1. msgs = <<>> /\ db = <<>> /\ acked = {}
  BY DEF Init
<1>2. Flags = <<>>
  BY <1>1 DEF Flags
<1>3. Done = {}
  BY <1>1 DEF Done
<1>4. Taken = 0
  BY <1>3, FS_EmptySet DEF Taken, Done
<1> QED
  BY <1>1, <1>2, <1>4 DEF I!IInit, Flags

\* Whatever the session, the capacities and the interleaving, mqtt-plumber is a
\* tap: it takes the messages in order, stores each once or, in a kept session,
\* passes it over, and confirms at most PubCap + 1 messages it has not taken.
THEOREM PlumberImplementsIngest == Spec => ImplementsIngest
<1>1. IInv /\ IngestInv /\ PipeSplit' /\ [Next]_vars => [I!INext]_(I!ivars)
  BY IngestStep
<1> QED
  BY <1>1, IngestInit, Inductive, IngestInductive, PipeIsSplit, PTL
  DEF Spec, ImplementsIngest, I!ISpec
=============================================================================
