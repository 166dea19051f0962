--------------------------- MODULE Plumber_proofs ---------------------------
(***************************************************************************)
(* Proofs about Plumber, for every number of topics, messages and lines    *)
(* and every channel capacity: type correctness; that messages are stored  *)
(* in order and once; and that no more messages than incomingPubChan and   *)
(* one hand can hold never wedge the program.                              *)
(***************************************************************************)
EXTENDS Plumber, TLAPS, SequenceTheorems

-----------------------------------------------------------------------------
(* Type correctness.  The counters of main need its position.              *)

MainOK ==
    /\ main.pc \in {"route", "subscribe", "waitSub"} => main.sub <= NSubs
    /\ main.pub + (IF stdin.pc = "send" THEN 1 ELSE 0) <= stdin.lines

TypeInv == TypeOK /\ MainOK
-----------------------------------------------------------------------------
(* The pipe from the connection to the database, stage by stage.  Number n *)
(* is behind a stage when every message there, and every later one, has a  *)
(* larger number.                                                          *)

BehindClient(n) ==
    /\ n <= Len(msgs)
    /\ \A j \in DOMAIN toClient : toClient[j].type = "PUBLISH" => n < toClient[j].id

BehindIbound(n) ==
    /\ BehindClient(n)
    /\ ibound # <<>> /\ ibound[1].type = "PUBLISH" => n < ibound[1].id

BehindLogic(n) == BehindIbound(n) /\ (logic.pc = "putPub" => n < logic.id)

BehindChan(n) ==
    /\ BehindLogic(n)
    /\ \A j \in DOMAIN incomingPubChan : n + j <= incomingPubChan[j]

BehindRouter(n) ==
    /\ BehindChan(n)
    /\ router.pc = "send" => n <= router.id
    /\ router.pc \in {"handle", "unmatched", "default"} => n < router.id

ClientOrdered ==
    \A i, j \in DOMAIN toClient :
        /\ toClient[i].type = "PUBLISH" => toClient[i].id >= 1 /\ toClient[i].id <= Len(msgs)
        /\ i < j /\ toClient[i].type = "PUBLISH" /\ toClient[j].type = "PUBLISH"
              => toClient[i].id < toClient[j].id

ChanOrdered ==
    \A i, j \in DOMAIN incomingPubChan :
        i < j => incomingPubChan[i] + (j - i) <= incomingPubChan[j]

IboundOrdered ==
    ibound # <<>> /\ ibound[1].type = "PUBLISH" =>
        ibound[1].id >= 1 /\ BehindClient(ibound[1].id)

LogicOrdered == logic.pc = "putPub" => logic.id >= 1 /\ BehindIbound(logic.id)

ChanBehind ==
    \A i \in DOMAIN incomingPubChan :
        incomingPubChan[i] >= 1 /\ BehindLogic(incomingPubChan[i])

RouterOrdered == router.pc # "select" => router.id >= 1 /\ BehindChan(router.id)

StoredBehind == \A i \in DOMAIN db : db[i] >= 1 /\ BehindRouter(db[i])

PipeInv ==
    /\ ClientOrdered /\ IboundOrdered /\ LogicOrdered
    /\ ChanOrdered /\ ChanBehind /\ RouterOrdered
    /\ StoredBehind /\ StoredInOrder
    /\ Len(msgs) <= MaxMsgs

IInv == TypeInv /\ PipeInv
-----------------------------------------------------------------------------
\* The actions that change what main and the stdin reader keep.
LEMMA MainFrame ==
  [Next]_vars =>
    \/ AddRoute \/ Subscribe \/ Subscribed \/ ReceiveMsg \/ ReceiveLine
    \/ Publish \/ Published \/ Exit \/ ReadLine \/ ReadEOF \/ PersistPanics
    \/ UNCHANGED <<mainVars, stdin>>
  BY DEF Next, Main, Outgoing, Logic, Router, BrokerReplies, LogicTakes,
    vars, OutgoingPublish, OutgoingPriority, Incoming, LogicForward,
    LogicSuback, LogicPubAcked, LogicPutPub, LogicPutAck, LogicTimeout,
    Dispatch, RunDefault, Persist, BrokerSubscribe, BrokerPublish,
    BrokerPubrel, BrokerAcked, BrokerSends

\* The actions that change what is on its way to the broker.
LEMMA SendFrame ==
  [Next]_vars =>
    \/ Subscribe \/ Publish \/ OutgoingPublish \/ OutgoingPriority
    \/ LogicPutAck \/ BrokerSubscribe \/ BrokerPublish \/ BrokerPubrel
    \/ BrokerAcked
    \/ UNCHANGED <<outVars, toBroker>>
  BY DEF Next, Main, Outgoing, Logic, Router, BrokerReplies, LogicTakes,
    vars, AddRoute, Subscribed, ReceiveMsg, ReceiveLine, Published, Exit,
    ReadLine, ReadEOF, Incoming, LogicForward, LogicSuback, LogicPubAcked,
    LogicPutPub, LogicTimeout, Dispatch, RunDefault, Persist, PersistPanics,
    BrokerSends

\* The actions that change what is on its way from the broker to alllogic.
LEMMA ReceiveFrame ==
  [Next]_vars =>
    \/ Incoming \/ LogicForward \/ LogicSuback \/ LogicPubAcked
    \/ LogicPutPub \/ LogicPutAck \/ LogicTimeout \/ BrokerSubscribe
    \/ BrokerPublish \/ BrokerPubrel \/ BrokerAcked \/ BrokerSends
    \/ UNCHANGED <<toClient, ibound, logic>>
  BY DEF Next, Main, Outgoing, Logic, Router, BrokerReplies, LogicTakes,
    vars, AddRoute, Subscribe, Subscribed, ReceiveMsg, ReceiveLine, Publish,
    Published, Exit, ReadLine, ReadEOF, OutgoingPublish, OutgoingPriority,
    Dispatch, RunDefault, Persist, PersistPanics

\* The actions that change what the router keeps.
LEMMA RouterFrame ==
  [Next]_vars =>
    \/ AddRoute \/ ReceiveMsg \/ LogicPutPub \/ Dispatch \/ RunDefault
    \/ Persist
    \/ UNCHANGED <<routerVars>>
  BY DEF Next, Main, Outgoing, Logic, Router, BrokerReplies, LogicTakes,
    vars, Subscribe, Subscribed, ReceiveLine, Publish, Published, Exit,
    ReadLine, ReadEOF, OutgoingPublish, OutgoingPriority, Incoming,
    LogicForward, LogicSuback, LogicPubAcked, LogicPutAck, LogicTimeout,
    PersistPanics, BrokerSubscribe, BrokerPublish, BrokerPubrel, BrokerAcked,
    BrokerSends

\* The actions that change the tokens and what the broker keeps.
LEMMA PeerFrame ==
  [Next]_vars =>
    \/ OutgoingPublish \/ LogicSuback \/ LogicPubAcked \/ BrokerSubscribe
    \/ BrokerPublish \/ BrokerAcked \/ BrokerSends
    \/ UNCHANGED <<tokenVars, brokerVars>>
  BY DEF Next, Main, Outgoing, Logic, Router, BrokerReplies, LogicTakes,
    vars, AddRoute, Subscribe, Subscribed, ReceiveMsg, ReceiveLine, Publish,
    Published, Exit, ReadLine, ReadEOF, OutgoingPriority, Incoming,
    LogicForward, LogicPutPub, LogicPutAck, LogicTimeout, Dispatch,
    RunDefault, Persist, PersistPanics, BrokerPubrel

-----------------------------------------------------------------------------
(* Facts about packets and sequences.                                      *)

LEMMA NSubsNat == NSubs \in Nat
  BY PlumberAssumption DEF NSubs

LEMMA AppendOK ==
  \A S : \A s \in Seq(S), e \in S :
      Append(s, e) \in Seq(S) /\ Len(Append(s, e)) = Len(s) + 1
  OBVIOUS

LEMMA SingleOK ==
  \A S : \A e \in S : <<e>> \in Seq(S) /\ Len(<<e>>) = 1 /\ <<e>>[1] = e
  OBVIOUS

LEMMA InPktOK ==
  /\ \A t \in InType, i \in Nat : Pkt(t, i) \in InPkt
  /\ \A p \in InPkt : p.type \in InType /\ p.id \in Nat
  BY DEF InPkt, Pkt

LEMMA OutPktOK ==
  /\ \A t \in OutType, i \in Nat : Pkt(t, i) \in OutPkt
  /\ \A p \in OutPkt : p.type \in OutType /\ p.id \in Nat
  BY DEF OutPkt, Pkt

\* What alllogic takes from ibound, and what the broker takes from toBroker.
LEMMA LogicTakesOK ==
  ASSUME ReceiveTypeOK, NEW t, LogicTakes(t)
  PROVE  /\ ibound[1] \in InPkt /\ ibound[1].id \in Nat
         /\ ibound' \in Seq(InPkt) /\ Len(ibound') <= 1
<1>1. ibound[1] \in InPkt
  BY DEF ReceiveTypeOK, LogicTakes
<1> QED
  BY <1>1, InPktOK DEF LogicTakes

LEMMA BrokerTakesOK ==
  ASSUME SendTypeOK, NEW t, BrokerTakes(t)
  PROVE  toBroker' \in Seq(OutPkt) /\ Head(toBroker).id \in Nat
  BY OutPktOK, HeadTailProperties DEF SendTypeOK, BrokerTakes

-----------------------------------------------------------------------------
LEMMA NextSubOK ==
  ASSUME MainTypeOK, main.sub <= NSubs, NextSub
  PROVE  /\ main' \in [pc : {"route", "subscribe", "waitSub", "select", "publish", "waitPub"},
                       sub : 1..NSubs+1, pub : 0..MaxLines]
         /\ main'.pc \in {"route", "subscribe", "waitSub"} => main'.sub <= NSubs
         /\ main'.pub = main.pub
<1> USE NSubsNat
<1>1. main.sub \in 1..NSubs /\ main.pub \in 0..MaxLines
  BY DEF MainTypeOK
<1>2. main = [pc |-> main.pc, sub |-> main.sub, pub |-> main.pub]
  BY DEF MainTypeOK
<1>3. main' = [pc |-> IF main.sub = NSubs THEN "select" ELSE "route",
               sub |-> main.sub + 1, pub |-> main.pub]
  BY <1>2 DEF NextSub
<1> QED
  BY <1>1, <1>3

LEMMA TypeInit == Init => TypeInv
  BY PlumberAssumption, NSubsNat
  DEF Init, TypeInv, TypeOK, MainTypeOK, SendTypeOK, ReceiveTypeOK, RouterTypeOK,
      PeerTypeOK, MainOK

MainRecord == [pc : {"route", "subscribe", "waitSub", "select", "publish", "waitPub"},
               sub : 1..NSubs+1, pub : 0..MaxLines]

StdinRecord == [pc : {"read", "send", "closed"}, lines : 0..MaxLines, text : BOOLEAN]

MainRest == /\ proc \in {"up", "exited", "panicked"} /\ subscriptions \in Seq(1..NSubs)
            /\ received \in Nat /\ sent \in Nat

LEMMA MainParts ==
  /\ MainTypeOK <=> main \in MainRecord /\ stdin \in StdinRecord /\ MainRest
  /\ MainTypeOK' <=> main' \in MainRecord /\ stdin' \in StdinRecord /\ MainRest'
  BY DEF MainTypeOK, MainRecord, StdinRecord, MainRest

\* What AddRoute, Publish, Published and ReceiveMsg do to main.
LEMMA MainMoves ==
  ASSUME main \in MainRecord, MainOK,
         NEW q \in {"subscribe", "select", "waitPub"}, main' = [main EXCEPT !.pc = q],
         q = "subscribe" => main.sub <= NSubs, UNCHANGED stdin
  PROVE  main' \in MainRecord /\ MainOK'
<1>1. main'.pc = q /\ main'.sub = main.sub /\ main'.pub = main.pub
  BY DEF MainRecord
<1>2. main' \in MainRecord
  BY DEF MainRecord
<1>3. MainOK'
  BY <1>1 DEF MainOK
<1> QED
  BY <1>2, <1>3

LEMMA MainTypeStep == TypeInv /\ [Next]_vars => (MainTypeOK /\ MainOK)'
<1> SUFFICES ASSUME MainTypeOK, MainOK, [Next]_vars
             PROVE  main' \in MainRecord /\ stdin' \in StdinRecord /\ MainRest' /\ MainOK'
  BY MainParts DEF TypeInv, TypeOK
<1>0. main \in MainRecord /\ stdin \in StdinRecord /\ MainRest
  BY MainParts
<1>1. CASE AddRoute
  <2>1. /\ main' = [main EXCEPT !.pc = "subscribe"] /\ main.sub <= NSubs
        /\ UNCHANGED <<proc, subscriptions, received, sent, stdin>>
    BY <1>1 DEF AddRoute, MainOK
  <2> QED
    BY <1>0, <2>1, MainMoves DEF MainRest
<1>2. CASE Subscribe
  <2>1. /\ UNCHANGED <<proc, subscriptions, received, sent, stdin>>
        /\ main.pc = "subscribe" /\ main.sub <= NSubs
    BY <1>2 DEF Subscribe, MainOK
  <2>2. CASE Waits(main.sub)
    <3>1. main' = [main EXCEPT !.pc = "waitSub"]
      BY <1>2, <2>2 DEF Subscribe
    <3>2. main' \in MainRecord
      BY <1>0, <3>1 DEF MainRecord
    <3>3. main'.pc = "waitSub" /\ main'.sub = main.sub /\ main'.pub = main.pub
      BY <1>0, <3>1 DEF MainRecord
    <3>4. MainOK'
      BY <2>1, <3>3 DEF MainOK
    <3> QED
      BY <1>0, <2>1, <3>2, <3>4 DEF MainRest
  <2>3. CASE ~Waits(main.sub)
    <3>1. NextSub
      BY <1>2, <2>3 DEF Subscribe
    <3>2. /\ main' \in MainRecord
          /\ main'.pc \in {"route", "subscribe", "waitSub"} => main'.sub <= NSubs
          /\ main'.pub = main.pub
      BY <2>1, <3>1, NextSubOK DEF MainRecord
    <3>3. MainOK'
      BY <2>1, <3>2 DEF MainOK
    <3> QED
      BY <1>0, <2>1, <3>2, <3>3 DEF MainRest
  <2> QED
    BY <2>2, <2>3
<1>3. CASE Subscribed
  <2>1. /\ main.pc = "waitSub" /\ NextSub /\ UNCHANGED <<proc, received, sent, stdin>>
        /\ subscriptions' = Append(subscriptions, main.sub)
    BY <1>3 DEF Subscribed
  <2>2. main.sub <= NSubs
    BY <2>1 DEF MainOK
  <2>3. main.sub \in 1..NSubs
    BY <1>0, <2>2, NSubsNat DEF MainRecord
  <2>4. subscriptions' \in Seq(1..NSubs)
    BY <1>0, <2>1, <2>3, AppendOK DEF MainRest
  <2>5. /\ main' \in MainRecord
        /\ main'.pc \in {"route", "subscribe", "waitSub"} => main'.sub <= NSubs
        /\ main'.pub = main.pub
    BY <2>1, <2>2, NextSubOK DEF MainRecord
  <2>6. MainOK'
    BY <2>1, <2>5 DEF MainOK
  <2> QED
    BY <1>0, <2>1, <2>4, <2>5, <2>6 DEF MainRest
<1>4. CASE ReceiveMsg
  <2>1. UNCHANGED <<proc, main, subscriptions, sent, stdin>> /\ received' = received + 1
    BY <1>4 DEF ReceiveMsg
  <2> QED
    BY <1>0, <2>1 DEF MainRest, MainOK
<1>5. CASE ReceiveLine
  <2>1. /\ stdin.pc = "send" /\ stdin' = [stdin EXCEPT !.pc = "read"]
        /\ UNCHANGED <<proc, subscriptions, received>> /\ (sent' = sent + 1 \/ sent' = sent)
    BY <1>5 DEF ReceiveLine
  <2>2. stdin' \in StdinRecord /\ stdin'.pc = "read" /\ stdin'.lines = stdin.lines
    BY <1>0, <2>1 DEF StdinRecord
  <2>3. MainRest'
    BY <1>0, <2>1 DEF MainRest
  <2>4. main.pub + 1 <= stdin.lines /\ stdin.lines \in 0..MaxLines /\ main.pub \in Nat
    BY <1>0, <2>1 DEF MainOK, MainRecord, StdinRecord
  <2>5. CASE stdin.text
    <3>1. main' = [main EXCEPT !.pc = "publish", !.pub = @ + 1]
      BY <1>5, <2>5 DEF ReceiveLine
    <3>2. main'.pc = "publish" /\ main'.sub = main.sub /\ main'.pub = main.pub + 1
      BY <1>0, <3>1 DEF MainRecord
    <3>3. main.pub + 1 \in 0..MaxLines
      BY <2>4, PlumberAssumption
    <3>4. main' \in MainRecord
      BY <1>0, <3>1, <3>3 DEF MainRecord
    <3>5. MainOK'
      BY <2>2, <2>4, <3>2 DEF MainOK
    <3> QED
      BY <2>2, <2>3, <3>4, <3>5
  <2>6. CASE ~stdin.text
    <3>1. UNCHANGED main
      BY <1>5, <2>6 DEF ReceiveLine
    <3>2. MainOK'
      BY <2>2, <2>4, <3>1 DEF MainOK
    <3> QED
      BY <1>0, <2>2, <2>3, <3>1, <3>2
  <2> QED
    BY <2>5, <2>6
<1>6. CASE Publish
  <2>1. /\ main' = [main EXCEPT !.pc = "waitPub"]
        /\ UNCHANGED <<proc, subscriptions, received, sent, stdin>>
    BY <1>6 DEF Publish
  <2> QED
    BY <1>0, <2>1, MainMoves DEF MainRest
<1>7. CASE Published
  <2>1. /\ main' = [main EXCEPT !.pc = "select"] /\ sent' = sent + 1
        /\ UNCHANGED <<proc, subscriptions, received, stdin>>
    BY <1>7 DEF Published
  <2> QED
    BY <1>0, <2>1, MainMoves DEF MainRest
<1>8. CASE Exit
  <2>1. proc' = "exited" /\ UNCHANGED <<main, subscriptions, received, sent, stdin>>
    BY <1>8 DEF Exit
  <2> QED
    BY <1>0, <2>1 DEF MainRest, MainOK
<1>9. CASE ReadLine
  <2>1. /\ stdin.pc = "read" /\ stdin.lines < MaxLines
        /\ UNCHANGED <<proc, main, subscriptions, received, sent>>
    BY <1>9 DEF ReadLine, mainVars
  <2>2. PICK text \in BOOLEAN : stdin' = [pc |-> "send", lines |-> stdin.lines + 1, text |-> text]
    BY <1>9 DEF ReadLine
  <2>3. stdin.lines \in Nat /\ stdin.lines + 1 \in 0..MaxLines
    BY <1>0, <2>1, PlumberAssumption DEF StdinRecord
  <2>4. stdin' \in StdinRecord
    BY <2>2, <2>3 DEF StdinRecord
  <2>5. main.pub \in Nat
    BY <1>0 DEF MainRecord
  <2>6. MainOK'
    BY <2>1, <2>2, <2>3, <2>5 DEF MainOK
  <2> QED
    BY <1>0, <2>1, <2>4, <2>6 DEF MainRest
<1>10. CASE ReadEOF
  <2>1. /\ stdin.pc = "read" /\ stdin' = [stdin EXCEPT !.pc = "closed"]
        /\ UNCHANGED <<proc, main, subscriptions, received, sent>>
    BY <1>10 DEF ReadEOF, mainVars
  <2>2. stdin' \in StdinRecord /\ stdin'.pc = "closed" /\ stdin'.lines = stdin.lines
    BY <1>0, <2>1 DEF StdinRecord
  <2>3. MainOK'
    BY <2>1, <2>2 DEF MainOK
  <2> QED
    BY <1>0, <2>1, <2>2, <2>3 DEF MainRest
<1>11. CASE PersistPanics
  <2>1. proc' = "panicked" /\ UNCHANGED <<main, subscriptions, received, sent, stdin>>
    BY <1>11 DEF PersistPanics
  <2> QED
    BY <1>0, <2>1 DEF MainRest, MainOK
<1>12. CASE UNCHANGED <<mainVars, stdin>>
  BY <1>0, <1>12 DEF MainRest, MainOK, mainVars
<1> QED
  BY MainFrame, <1>1, <1>2, <1>3, <1>4, <1>5, <1>6, <1>7, <1>8, <1>9,
    <1>10, <1>11, <1>12

LEMMA SendTypeStep == TypeInv /\ [Next]_vars => SendTypeOK'
<1> SUFFICES ASSUME MainTypeOK, SendTypeOK, ReceiveTypeOK, [Next]_vars PROVE SendTypeOK'
  BY DEF TypeInv, TypeOK
<1> USE PlumberAssumption, NSubsNat DEF MainTypeOK, SendTypeOK, outVars
<1>1. CASE Subscribe
  <2>1. Pkt("SUBSCRIBE", main.sub) \in OutPkt
    BY <1>1, OutPktOK DEF OutType
  <2> QED
    BY <1>1, <2>1, AppendOK DEF Subscribe
<1>2. CASE Publish
  <2>1. /\ Len(obound) < OutCap /\ obound' = Append(obound, main.pub)
        /\ UNCHANGED <<oboundP, toBroker>>
    BY <1>2 DEF Publish
  <2>2. main.pub \in Nat
    OBVIOUS
  <2> HIDE DEF MainTypeOK, SendTypeOK
  <2>3. obound \in Seq(Nat) /\ Len(obound) \in Nat
    BY DEF SendTypeOK
  <2>4. obound' \in Seq(Nat) /\ Len(obound') = Len(obound) + 1
    BY <2>1, <2>2, <2>3, AppendOK
  <2>5. Len(obound') <= OutCap
    BY <2>1, <2>3, <2>4
  <2> QED
    BY <2>1, <2>4, <2>5 DEF SendTypeOK
<1>3. CASE OutgoingPublish
  <2>1. /\ obound # <<>> /\ obound' = Tail(obound) /\ UNCHANGED oboundP
        /\ toBroker' = Append(toBroker, Pkt("PUBLISH", Head(obound)))
    BY <1>3 DEF OutgoingPublish
  <2> HIDE DEF MainTypeOK, SendTypeOK
  <2>2. obound \in Seq(Nat) /\ Len(obound) <= OutCap /\ toBroker \in Seq(OutPkt)
    BY DEF SendTypeOK
  <2>3. Head(obound) \in Nat /\ obound' \in Seq(Nat) /\ Len(obound') = Len(obound) - 1
    BY <2>1, <2>2, HeadTailProperties
  <2>4. Len(obound') <= OutCap
    BY <2>2, <2>3
  <2>5. toBroker' \in Seq(OutPkt)
    BY <2>1, <2>2, <2>3, OutPktOK, AppendOK DEF OutType
  <2> QED
    BY <2>1, <2>3, <2>4, <2>5 DEF SendTypeOK
<1>4. CASE OutgoingPriority
  <2>1. /\ oboundP # <<>> /\ oboundP' = Tail(oboundP) /\ UNCHANGED obound
        /\ toBroker' = Append(toBroker, Head(oboundP))
    BY <1>4 DEF OutgoingPriority
  <2> HIDE DEF MainTypeOK, SendTypeOK
  <2>2. oboundP \in Seq(OutPkt) /\ Len(oboundP) <= OutCap /\ toBroker \in Seq(OutPkt)
    BY DEF SendTypeOK
  <2>3. Head(oboundP) \in OutPkt /\ oboundP' \in Seq(OutPkt) /\ Len(oboundP') = Len(oboundP) - 1
    BY <2>1, <2>2, HeadTailProperties
  <2>4. Len(oboundP') <= OutCap
    BY <2>2, <2>3
  <2>5. toBroker' \in Seq(OutPkt)
    BY <2>1, <2>2, <2>3, AppendOK
  <2> QED
    BY <2>1, <2>3, <2>4, <2>5 DEF SendTypeOK
<1>5. CASE LogicPutAck
  <2>1. AckType \in OutType
    BY <1>5 DEF AckType, OutType
  <2>2. Pkt(AckType, logic.id) \in OutPkt
    BY <1>5, <2>1, OutPktOK DEF ReceiveTypeOK
  <2>3. /\ Len(oboundP) < OutCap /\ oboundP' = Append(oboundP, Pkt(AckType, logic.id))
        /\ UNCHANGED <<obound, toBroker>>
    BY <1>5 DEF LogicPutAck
  <2> HIDE DEF MainTypeOK, SendTypeOK
  <2>4. oboundP \in Seq(OutPkt) /\ Len(oboundP) \in Nat
    BY DEF SendTypeOK
  <2>5. oboundP' \in Seq(OutPkt) /\ Len(oboundP') = Len(oboundP) + 1
    BY <2>2, <2>3, <2>4, AppendOK
  <2>6. Len(oboundP') <= OutCap
    BY <2>3, <2>4, <2>5
  <2> QED
    BY <2>3, <2>5, <2>6 DEF SendTypeOK
<1>6. CASE BrokerSubscribe
  BY <1>6, BrokerTakesOK DEF BrokerSubscribe
<1>7. CASE BrokerPublish
  BY <1>7, BrokerTakesOK DEF BrokerPublish
<1>8. CASE BrokerPubrel
  BY <1>8, BrokerTakesOK DEF BrokerPubrel
<1>9. CASE BrokerAcked
  BY <1>9, BrokerTakesOK DEF BrokerAcked
<1>10. CASE UNCHANGED <<outVars, toBroker>>
  BY <1>10
<1> QED
  BY SendFrame, <1>1, <1>2, <1>3, <1>4, <1>5, <1>6, <1>7, <1>8, <1>9,
    <1>10

LEMMA ReceiveTypeStep == TypeInv /\ [Next]_vars => ReceiveTypeOK'
<1> SUFFICES ASSUME SendTypeOK, ReceiveTypeOK, PeerTypeOK, [Next]_vars PROVE ReceiveTypeOK'
  BY DEF TypeInv, TypeOK
<1> USE PlumberAssumption, NSubsNat DEF ReceiveTypeOK, PeerTypeOK
<1>1. CASE Incoming
  <2>1. Head(toClient) \in InPkt /\ toClient' \in Seq(InPkt)
    BY <1>1, HeadTailProperties DEF Incoming
  <2>2. ibound' \in Seq(InPkt) /\ Len(ibound') = 1
    BY <1>1, <2>1, SingleOK DEF Incoming
  <2> QED
    BY <1>1, <2>1, <2>2 DEF Incoming
<1>2. CASE LogicForward
  <2>1. logic' \in [pc : {"select", "putPub", "putAck", "putRel", "putComp"}, id : Nat]
    BY <1>2, LogicTakesOK DEF LogicForward
  <2> QED
    BY <1>2, <2>1, LogicTakesOK DEF LogicForward
<1>3. CASE LogicSuback
  BY <1>3, LogicTakesOK DEF LogicSuback
<1>4. CASE LogicPubAcked
  BY <1>4, LogicTakesOK DEF LogicPubAcked
<1>5. CASE LogicPutPub
  BY <1>5 DEF LogicPutPub
<1>6. CASE LogicPutAck
  BY <1>6 DEF LogicPutAck
<1>7. CASE LogicTimeout
  BY <1>7 DEF LogicTimeout
<1>8. CASE BrokerSubscribe
  <2>1. Pkt("SUBACK", Head(toBroker).id) \in InPkt
    BY <1>8, BrokerTakesOK, InPktOK DEF BrokerSubscribe, InType
  <2>2. toClient' = Append(toClient, Pkt("SUBACK", Head(toBroker).id))
        /\ UNCHANGED <<ibound, logic>>
    BY <1>8 DEF BrokerSubscribe
  <2> HIDE DEF ReceiveTypeOK, PeerTypeOK
  <2>3. toClient' \in Seq(InPkt)
    BY <2>1, <2>2, AppendOK DEF ReceiveTypeOK
  <2> QED
    BY <2>2, <2>3 DEF ReceiveTypeOK
<1>9. CASE BrokerPublish
  <2>1. \/ toClient' = toClient
             \/ \E t \in InType : toClient' = Append(toClient, Pkt(t, Head(toBroker).id))
    BY <1>9 DEF BrokerPublish, InType
  <2>2. Head(toBroker).id \in Nat /\ UNCHANGED <<ibound, logic>>
    BY <1>9, BrokerTakesOK DEF BrokerPublish
  <2> HIDE DEF ReceiveTypeOK, PeerTypeOK
  <2>3. toClient' \in Seq(InPkt)
    <3>1. toClient \in Seq(InPkt)
      BY DEF ReceiveTypeOK
    <3>2. CASE toClient' = toClient
      BY <3>1, <3>2
    <3>3. ASSUME NEW t \in InType, toClient' = Append(toClient, Pkt(t, Head(toBroker).id))
          PROVE  toClient' \in Seq(InPkt)
      <4>1. Pkt(t, Head(toBroker).id) \in InPkt
        BY <2>2, InPktOK
      <4> QED
        BY <3>1, <3>3, <4>1, AppendOK
    <3> QED
      BY <2>1, <3>2, <3>3
  <2> QED
    BY <2>2, <2>3 DEF ReceiveTypeOK
<1>10. CASE BrokerPubrel
  <2>1. Pkt("PUBCOMP", Head(toBroker).id) \in InPkt
    BY <1>10, BrokerTakesOK, InPktOK DEF BrokerPubrel, InType
  <2> QED
    BY <1>10, <2>1, AppendOK DEF BrokerPubrel
<1>11. CASE BrokerAcked
  <2>1. Head(toBroker).id \in Nat
    BY <1>11, BrokerTakesOK DEF BrokerAcked
  <2>2. Pkt("PUBREL", Head(toBroker).id) \in InPkt
    BY <2>1, InPktOK DEF InType
  <2>3. UNCHANGED toClient \/ toClient' = Append(toClient, Pkt("PUBREL", Head(toBroker).id))
    BY <1>11 DEF BrokerAcked
  <2>4. Append(toClient, Pkt("PUBREL", Head(toBroker).id)) \in Seq(InPkt)
    BY <2>2, AppendOK
  <2> QED
    BY <1>11, <2>3, <2>4 DEF BrokerAcked
<1>12. CASE BrokerSends
  <2>1. Pkt("PUBLISH", Len(msgs) + 1) \in InPkt
    BY <1>12, InPktOK DEF InType
  <2> QED
    BY <1>12, <2>1, AppendOK DEF BrokerSends
<1>13. CASE UNCHANGED <<toClient, ibound, logic>>
  BY <1>13
<1> QED
  BY ReceiveFrame, <1>1, <1>2, <1>3, <1>4, <1>5, <1>6, <1>7, <1>8,
    <1>9, <1>10, <1>11, <1>12, <1>13

RouterRecord == [pc : {"select", "handle", "send", "unmatched", "default"}, id : Nat]

LEMMA RouterTypeStep == TypeInv /\ [Next]_vars => RouterTypeOK'
<1> SUFFICES ASSUME MainTypeOK, MainOK, ReceiveTypeOK, RouterTypeOK, [Next]_vars PROVE RouterTypeOK'
  BY DEF TypeInv, TypeOK
<1>0. /\ incomingPubChan \in Seq(Nat) /\ Len(incomingPubChan) <= PubCap
      /\ router \in RouterRecord /\ routes \subseteq 1..NSubs /\ db \in Seq(Nat)
  BY DEF RouterTypeOK, RouterRecord
<1> SUFFICES /\ incomingPubChan' \in Seq(Nat) /\ Len(incomingPubChan') <= PubCap
             /\ router' \in RouterRecord /\ routes' \subseteq 1..NSubs /\ db' \in Seq(Nat)
  BY DEF RouterTypeOK, RouterRecord
<1> HIDE DEF RouterTypeOK
<1>1. CASE AddRoute
  <2>1. main.pc \in {"route", "subscribe", "waitSub"}
    BY <1>1 DEF AddRoute
  <2>2. main.sub \in 1..NSubs
    BY <2>1, NSubsNat DEF MainTypeOK, MainOK
  <2>3. routes' = routes \cup {main.sub} /\ UNCHANGED <<incomingPubChan, router, db>>
    BY <1>1 DEF AddRoute
  <2> QED
    BY <1>0, <2>2, <2>3
<1>2. CASE ReceiveMsg
  <2>1. router' = [router EXCEPT !.pc = "select"] /\ UNCHANGED <<incomingPubChan, routes, db>>
    BY <1>2 DEF ReceiveMsg
  <2>2. router' \in RouterRecord
    BY <1>0, <2>1 DEF RouterRecord
  <2> QED
    BY <1>0, <2>1, <2>2
<1>3. CASE LogicPutPub
  <2>1. /\ Len(incomingPubChan) < PubCap
        /\ incomingPubChan' = Append(incomingPubChan, logic.id)
        /\ UNCHANGED <<router, routes, db>>
    BY <1>3 DEF LogicPutPub
  <2>2. logic.id \in Nat
    BY DEF ReceiveTypeOK
  <2>3. incomingPubChan' \in Seq(Nat) /\ Len(incomingPubChan') = Len(incomingPubChan) + 1
    BY <1>0, <2>1, <2>2, AppendOK
  <2>4. Len(incomingPubChan') <= PubCap
    BY <1>0, <2>1, <2>3, PlumberAssumption
  <2> QED
    BY <1>0, <2>1, <2>3, <2>4
<1>4. CASE Dispatch
  <2>1. incomingPubChan # <<>> /\ incomingPubChan' = Tail(incomingPubChan)
    BY <1>4 DEF Dispatch
  <2>2. /\ Head(incomingPubChan) \in Nat /\ incomingPubChan' \in Seq(Nat)
        /\ Len(incomingPubChan') = Len(incomingPubChan) - 1
    BY <1>0, <2>1, HeadTailProperties
  <2>3. Len(incomingPubChan') <= PubCap
    BY <1>0, <2>2, PlumberAssumption
  <2>4. router' \in RouterRecord
    BY <1>4, <2>2 DEF Dispatch, RouterRecord
  <2>5. UNCHANGED <<routes, db>>
    BY <1>4 DEF Dispatch
  <2> QED
    BY <1>0, <2>2, <2>3, <2>4, <2>5
<1>5. CASE RunDefault
  <2>1. router' = [router EXCEPT !.pc = "default"] /\ UNCHANGED <<incomingPubChan, routes, db>>
    BY <1>5 DEF RunDefault
  <2>2. router' \in RouterRecord
    BY <1>0, <2>1 DEF RouterRecord
  <2> QED
    BY <1>0, <2>1, <2>2
<1>6. CASE Persist
  <2>1. router.id \in Nat
    BY <1>0 DEF RouterRecord
  <2>2. db' \in Seq(Nat)
    BY <1>0, <1>6, <2>1, AppendOK DEF Persist
  <2>3. router' \in RouterRecord
    BY <1>0, <1>6 DEF Persist, RouterRecord
  <2>4. UNCHANGED <<incomingPubChan, routes>>
    BY <1>6 DEF Persist
  <2> QED
    BY <1>0, <2>2, <2>3, <2>4
<1>7. CASE UNCHANGED <<routerVars>>
  BY <1>0, <1>7 DEF routerVars
<1> QED
  BY RouterFrame, <1>1, <1>2, <1>3, <1>4, <1>5, <1>6, <1>7

LEMMA PeerTypeStep == TypeInv /\ [Next]_vars => PeerTypeOK'
<1> SUFFICES ASSUME SendTypeOK, ReceiveTypeOK, PeerTypeOK, [Next]_vars PROVE PeerTypeOK'
  BY DEF TypeInv, TypeOK
<1> USE PlumberAssumption, NSubsNat DEF SendTypeOK, PeerTypeOK, tokenVars, brokerVars
<1>1. CASE OutgoingPublish
  <2>1. Head(obound) \in Nat
    BY <1>1, HeadTailProperties DEF OutgoingPublish
  <2> QED
    BY <1>1, <2>1 DEF OutgoingPublish
<1>2. CASE LogicSuback
  BY <1>2, LogicTakesOK DEF LogicSuback
<1>3. CASE LogicPubAcked
  BY <1>3, LogicTakesOK DEF LogicPubAcked
<1>4. CASE BrokerSubscribe
  BY <1>4, BrokerTakesOK DEF BrokerSubscribe
<1>5. CASE BrokerPublish
  BY <1>5, BrokerTakesOK DEF BrokerPublish
<1>6. CASE BrokerAcked
  BY <1>6, BrokerTakesOK DEF BrokerAcked
<1>7. CASE BrokerSends
  <2>1. \A t \in granted, q \in 0..Qos, dup \in BOOLEAN :
                [topic |-> t, qos |-> q, dup |-> dup] \in [topic : Nat, qos : 0..2, dup : BOOLEAN]
    BY <1>7
  <2> QED
    BY <1>7, <2>1, AppendOK DEF BrokerSends
<1>8. CASE UNCHANGED <<tokenVars, brokerVars>>
  BY <1>8
<1> QED
  BY PeerFrame, <1>1, <1>2, <1>3, <1>4, <1>5, <1>6, <1>7, <1>8

LEMMA TypeStep == TypeInv /\ [Next]_vars => TypeInv'
  BY MainTypeStep, SendTypeStep, ReceiveTypeStep, RouterTypeStep, PeerTypeStep
  DEF TypeInv, TypeOK

\* Type correctness: whatever the capacities and the interleaving, no channel
\* holds more than its capacity and main never runs past its subscriptions.
THEOREM TypeCorrect == Spec => []TypeOK
<1>1. TypeInv => TypeOK
  BY DEF TypeInv
<1> QED
  BY TypeInit, TypeStep, <1>1, PTL DEF Spec
-----------------------------------------------------------------------------
(* The order of the pipe.  An action moves one number on by one stage, or  *)
(* none at all; what was behind that stage stays behind it.                *)

KeepsClient == \A n \in Nat : BehindClient(n) => BehindClient(n)'
KeepsIbound == \A n \in Nat : BehindIbound(n) => BehindIbound(n)'
KeepsLogic  == \A n \in Nat : BehindLogic(n) => BehindLogic(n)'
KeepsChan   == \A n \in Nat : BehindChan(n) => BehindChan(n)'
KeepsRouter == \A n \in Nat : BehindRouter(n) => BehindRouter(n)'

\* The actions that change the pipe.
LEMMA PipeFrame ==
  [Next]_vars =>
    \/ ReceiveMsg \/ Incoming \/ LogicForward \/ LogicSuback \/ LogicPubAcked
    \/ LogicPutPub \/ LogicPutAck \/ LogicTimeout \/ Dispatch \/ RunDefault
    \/ Persist \/ BrokerSubscribe \/ BrokerPublish \/ BrokerPubrel
    \/ BrokerAcked \/ BrokerSends
    \/ UNCHANGED <<toClient, ibound, logic, incomingPubChan, router, db, msgs>>
  BY DEF Next, Main, Outgoing, Logic, Router, BrokerReplies, LogicTakes,
    vars, routerVars, brokerVars, AddRoute, Subscribe, Subscribed, ReceiveLine, Publish, Published,
    Exit, ReadLine, ReadEOF, OutgoingPublish, OutgoingPriority, PersistPanics

\* What one stage keeps behind it, the next keeps as well, and with it the
\* order of its own, if the action leaves that stage alone or empties it.
LEMMA PassIbound ==
  ASSUME TypeOK, IboundOrdered, KeepsClient, UNCHANGED ibound \/ ibound' = <<>>
  PROVE  KeepsIbound /\ IboundOrdered'
<1>1. KeepsIbound
  BY DEF KeepsIbound, KeepsClient, BehindIbound
<1>2. ibound # <<>> => ibound[1].id \in Nat
  BY InPktOK DEF TypeOK, ReceiveTypeOK
<1> QED
  BY <1>1, <1>2 DEF IboundOrdered, KeepsClient

LEMMA PassLogic ==
  ASSUME TypeOK, LogicOrdered, KeepsIbound, UNCHANGED logic \/ logic'.pc # "putPub"
  PROVE  KeepsLogic /\ LogicOrdered'
<1>1. KeepsLogic
  BY DEF KeepsLogic, KeepsIbound, BehindLogic
<1>2. logic.id \in Nat
  BY DEF TypeOK, ReceiveTypeOK
<1> QED
  BY <1>1, <1>2 DEF LogicOrdered, KeepsIbound

LEMMA PassChan ==
  ASSUME TypeOK, ChanOrdered, ChanBehind, KeepsLogic, UNCHANGED incomingPubChan
  PROVE  KeepsChan /\ ChanOrdered' /\ ChanBehind'
<1>1. KeepsChan
  BY DEF KeepsChan, KeepsLogic, BehindChan
<1>2. \A i \in DOMAIN incomingPubChan : incomingPubChan[i] \in Nat
  BY DEF TypeOK, RouterTypeOK
<1> QED
  BY <1>1, <1>2 DEF ChanOrdered, ChanBehind, KeepsLogic

LEMMA PassRouter ==
  ASSUME TypeOK, RouterOrdered, KeepsChan, UNCHANGED router \/ router'.pc = "select"
  PROVE  KeepsRouter /\ RouterOrdered'
<1>1. KeepsRouter
  BY DEF KeepsRouter, KeepsChan, BehindRouter
<1>2. router.id \in Nat
  BY DEF TypeOK, RouterTypeOK
<1> QED
  BY <1>1, <1>2 DEF RouterOrdered, KeepsChan

LEMMA PassStored ==
  ASSUME TypeOK, StoredBehind, StoredInOrder, KeepsRouter, UNCHANGED db
  PROVE  StoredBehind' /\ StoredInOrder'
<1>1. \A i \in DOMAIN db : db[i] \in Nat
  BY DEF TypeOK, RouterTypeOK
<1> QED
  BY <1>1 DEF StoredBehind, StoredInOrder, KeepsRouter

LEMMA PipeInit == Init => PipeInv
  BY PlumberAssumption
  DEF Init, PipeInv, ClientOrdered, IboundOrdered, LogicOrdered, ChanOrdered, ChanBehind,
      RouterOrdered, StoredBehind, StoredInOrder

\* The broker answers: no number enters the pipe.
LEMMA PipeAnswer ==
  ASSUME TypeOK, PipeInv, NEW t \in InType \ {"PUBLISH"}, NEW i \in Nat,
         toClient' = Append(toClient, Pkt(t, i)) \/ UNCHANGED toClient,
         UNCHANGED <<ibound, logic, incomingPubChan, router, db, msgs>>
  PROVE  PipeInv'
<1>1. /\ Len(toClient) \in Nat /\ DOMAIN toClient = 1..Len(toClient)
      /\ \A j \in 1..Len(toClient) : toClient[j].type # "PUBLISH" \/ toClient[j].id \in Nat
  BY InPktOK DEF TypeOK, ReceiveTypeOK
<1>2. \/ UNCHANGED toClient
      \/ /\ DOMAIN toClient' = 1..Len(toClient) + 1
         /\ \A j \in 1..Len(toClient) : toClient'[j] = toClient[j]
         /\ toClient'[Len(toClient) + 1].type # "PUBLISH"
  <2>1. toClient \in Seq(InPkt)
    BY DEF TypeOK, ReceiveTypeOK
  <2>2. CASE toClient' = Append(toClient, Pkt(t, i))
    <3>1. /\ DOMAIN toClient' = 1..Len(toClient) + 1
          /\ \A j \in 1..Len(toClient) : toClient'[j] = toClient[j]
          /\ toClient'[Len(toClient) + 1] = Pkt(t, i)
      BY <2>1, <2>2
    <3>2. Pkt(t, i).type # "PUBLISH"
      BY DEF Pkt
    <3> QED
      BY <3>1, <3>2
  <2> QED
    BY <2>2
<1>3. ClientOrdered'
  <2>1. CASE UNCHANGED toClient
    BY <2>1 DEF PipeInv, ClientOrdered
  <2>2. CASE toClient' # toClient
    <3>1. SUFFICES ASSUME NEW j \in DOMAIN toClient', NEW k \in DOMAIN toClient',
                          toClient'[j].type = "PUBLISH"
                   PROVE  /\ toClient'[j].id >= 1 /\ toClient'[j].id <= Len(msgs)
                          /\ j < k /\ toClient'[k].type = "PUBLISH" => toClient'[j].id < toClient'[k].id
      BY DEF ClientOrdered
    <3>2. j \in 1..Len(toClient)
      BY <1>1, <1>2, <2>2, <3>1
    <3>3. CASE k \in 1..Len(toClient)
      BY <1>1, <1>2, <2>2, <3>1, <3>2, <3>3 DEF PipeInv, ClientOrdered
    <3>4. CASE k = Len(toClient) + 1
      BY <1>1, <1>2, <2>2, <3>1, <3>2, <3>4 DEF PipeInv, ClientOrdered
    <3> QED
      BY <1>1, <1>2, <2>2, <3>3, <3>4
  <2> QED
    BY <2>1, <2>2
<1>4. KeepsClient
  BY <1>1, <1>2 DEF KeepsClient, BehindClient
<1> QED
  BY <1>3, <1>4, PassIbound, PassLogic, PassChan, PassRouter, PassStored DEF PipeInv

LEMMA PipeReceive ==
  ASSUME TypeOK, PipeInv, Incoming
  PROVE  PipeInv'
<1>1. /\ toClient # <<>> /\ Head(toClient) = toClient[1] /\ Len(toClient) \in Nat \ {0}
      /\ DOMAIN toClient = 1..Len(toClient)
      /\ DOMAIN toClient' = 1..Len(toClient) - 1
      /\ \A j \in 1..Len(toClient) - 1 : toClient'[j] = toClient[j + 1]
      /\ \A j \in 1..Len(toClient) : toClient[j].id \in Nat
  BY HeadTailProperties, InPktOK DEF Incoming, TypeOK, ReceiveTypeOK
<1>2. ibound = <<>> /\ ibound' # <<>> /\ ibound'[1] = toClient[1]
  BY <1>1 DEF Incoming
<1>3. UNCHANGED <<logic, incomingPubChan, router, db, msgs>>
  BY DEF Incoming, routerVars, brokerVars
<1>4. \A i, j \in 1..Len(toClient) :
        /\ toClient[i].type = "PUBLISH" => toClient[i].id >= 1 /\ toClient[i].id <= Len(msgs)
        /\ i < j /\ toClient[i].type = "PUBLISH" /\ toClient[j].type = "PUBLISH"
              => toClient[i].id < toClient[j].id
  BY <1>1 DEF PipeInv, ClientOrdered
<1>5. ClientOrdered'
  <2>1. SUFFICES ASSUME NEW i \in 1..Len(toClient) - 1, NEW j \in 1..Len(toClient) - 1
                 PROVE  /\ toClient'[i].type = "PUBLISH" =>
                              toClient'[i].id >= 1 /\ toClient'[i].id <= Len(msgs)
                        /\ i < j /\ toClient'[i].type = "PUBLISH" /\ toClient'[j].type = "PUBLISH"
                              => toClient'[i].id < toClient'[j].id
    BY <1>1, <1>3 DEF ClientOrdered
  <2>2. /\ i + 1 \in 1..Len(toClient) /\ j + 1 \in 1..Len(toClient)
        /\ toClient'[i] = toClient[i + 1] /\ toClient'[j] = toClient[j + 1]
        /\ i < j => i + 1 < j + 1
    BY <1>1
  <2> QED
    BY <1>4, <2>2
<1>6. PICK p \in Nat : p = toClient[1].id
  BY <1>1
<1>7. toClient[1].type = "PUBLISH" => p >= 1 /\ BehindClient(p)'
  <2>1. SUFFICES ASSUME toClient[1].type = "PUBLISH" PROVE p >= 1 /\ BehindClient(p)'
    OBVIOUS
  <2>2. p >= 1 /\ p <= Len(msgs)
    BY <1>1, <1>4, <1>6, <2>1
  <2>3. \A j \in 1..Len(toClient) - 1 : toClient'[j].type = "PUBLISH" => p < toClient'[j].id
    <3>1. \A j \in 1..Len(toClient) - 1 :
              j + 1 \in 1..Len(toClient) /\ 1 < j + 1 /\ toClient'[j] = toClient[j + 1]
      BY <1>1
    <3> QED
      BY <1>1, <1>4, <1>6, <2>1, <3>1
  <2> QED
    BY <1>1, <1>3, <2>2, <2>3 DEF BehindClient
<1>8. IboundOrdered'
  BY <1>2, <1>6, <1>7 DEF IboundOrdered
<1>9. KeepsIbound
  <2>1. SUFFICES ASSUME NEW n \in Nat, BehindIbound(n) PROVE BehindIbound(n)'
    BY DEF KeepsIbound
  <2>2. n <= Len(msgs) /\ \A j \in 1..Len(toClient) : toClient[j].type = "PUBLISH" => n < toClient[j].id
    BY <1>1, <2>1 DEF BehindIbound, BehindClient
  <2>3. BehindClient(n)'
    <3>1. \A j \in 1..Len(toClient) - 1 : j + 1 \in 1..Len(toClient) /\ toClient'[j] = toClient[j + 1]
      BY <1>1
    <3> QED
      BY <1>1, <1>3, <2>2, <3>1 DEF BehindClient
  <2> QED
    BY <1>1, <1>2, <2>2, <2>3 DEF BehindIbound
<1> QED
  BY <1>3, <1>5, <1>8, <1>9, PassLogic, PassChan, PassRouter, PassStored DEF PipeInv

LEMMA PipeForward ==
  ASSUME TypeOK, PipeInv, LogicForward
  PROVE  PipeInv'
<1>1. /\ ibound # <<>> /\ ibound[1].id \in Nat /\ ibound' = <<>> /\ logic.pc # "putPub"
      /\ logic'.pc = "putPub" => ibound[1].type = "PUBLISH" /\ logic'.id = ibound[1].id
      /\ UNCHANGED <<toClient, incomingPubChan, router, db, msgs>>
  BY LogicTakesOK DEF LogicForward, LogicTakes, TypeOK, routerVars, brokerVars
<1>2. ClientOrdered' /\ KeepsClient
  BY <1>1 DEF PipeInv, ClientOrdered, KeepsClient, BehindClient
<1>3. IboundOrdered' /\ KeepsIbound
  BY <1>1, <1>2, PassIbound DEF PipeInv
<1>4. LogicOrdered'
  BY <1>1, <1>2 DEF LogicOrdered, PipeInv, IboundOrdered, KeepsClient, BehindIbound
<1>5. KeepsLogic
  BY <1>1, <1>2 DEF KeepsLogic, KeepsClient, BehindLogic, BehindIbound
<1> QED
  BY <1>1, <1>2, <1>3, <1>4, <1>5, PassChan, PassRouter, PassStored DEF PipeInv

\* alllogic takes a packet that is no message, or turns to the next packet.
LEMMA PipeDrop ==
  ASSUME TypeOK, PipeInv, UNCHANGED ibound \/ ibound' = <<>>,
         UNCHANGED logic \/ logic'.pc = "select",
         UNCHANGED <<toClient, incomingPubChan, router, db, msgs>>
  PROVE  PipeInv'
<1>1. ClientOrdered' /\ KeepsClient
  BY DEF PipeInv, ClientOrdered, KeepsClient, BehindClient
<1> QED
  BY <1>1, PassIbound, PassLogic, PassChan, PassRouter, PassStored DEF PipeInv

LEMMA PipePut ==
  ASSUME TypeOK, PipeInv, LogicPutPub
  PROVE  PipeInv'
<1>1. /\ logic.pc = "putPub" /\ logic'.pc # "putPub" /\ logic.id \in Nat
      /\ UNCHANGED <<toClient, ibound, router, db, msgs>>
  BY DEF LogicPutPub, TypeOK, ReceiveTypeOK, brokerVars
<1>2. /\ Len(incomingPubChan) \in Nat
      /\ DOMAIN incomingPubChan = 1..Len(incomingPubChan)
      /\ DOMAIN incomingPubChan' = 1..Len(incomingPubChan) + 1
      /\ \A j \in 1..Len(incomingPubChan) :
             incomingPubChan'[j] = incomingPubChan[j] /\ incomingPubChan[j] \in Nat
      /\ incomingPubChan'[Len(incomingPubChan) + 1] = logic.id
  BY <1>1 DEF LogicPutPub, TypeOK, RouterTypeOK
<1>3. ClientOrdered' /\ KeepsClient
  BY <1>1 DEF PipeInv, ClientOrdered, KeepsClient, BehindClient
<1>4. IboundOrdered' /\ KeepsIbound
  BY <1>1, <1>3, PassIbound DEF PipeInv
<1>5. LogicOrdered' /\ KeepsLogic
  BY <1>1, <1>4, PassLogic DEF PipeInv
<1>6. PICK l \in Nat : l = logic.id
  BY <1>1
<1>7. l >= 1 /\ BehindLogic(l)'
  BY <1>1, <1>4, <1>6 DEF PipeInv, LogicOrdered, KeepsIbound, BehindLogic
<1>8. \A j \in 1..Len(incomingPubChan) : incomingPubChan[j] < logic.id
  BY <1>1, <1>2 DEF PipeInv, ChanBehind, BehindLogic
<1>9. \A i, j \in 1..Len(incomingPubChan) :
        i < j => incomingPubChan[i] + (j - i) <= incomingPubChan[j]
  BY <1>2 DEF PipeInv, ChanOrdered
<1>10. ChanOrdered'
  <2>1. ASSUME NEW i \in 1..Len(incomingPubChan)
        PROVE  incomingPubChan[i] + (Len(incomingPubChan) + 1 - i) <= logic.id
    <3>1. Len(incomingPubChan) \in 1..Len(incomingPubChan)
      BY <1>2
    <3>2. CASE i = Len(incomingPubChan)
      BY <1>1, <1>2, <1>8, <3>2
    <3>3. CASE i < Len(incomingPubChan)
      <4>1. incomingPubChan[i] + (Len(incomingPubChan) - i) <= incomingPubChan[Len(incomingPubChan)]
        BY <1>2, <1>9, <3>1, <3>3
      <4>2. incomingPubChan[Len(incomingPubChan)] < logic.id
        BY <1>8, <3>1
      <4>3. incomingPubChan[i] \in Nat /\ incomingPubChan[Len(incomingPubChan)] \in Nat
        BY <1>2, <3>1
      <4> QED
        BY <1>1, <1>2, <3>3, <4>1, <4>2, <4>3
    <3>4. i = Len(incomingPubChan) \/ i < Len(incomingPubChan)
      BY <3>1
    <3> QED
      BY <3>2, <3>3, <3>4
  <2>2. SUFFICES ASSUME NEW i \in DOMAIN incomingPubChan', NEW j \in DOMAIN incomingPubChan', i < j
                 PROVE  incomingPubChan'[i] + (j - i) <= incomingPubChan'[j]
    BY DEF ChanOrdered
  <2>3. i \in 1..Len(incomingPubChan)
    BY <1>2, <2>2
  <2>4. CASE j \in 1..Len(incomingPubChan)
    BY <1>2, <1>9, <2>2, <2>3, <2>4
  <2>5. CASE j = Len(incomingPubChan) + 1
    BY <1>2, <2>1, <2>3, <2>5
  <2> QED
    BY <1>2, <2>4, <2>5
<1>11. ChanBehind'
  <2>1. \A n \in Nat : n >= 1 /\ BehindLogic(n) => n >= 1 /\ BehindLogic(n)'
    BY <1>5 DEF KeepsLogic
  <2>2. SUFFICES ASSUME NEW i \in 1..Len(incomingPubChan) + 1, NEW n \in Nat, n = incomingPubChan'[i]
                 PROVE  n >= 1 /\ BehindLogic(n)'
    BY <1>1, <1>2 DEF ChanBehind
  <2>3. CASE i \in 1..Len(incomingPubChan)
    BY <1>2, <2>1, <2>2, <2>3 DEF PipeInv, ChanBehind
  <2>4. CASE i = Len(incomingPubChan) + 1
    BY <1>2, <1>6, <1>7, <2>2, <2>4
  <2> QED
    BY <1>2, <2>3, <2>4
<1>12. KeepsChan
  <2>1. SUFFICES ASSUME NEW n \in Nat, BehindChan(n) PROVE BehindChan(n)'
    BY DEF KeepsChan
  <2>2. BehindLogic(n)' /\ n < logic.id
    BY <1>1, <1>5, <2>1 DEF KeepsLogic, BehindChan, BehindLogic
  <2>3. n + Len(incomingPubChan) + 1 <= logic.id
    BY <1>1, <1>2, <1>8, <2>1, <2>2 DEF BehindChan
  <2>4. \A j \in 1..Len(incomingPubChan) : n + j <= incomingPubChan'[j]
    BY <1>2, <2>1 DEF BehindChan
  <2>5. n + (Len(incomingPubChan) + 1) <= incomingPubChan'[Len(incomingPubChan) + 1]
    BY <1>2, <2>3
  <2>6. \A j \in DOMAIN incomingPubChan' : n + j <= incomingPubChan'[j]
    BY <1>2, <2>4, <2>5
  <2> QED
    BY <2>2, <2>6 DEF BehindChan
<1> QED
  BY <1>1, <1>3, <1>4, <1>5, <1>10, <1>11, <1>12, PassRouter, PassStored DEF PipeInv

LEMMA PipeDispatch ==
  ASSUME TypeOK, PipeInv, Dispatch
  PROVE  PipeInv'
<1>1. /\ router.pc = "select" /\ router'.id = incomingPubChan[1]
      /\ router'.pc \in {"handle", "unmatched", "select"}
      /\ UNCHANGED <<toClient, ibound, logic, db, msgs>>
  BY DEF Dispatch, TypeOK, RouterTypeOK, brokerVars
<1>2. /\ Len(incomingPubChan) \in Nat \ {0}
      /\ DOMAIN incomingPubChan = 1..Len(incomingPubChan)
      /\ DOMAIN incomingPubChan' = 1..Len(incomingPubChan) - 1
      /\ \A j \in 1..Len(incomingPubChan) - 1 : incomingPubChan'[j] = incomingPubChan[j + 1]
      /\ \A j \in 1..Len(incomingPubChan) : incomingPubChan[j] \in Nat
  BY HeadTailProperties DEF Dispatch, TypeOK, RouterTypeOK
<1>3. ClientOrdered' /\ KeepsClient
  BY <1>1 DEF PipeInv, ClientOrdered, KeepsClient, BehindClient
<1>4. IboundOrdered' /\ KeepsIbound
  BY <1>1, <1>3, PassIbound DEF PipeInv
<1>5. LogicOrdered' /\ KeepsLogic
  BY <1>1, <1>4, PassLogic DEF PipeInv
<1>6. \A j \in 1..Len(incomingPubChan) - 1 :
        j + 1 \in 1..Len(incomingPubChan) /\ incomingPubChan'[j] = incomingPubChan[j + 1]
  BY <1>2
<1>7. \A i, j \in 1..Len(incomingPubChan) :
        i < j => incomingPubChan[i] + (j - i) <= incomingPubChan[j]
  BY <1>2 DEF PipeInv, ChanOrdered
<1>8. ChanOrdered'
  <2>1. SUFFICES ASSUME NEW i \in 1..Len(incomingPubChan) - 1, NEW j \in 1..Len(incomingPubChan) - 1,
                        i < j
                 PROVE  incomingPubChan'[i] + (j - i) <= incomingPubChan'[j]
    BY <1>2 DEF ChanOrdered
  <2>2. incomingPubChan[i + 1] + ((j + 1) - (i + 1)) <= incomingPubChan[j + 1]
    <3>1. i + 1 \in 1..Len(incomingPubChan) /\ j + 1 \in 1..Len(incomingPubChan) /\ i + 1 < j + 1
      BY <1>2, <2>1
    <3> QED
      BY <1>7, <3>1
  <2> QED
    BY <1>2, <1>6, <2>1, <2>2
<1>9. ChanBehind'
  <2>1. SUFFICES ASSUME NEW i \in 1..Len(incomingPubChan) - 1, NEW n \in Nat, n = incomingPubChan'[i]
                 PROVE  n >= 1 /\ BehindLogic(n)'
    BY <1>2, <1>6 DEF ChanBehind
  <2>2. n = incomingPubChan[i + 1] /\ i + 1 \in DOMAIN incomingPubChan
    BY <1>2, <1>6, <2>1
  <2>3. n >= 1 /\ BehindLogic(n)
    BY <2>1, <2>2 DEF PipeInv, ChanBehind
  <2> QED
    BY <1>5, <2>1, <2>3 DEF KeepsLogic
<1>10. PICK p \in Nat : p = incomingPubChan[1]
  BY <1>2
<1>11. RouterOrdered'
  <2>1. p >= 1 /\ BehindLogic(p)'
    <3>1. 1 \in DOMAIN incomingPubChan
      BY <1>2
    <3>2. p >= 1 /\ BehindLogic(p)
      BY <1>10, <3>1 DEF PipeInv, ChanBehind
    <3> QED
      BY <1>5, <3>2 DEF KeepsLogic
  <2>2. ASSUME NEW j \in 1..Len(incomingPubChan) - 1 PROVE p + j <= incomingPubChan'[j]
    <3>1. 1 \in 1..Len(incomingPubChan) /\ j + 1 \in 1..Len(incomingPubChan) /\ 1 < j + 1
      BY <1>2
    <3>2. incomingPubChan[1] + ((j + 1) - 1) <= incomingPubChan[j + 1]
      BY <1>7, <3>1
    <3> QED
      BY <1>2, <1>6, <1>10, <3>2
  <2>3. BehindChan(p)'
    BY <1>2, <2>1, <2>2 DEF BehindChan
  <2> QED
    BY <1>1, <1>10, <2>1, <2>3 DEF RouterOrdered
<1>12. KeepsRouter
  <2>1. SUFFICES ASSUME NEW n \in Nat, BehindRouter(n) PROVE BehindRouter(n)'
    BY DEF KeepsRouter
  <2>2. BehindLogic(n)' /\ \A j \in 1..Len(incomingPubChan) : n + j <= incomingPubChan[j]
    BY <1>2, <1>5, <2>1 DEF KeepsLogic, BehindRouter, BehindChan
  <2>3. n < router'.id
    BY <1>1, <1>2, <2>2
  <2>4. \A j \in 1..Len(incomingPubChan) - 1 : n + j <= incomingPubChan'[j]
    BY <1>2, <2>2
  <2> QED
    BY <1>1, <1>2, <2>2, <2>3, <2>4 DEF BehindRouter, BehindChan
<1> QED
  BY <1>1, <1>3, <1>4, <1>5, <1>11, <1>12, <1>8, <1>9, PassStored DEF PipeInv

\* Before the router's step everything up to the channel keeps what it had.
LEMMA PipeUpToRouter ==
  ASSUME TypeOK, PipeInv, UNCHANGED <<toClient, ibound, logic, incomingPubChan, msgs>>
  PROVE  /\ ClientOrdered' /\ IboundOrdered' /\ LogicOrdered' /\ ChanOrdered' /\ ChanBehind'
         /\ KeepsChan /\ Len(msgs') <= MaxMsgs
<1>1. ClientOrdered' /\ KeepsClient
  BY DEF PipeInv, ClientOrdered, KeepsClient, BehindClient
<1> QED
  BY <1>1, PassIbound, PassLogic, PassChan DEF PipeInv

LEMMA PipePersist ==
  ASSUME TypeOK, PipeInv, Persist
  PROVE  PipeInv'
<1>1. /\ router.pc = "handle" /\ router'.pc = "send" /\ router'.id = router.id
      /\ router.id \in Nat /\ Len(db) \in Nat /\ DOMAIN db = 1..Len(db)
      /\ \A i \in 1..Len(db) : db[i] \in Nat
      /\ UNCHANGED <<toClient, ibound, logic, incomingPubChan, msgs>>
  BY DEF Persist, TypeOK, RouterTypeOK, brokerVars
<1>2. ClientOrdered' /\ IboundOrdered' /\ LogicOrdered' /\ ChanOrdered' /\ ChanBehind'
      /\ KeepsChan /\ Len(msgs') <= MaxMsgs
  BY <1>1, PipeUpToRouter
<1>3. RouterOrdered'
  BY <1>1, <1>2 DEF PipeInv, RouterOrdered, KeepsChan
<1>4. KeepsRouter
  BY <1>1, <1>2 DEF KeepsRouter, KeepsChan, BehindRouter
<1>5. PICK r \in Nat : r = router.id
  BY <1>1
<1>6. r >= 1 /\ BehindRouter(r)'
  BY <1>1, <1>3, <1>5 DEF RouterOrdered, BehindRouter
<1>7. ASSUME NEW i \in 1..Len(db), NEW n \in Nat, n = db[i]
      PROVE  n >= 1 /\ BehindRouter(n)' /\ n < r
  BY <1>1, <1>4, <1>5, <1>7 DEF PipeInv, StoredBehind, KeepsRouter, BehindRouter
<1>8. CASE db' = db
  BY <1>1, <1>2, <1>3, <1>7, <1>8 DEF PipeInv, StoredBehind, StoredInOrder
<1>9. CASE db' = Append(db, router.id)
  <2>1. /\ DOMAIN db' = 1..Len(db) + 1 /\ db'[Len(db) + 1] = router.id
        /\ \A i \in 1..Len(db) : db'[i] = db[i]
    BY <1>1, <1>9 DEF TypeOK, RouterTypeOK
  <2>2. StoredBehind'
    <3>1. SUFFICES ASSUME NEW i \in 1..Len(db) + 1, NEW n \in Nat, n = db'[i]
                   PROVE  n >= 1 /\ BehindRouter(n)'
      BY <1>1, <2>1 DEF StoredBehind
    <3>2. CASE i \in 1..Len(db)
      BY <1>7, <2>1, <3>1, <3>2
    <3>3. CASE i = Len(db) + 1
      BY <1>5, <1>6, <2>1, <3>1, <3>3
    <3> QED
      BY <1>1, <3>2, <3>3
  <2>3. StoredInOrder'
    BY <1>1, <1>5, <1>7, <2>1 DEF PipeInv, StoredInOrder
  <2> QED
    BY <1>2, <1>3, <2>2, <2>3 DEF PipeInv
<1> QED
  BY <1>8, <1>9 DEF Persist

\* The router's other steps: to the default handler, and back to its channel.
LEMMA PipeRouter ==
  ASSUME TypeOK, PipeInv, ReceiveMsg \/ RunDefault
  PROVE  PipeInv'
<1>1. /\ UNCHANGED <<toClient, ibound, logic, incomingPubChan, db, msgs>>
      /\ router'.id = router.id /\ router.id \in Nat
      /\ router'.pc = "select" \/ (router.pc = "unmatched" /\ router'.pc = "default")
  BY DEF ReceiveMsg, RunDefault, TypeOK, RouterTypeOK, brokerVars
<1>2. ClientOrdered' /\ IboundOrdered' /\ LogicOrdered' /\ ChanOrdered' /\ ChanBehind'
      /\ KeepsChan /\ Len(msgs') <= MaxMsgs
  BY <1>1, PipeUpToRouter
<1>3. RouterOrdered'
  BY <1>1, <1>2 DEF PipeInv, RouterOrdered, KeepsChan
<1>4. KeepsRouter
  BY <1>1, <1>2 DEF KeepsRouter, KeepsChan, BehindRouter
<1> QED
  BY <1>1, <1>2, <1>3, <1>4, PassStored DEF PipeInv

LEMMA PipeSend ==
  ASSUME TypeOK, PipeInv, BrokerSends
  PROVE  PipeInv'
<1>1. /\ Len(msgs) \in Nat /\ Len(msgs') = Len(msgs) + 1 /\ Len(msgs') <= MaxMsgs
      /\ UNCHANGED <<ibound, logic, incomingPubChan, router, db>>
  BY PlumberAssumption DEF BrokerSends, TypeOK, PeerTypeOK, routerVars
<1>2. /\ Len(toClient) \in Nat /\ DOMAIN toClient = 1..Len(toClient)
      /\ DOMAIN toClient' = 1..Len(toClient) + 1
      /\ \A j \in 1..Len(toClient) : toClient'[j] = toClient[j] /\ toClient[j].id \in Nat
      /\ toClient'[Len(toClient) + 1].id = Len(msgs) + 1
  BY InPktOK DEF BrokerSends, TypeOK, ReceiveTypeOK, Pkt
<1>3. ClientOrdered'
  <2>1. \A i \in 1..Len(toClient) : toClient[i].type = "PUBLISH" =>
            /\ toClient[i].id >= 1 /\ toClient[i].id <= Len(msgs)
            /\ \A j \in 1..Len(toClient) :
                   i < j /\ toClient[j].type = "PUBLISH" => toClient[i].id < toClient[j].id
    BY <1>2 DEF PipeInv, ClientOrdered
  <2> QED
    BY <1>1, <1>2, <2>1 DEF ClientOrdered
<1>4. KeepsClient
  BY <1>1, <1>2 DEF KeepsClient, BehindClient
<1> QED
  BY <1>1, <1>3, <1>4, PassIbound, PassLogic, PassChan, PassRouter, PassStored DEF PipeInv

LEMMA PipeStep == TypeInv /\ PipeInv /\ [Next]_vars => PipeInv'
<1> SUFFICES ASSUME TypeOK, PipeInv, [Next]_vars PROVE PipeInv'
  BY DEF TypeInv
<1>1. CASE ReceiveMsg \/ RunDefault
  BY <1>1, PipeRouter
<1>2. CASE Incoming
  BY <1>2, PipeReceive
<1>3. CASE LogicForward
  BY <1>3, PipeForward
<1>4. CASE LogicSuback \/ LogicPubAcked \/ LogicPutAck \/ LogicTimeout
  <2>1. /\ UNCHANGED ibound \/ ibound' = <<>>
        /\ UNCHANGED logic \/ logic'.pc = "select"
        /\ UNCHANGED <<toClient, incomingPubChan, router, db, msgs>>
    BY <1>4 DEF LogicSuback, LogicPubAcked, LogicPutAck, LogicTimeout, LogicTakes,
                routerVars, brokerVars, TypeOK, ReceiveTypeOK
  <2> QED
    BY <2>1, PipeDrop
<1>5. CASE LogicPutPub
  BY <1>5, PipePut
<1>6. CASE Dispatch
  BY <1>6, PipeDispatch
<1>7. CASE Persist
  BY <1>7, PipePersist
<1>8. CASE BrokerSubscribe \/ BrokerPublish \/ BrokerPubrel \/ BrokerAcked
  <2>1. Head(toBroker).id \in Nat
    BY <1>8, BrokerTakesOK
    DEF BrokerSubscribe, BrokerPublish, BrokerPubrel, BrokerAcked, TypeOK
  <2>2. /\ UNCHANGED <<ibound, logic, incomingPubChan, router, db, msgs>>
        /\ \E t \in InType \ {"PUBLISH"} :
               toClient' = Append(toClient, Pkt(t, Head(toBroker).id)) \/ UNCHANGED toClient
    <3>1. CASE BrokerSubscribe
      BY <1>8, <3>1 DEF BrokerSubscribe, InType, routerVars, brokerVars
    <3>2. CASE BrokerPublish
      <4>1. \/ toClient' = toClient
            \/ toClient' = Append(toClient, Pkt("PUBACK", Head(toBroker).id))
            \/ toClient' = Append(toClient, Pkt("PUBREC", Head(toBroker).id))
        BY <3>2, PlumberAssumption DEF BrokerPublish
      <4>2. UNCHANGED <<ibound, logic, incomingPubChan, router, db, msgs>>
        BY <3>2 DEF BrokerPublish, routerVars
      <4>3. "PUBACK" \in InType \ {"PUBLISH"} /\ "PUBREC" \in InType \ {"PUBLISH"}
        BY DEF InType
      <4> QED
        BY <4>1, <4>2, <4>3
    <3>3. CASE BrokerPubrel
      BY <1>8, <3>3 DEF BrokerPubrel, InType, routerVars, brokerVars
    <3>4. CASE BrokerAcked
      BY <1>8, <3>4 DEF BrokerAcked, InType, routerVars, brokerVars
    <3> QED
      BY <1>8, <3>1, <3>2, <3>3, <3>4
  <2> QED
    BY <2>1, <2>2, PipeAnswer
<1>9. CASE BrokerSends
  BY <1>9, PipeSend
<1>10. CASE UNCHANGED <<toClient, ibound, logic, incomingPubChan, router, db, msgs>>
  BY <1>10, PipeDrop
<1> QED
  BY <1>1, <1>2, <1>3, <1>4, <1>5, <1>6, <1>7, <1>8, <1>9, <1>10, PipeFrame

LEMMA Inductive == Spec => []IInv
<1>1. Init => IInv
  BY TypeInit, PipeInit DEF IInv
<1>2. IInv /\ [Next]_vars => IInv'
  BY TypeStep, PipeStep DEF IInv
<1> QED
  BY <1>1, <1>2, PTL DEF Spec

\* Whatever the capacities, the subscriptions and the interleaving, messages
\* are stored in the order they were sent, and none twice.
THEOREM OrderKept == Spec => []StoredInOrder
<1>1. IInv => StoredInOrder
  BY DEF IInv, PipeInv
<1> QED
  BY <1>1, Inductive, PTL

\* The router's message, a full incomingPubChan and alllogic's message are
\* PubCap + 2 different messages: with fewer the program never wedges.
THEOREM EnoughRoom == MaxMsgs <= PubCap + 1 => (Spec => []NoWedge)
<1> SUFFICES ASSUME MaxMsgs <= PubCap + 1 PROVE Spec => []NoWedge
  OBVIOUS
<1>1. IInv => NoWedge
  <2> SUFFICES ASSUME IInv, Wedged PROVE FALSE
    BY DEF NoWedge
  <2>1. /\ router.pc # "select" /\ logic.pc = "putPub" /\ Len(incomingPubChan) = PubCap
        /\ router.id \in Nat /\ logic.id \in Nat /\ PubCap \in Nat \ {0} /\ MaxMsgs \in Nat
        /\ incomingPubChan \in Seq(Nat) /\ Len(msgs) \in Nat
    BY PlumberAssumption
    DEF Wedged, IInv, TypeInv, TypeOK, ReceiveTypeOK, RouterTypeOK, PeerTypeOK
  <2>2. router.id >= 1 /\ router.id + PubCap <= incomingPubChan[PubCap]
    BY <2>1 DEF IInv, PipeInv, RouterOrdered, BehindChan
  <2>3. incomingPubChan[PubCap] < logic.id
    BY <2>1 DEF IInv, PipeInv, ChanBehind, BehindLogic
  <2>4. logic.id <= MaxMsgs
    BY <2>1 DEF IInv, PipeInv, LogicOrdered, BehindIbound, BehindClient
  <2>5. incomingPubChan[PubCap] \in Nat
    BY <2>1
  <2> QED
    BY <2>1, <2>2, <2>3, <2>4, <2>5
<1> QED
  BY <1>1, Inductive, PTL
=============================================================================
