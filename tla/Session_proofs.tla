--------------------------- MODULE Session_proofs ----------------------------
(***************************************************************************)
(* Proofs about the connections of a client, from one to the next: what a  *)
(* delivery survives, how the client gets to a server, and what it reads   *)
(* and writes when the connection is a websocket.                          *)
(*                                                                         *)
(* The argument about deliveries (Delivery) is that the first copy of a    *)
(* message is Gone once, for ever: the broker has sent it, and it is not   *)
(* on the wire.  Everything that could store a message twice or forget it, *)
(* a resent copy, an answer, the release of an identifier, comes after     *)
(* that.                                                                   *)
(*                                                                         *)
(* The argument about connecting (Setup) is that connect() goes down the   *)
(* list: of every server it has passed, it is known in which version that  *)
(* one was asked and did not take the client.                              *)
(*                                                                         *)
(* The argument about websockets (WebSocket) is a count: what is read and  *)
(* what is left of the frame in hand are as many as the data bytes of the  *)
(* frames begun; and who holds the lock has begun a frame alone.           *)
(***************************************************************************)
EXTENDS Delivery, Setup, WebSocket, FiniteSetTheorems, SequenceTheorems, TLAPS

\* A packet is the first copy of a message.
Fresh(p) == p.type = "PUBLISH" /\ ~p.dup

\* The first copy of a message is in a sequence of packets; so is another packet
\* about it.
In(n, ps) == \E i \in DOMAIN ps : Fresh(ps[i]) /\ ps[i].n = n
Later(n, ps) == \E i \in DOMAIN ps : ~Fresh(ps[i]) /\ ps[i].n = n

\* No first copy is in a sequence twice.
Single(ps) == \A i, j \in DOMAIN ps : Fresh(ps[i]) /\ Fresh(ps[j]) /\ ps[i].n = ps[j].n => i = j

Packets(types) == [type : types, n : DOMAIN qos, dup : BOOLEAN]
Publishings == Packets({"PUBLISH", "PUBREL"})
Answers == Packets({"PUBACK", "PUBREC", "PUBCOMP"})

TypeInv ==
    /\ clean \in BOOLEAN /\ routed \in BOOLEAN /\ subscribed \in BOOLEAN
    /\ link \in {"up", "down"} /\ qos \in Seq(0..2) /\ losses \in Nat /\ deaths \in Nat
    /\ broker \in Seq({"send", "resend", "sent", "release", "released", "done"})
    /\ lost \in Seq({"no", "unsubscribed", "wire", "process", "session", "unrouted"})
    /\ Len(broker) = Len(qos) /\ Len(lost) = Len(qos)
    /\ down \in Seq(Publishings) /\ incomingPubChan \in Seq(Packets({"PUBLISH"}))
    /\ logic \in Answers \cup {Nothing} /\ oboundP \in Seq(Answers) /\ upward \in Seq(Answers)
    /\ db \in Seq(DOMAIN qos)

\* Who is subscribed, and what that leaves to be lost.
SubscribedInv ==
    /\ ~routed => (qos = <<>> /\ losses = 0) \/ deaths > 0
    /\ Started /\ ~clean => subscribed
    /\ routed /\ losses + deaths = 0 => subscribed
    /\ link = "down" => down = <<>>
    /\ link = "down" /\ clean => ~subscribed /\ \A n \in DOMAIN qos : broker[n] = "done"

\* The first copy has been sent and is not on the wire.
Gone(n) == broker[n] # "send" /\ ~In(n, down)

\* What answers a message, or follows its first copy, finds that gone.
GoneInv(n) ==
    /\ broker[n] \in {"resend", "release", "released"} => Gone(n)
    /\ broker[n] = "done" /\ qos[n] > 0 => Gone(n)
    /\ Later(n, down) \/ logic.n = n \/ Later(n, oboundP) \/ Later(n, upward) => Gone(n)

\* The first copy of a message is in one place or lost.
PlaceInv(n) ==
    /\ broker[n] = "send" => ~In(n, down)
    /\ In(n, incomingPubChan) \/ Stored(n) \/ lost[n] # "no" => Gone(n)
    /\ In(n, incomingPubChan) => ~Stored(n) /\ lost[n] = "no"
    /\ Stored(n) => lost[n] = "no"
    /\ lost[n] = "no" => Stored(n) \/ broker[n] = "send" \/ In(n, down) \/ In(n, incomingPubChan)

\* Why it was lost.
LostInv(n) ==
    /\ lost[n] \in {"process", "unrouted"} => deaths > 0
    /\ lost[n] \in {"wire", "unsubscribed", "session"} => losses + deaths > 0
    /\ lost[n] \in {"unsubscribed", "session"} => clean

OnceInv ==
    /\ Single(down) /\ Single(incomingPubChan)
    /\ \A i, j \in DOMAIN db : db[i] = db[j] => i = j

MessageInv(n) == GoneInv(n) /\ PlaceInv(n) /\ LostInv(n)

DeliveryInv == TypeInv /\ SubscribedInv /\ OnceInv /\ \A n \in DOMAIN qos : MessageInv(n)
-----------------------------------------------------------------------------
(* Packets in sequence.                                                    *)

LEMMA Appending ==
    ASSUME NEW S, NEW ps \in Seq(S), NEW p \in S, NEW n
    PROVE  /\ In(n, Append(ps, p)) <=> In(n, ps) \/ (Fresh(p) /\ p.n = n)
           /\ Later(n, Append(ps, p)) <=> Later(n, ps) \/ (~Fresh(p) /\ p.n = n)
<1> DEFINE qs == Append(ps, p)
<1>1. /\ DOMAIN qs = DOMAIN ps \cup {Len(ps) + 1} /\ qs[Len(ps) + 1] = p
      /\ \A i \in DOMAIN ps : qs[i] = ps[i]
  OBVIOUS
<1> HIDE DEF qs
<1>2. /\ In(n, qs) <=> In(n, ps) \/ (Fresh(p) /\ p.n = n)
      /\ Later(n, qs) <=> Later(n, ps) \/ (~Fresh(p) /\ p.n = n)
  BY <1>1 DEF In, Later
<1> QED
  BY <1>2 DEF qs

LEMMA Taking ==
    ASSUME NEW S, NEW ps \in Seq(S), ps # <<>>, NEW n
    PROVE  /\ In(n, ps) <=> In(n, Tail(ps)) \/ (Fresh(Head(ps)) /\ Head(ps).n = n)
           /\ Later(n, ps) <=> Later(n, Tail(ps)) \/ (~Fresh(Head(ps)) /\ Head(ps).n = n)
<1> DEFINE qs == Tail(ps)
           p == Head(ps)
<1>1. /\ 1 \in DOMAIN ps /\ p = ps[1]
      /\ \A i \in DOMAIN qs : i + 1 \in DOMAIN ps /\ qs[i] = ps[i + 1]
      /\ \A i \in DOMAIN ps : i = 1 \/ (i - 1 \in DOMAIN qs /\ ps[i] = qs[i - 1])
  OBVIOUS
<1> HIDE DEF qs, p
<1>2. /\ In(n, ps) <=> In(n, qs) \/ (Fresh(p) /\ p.n = n)
      /\ Later(n, ps) <=> Later(n, qs) \/ (~Fresh(p) /\ p.n = n)
  BY <1>1 DEF In, Later
<1> QED
  BY <1>2 DEF qs, p

LEMMA ElementOf ==
    ASSUME NEW S, NEW s \in Seq(S), NEW i \in DOMAIN s
    PROVE  s[i] \in S
OBVIOUS

LEMMA Longer ==
    ASSUME NEW S, NEW s \in Seq(S), NEW x
    PROVE  /\ DOMAIN s = 1..Len(s) /\ Len(s) \in Nat
           /\ DOMAIN Append(s, x) = DOMAIN s \cup {Len(s) + 1} /\ Append(s, x)[Len(s) + 1] = x
           /\ \A i \in DOMAIN s : Append(s, x)[i] = s[i]
OBVIOUS

LEMMA SequenceOfMore ==
    ASSUME NEW S, NEW T, S \subseteq T, NEW s \in Seq(S)
    PROVE  s \in Seq(T)
OBVIOUS

LEMMA Empty ==
    ASSUME NEW n PROVE ~In(n, <<>>) /\ ~Later(n, <<>>) /\ Single(<<>>)
BY DEF In, Later, Single

LEMMA SingleAppended ==
    ASSUME NEW S, NEW ps \in Seq(S), NEW p \in S, Single(ps), Fresh(p) => ~In(p.n, ps)
    PROVE  Single(Append(ps, p))
<1> DEFINE qs == Append(ps, p)
<1>1. /\ DOMAIN qs = DOMAIN ps \cup {Len(ps) + 1} /\ qs[Len(ps) + 1] = p
      /\ \A i \in DOMAIN ps : qs[i] = ps[i]
  OBVIOUS
<1> HIDE DEF qs
<1>2. Single(qs)
  BY <1>1 DEF Single, In
<1> QED
  BY <1>2 DEF qs

LEMMA SingleTail ==
    ASSUME NEW S, NEW ps \in Seq(S), ps # <<>>, Single(ps)
    PROVE  Single(Tail(ps)) /\ (Fresh(Head(ps)) => ~In(Head(ps).n, Tail(ps)))
<1> DEFINE qs == Tail(ps)
           p == Head(ps)
<1>1. /\ 1 \in DOMAIN ps /\ p = ps[1] /\ DOMAIN qs \subseteq Nat \ {0}
      /\ \A i \in DOMAIN qs : i + 1 \in DOMAIN ps /\ qs[i] = ps[i + 1]
  OBVIOUS
<1> HIDE DEF qs, p
<1>2. Single(qs) /\ (Fresh(p) => ~In(p.n, qs))
  BY <1>1 DEF Single, In
<1> QED
  BY <1>2 DEF qs, p

\* First, and what the model says with it.
LEMMA FirstIsIn ==
    ASSUME NEW types, NEW ps \in Seq(Packets(types)), NEW n \in DOMAIN qos
    PROVE  n \in First(ps) <=> In(n, ps)
<1>1. \A i \in DOMAIN ps : ps[i] \in Packets(types)
  OBVIOUS
<1>2. \A p \in Packets(types) : p = Packet("PUBLISH", n, FALSE) <=> Fresh(p) /\ p.n = n
  BY DEF Packets, Packet, Fresh
<1> QED
  BY <1>1, <1>2 DEF First, In
-----------------------------------------------------------------------------
(* The steps of the broker.                                                *)

LEMMA DeliveryInitInv == DeliveryInit => DeliveryInv
<1> SUFFICES ASSUME DeliveryInit PROVE DeliveryInv
  OBVIOUS
<1>1. TypeInv
  <2>1. clean \in BOOLEAN /\ routed \in BOOLEAN /\ subscribed \in BOOLEAN
    BY Zenon DEF DeliveryInit
  <2>2. \A S : <<>> \in Seq(S)
    OBVIOUS
  <2>3. losses \in Nat /\ deaths \in Nat /\ link \in {"up", "down"} /\ Len(broker) = Len(qos) /\ Len(lost) = Len(qos)
    BY DEF DeliveryInit
  <2> QED
    BY <2>1, <2>2, <2>3, Zenon DEF DeliveryInit, TypeInv
<1>3. SubscribedInv
  BY DEF DeliveryInit, SubscribedInv, Started
<1>2. OnceInv /\ DOMAIN qos = {}
  BY Empty DEF DeliveryInit, OnceInv
<1> QED
  BY <1>1, <1>2, <1>3 DEF DeliveryInv

LEMMA StepPublish ==
    ASSUME DeliveryInv, Publish PROVE DeliveryInv'
<1>0. PICK m : m = Len(qos) + 1
  OBVIOUS
<1>1. PICK q \in 0..2 : qos' = Append(qos, q)
  BY DEF Publish
<1>2. /\ Started /\ broker' = Append(broker, IF subscribed THEN "send" ELSE "done")
      /\ lost' = Append(lost, IF subscribed THEN "no" ELSE "unsubscribed")
      /\ UNCHANGED <<clean, subscribed, link, down, upward, losses, deaths, logic, oboundP,
                     incomingPubChan, routed, db>>
  BY DEF Publish, wireVars, clientVars
<1>3. TypeInv /\ SubscribedInv /\ OnceInv
  BY DEF DeliveryInv
<1>4. /\ DOMAIN qos' = DOMAIN qos \cup {m} /\ m \notin DOMAIN qos /\ m # 0
      /\ broker'[m] = (IF subscribed THEN "send" ELSE "done")
      /\ lost'[m] = (IF subscribed THEN "no" ELSE "unsubscribed")
      /\ \A n \in DOMAIN qos : qos'[n] = qos[n] /\ broker'[n] = broker[n] /\ lost'[n] = lost[n]
  <2>1. qos \in Seq(0..2) /\ Len(broker) = Len(qos) /\ Len(lost) = Len(qos)
        /\ broker \in Seq({"send", "resend", "sent", "release", "released", "done"})
        /\ lost \in Seq({"no", "unsubscribed", "wire", "process", "session", "unrouted"})
    BY <1>3 DEF TypeInv
  <2>2. DOMAIN qos' = DOMAIN qos \cup {m} /\ m \notin DOMAIN qos /\ m # 0
        /\ \A n \in DOMAIN qos : qos'[n] = qos[n]
    BY <1>0, <1>1, <2>1, Longer
  <2>3. broker'[m] = (IF subscribed THEN "send" ELSE "done")
        /\ \A n \in DOMAIN qos : broker'[n] = broker[n]
    BY <1>0, <1>2, <2>1, Longer
  <2>4. lost'[m] = (IF subscribed THEN "no" ELSE "unsubscribed")
        /\ \A n \in DOMAIN qos : lost'[n] = lost[n]
    BY <1>0, <1>2, <2>1, Longer
  <2> QED
    BY <2>2, <2>3, <2>4
<1>5. TypeInv'
  <2>1. /\ Publishings \subseteq Publishings' /\ Answers \subseteq Answers'
        /\ Packets({"PUBLISH"}) \subseteq Packets({"PUBLISH"})' /\ DOMAIN qos \subseteq DOMAIN qos'
    BY <1>4 DEF Packets, Answers, Publishings
  <2>2. /\ down \in Seq(Publishings') /\ incomingPubChan \in Seq(Packets({"PUBLISH"})')
        /\ logic \in Answers' \cup {Nothing} /\ oboundP \in Seq(Answers') /\ upward \in Seq(Answers')
        /\ db \in Seq(DOMAIN qos')
    BY <1>3, <2>1, SequenceOfMore DEF TypeInv
  <2>3. /\ qos' \in Seq(0..2) /\ Len(broker') = Len(qos') /\ Len(lost') = Len(qos')
        /\ broker' \in Seq({"send", "resend", "sent", "release", "released", "done"})
        /\ lost' \in Seq({"no", "unsubscribed", "wire", "process", "session", "unrouted"})
    BY <1>1, <1>2, <1>3 DEF TypeInv
  <2> QED
    BY <1>2, <1>3, <2>2, <2>3 DEF TypeInv
<1>6. SubscribedInv' /\ OnceInv'
  <2>1. OnceInv' /\ Started'
    BY <1>2, <1>3 DEF OnceInv, Started
  <2>2. routed \/ deaths > 0
    BY <1>2, <1>3 DEF SubscribedInv, Started, TypeInv
  <2>3. SubscribedInv'
    BY <1>2, <1>3, <1>4, <2>1, <2>2 DEF SubscribedInv
  <2> QED
    BY <2>1, <2>3
<1>7. ASSUME NEW n \in DOMAIN qos PROVE MessageInv(n)'
  <2>1. broker'[n] = broker[n] /\ lost'[n] = lost[n] /\ qos'[n] = qos[n] /\ (Stored(n)' <=> Stored(n))
    BY <1>2, <1>4 DEF Stored
  <2>2. GoneInv(n) /\ PlaceInv(n) /\ LostInv(n)
    BY DEF DeliveryInv, MessageInv
  <2>3. GoneInv(n)' /\ PlaceInv(n)'
    BY <1>2, <2>1, <2>2 DEF GoneInv, PlaceInv, Gone
  <2>4. LostInv(n)'
    BY <1>2, <2>1, <2>2 DEF LostInv
  <2> QED
    BY <2>3, <2>4 DEF MessageInv
<1>8. MessageInv(m)'
  <2>1. /\ \A i \in DOMAIN down : down[i].n # m
        /\ \A i \in DOMAIN upward : upward[i].n # m
        /\ \A i \in DOMAIN oboundP : oboundP[i].n # m
        /\ \A i \in DOMAIN incomingPubChan : incomingPubChan[i].n # m
        /\ logic.n # m /\ \A i \in DOMAIN db : db[i] # m
    <3>1. /\ \A p \in Publishings \cup Answers \cup Packets({"PUBLISH"}) : p.n # m
          /\ Nothing.n # m
      BY <1>4 DEF Packets, Publishings, Answers, Nothing
    <3>2. /\ \A i \in DOMAIN down : down[i] \in Publishings
          /\ \A i \in DOMAIN upward : upward[i] \in Answers
          /\ \A i \in DOMAIN oboundP : oboundP[i] \in Answers
          /\ \A i \in DOMAIN incomingPubChan : incomingPubChan[i] \in Packets({"PUBLISH"})
          /\ \A i \in DOMAIN db : db[i] \in DOMAIN qos
      BY <1>3, ElementOf DEF TypeInv
    <3> QED
      BY <1>3, <1>4, <3>1, <3>2 DEF TypeInv
  <2>2. ~In(m, down) /\ ~In(m, incomingPubChan) /\ ~Later(m, down) /\ ~Later(m, oboundP)
        /\ ~Later(m, upward)
    BY <2>1 DEF In, Later
  <2>3. ~subscribed => clean /\ losses + deaths > 0
    BY <1>2, <1>3 DEF SubscribedInv, Started, TypeInv
  <2> QED
    <3>1. broker'[m] = (IF subscribed THEN "send" ELSE "done") /\ logic'.n # m /\ ~Stored(m)'
          /\ ~In(m, down)' /\ ~In(m, incomingPubChan)' /\ ~Later(m, down)' /\ ~Later(m, oboundP)'
          /\ ~Later(m, upward)'
      BY <1>2, <1>4, <2>1, <2>2 DEF Stored
    <3> QED
      BY <1>2, <1>4, <2>3, <3>1 DEF MessageInv, GoneInv, PlaceInv, LostInv, Gone
<1> QED
  BY <1>4, <1>5, <1>6, <1>7, <1>8 DEF DeliveryInv
LEMMA Messages ==
    ASSUME TypeInv
    PROVE  /\ DOMAIN qos = 1..Len(qos) /\ DOMAIN broker = DOMAIN qos /\ DOMAIN lost = DOMAIN qos
           /\ \A n \in DOMAIN qos :
                 /\ qos[n] \in 0..2 /\ n # 0
                 /\ broker[n] \in {"send", "resend", "sent", "release", "released", "done"}
                 /\ lost[n] \in {"no", "unsubscribed", "wire", "process", "session", "unrouted"}
<1>1. qos \in Seq(0..2) /\ Len(broker) = Len(qos) /\ Len(lost) = Len(qos)
      /\ broker \in Seq({"send", "resend", "sent", "release", "released", "done"})
      /\ lost \in Seq({"no", "unsubscribed", "wire", "process", "session", "unrouted"})
  BY DEF TypeInv
<1>2. DOMAIN qos = 1..Len(qos) /\ DOMAIN broker = DOMAIN qos /\ DOMAIN lost = DOMAIN qos
  BY <1>1
<1> QED
  BY <1>1, <1>2, ElementOf

LEMMA StepBrokerSends ==
    ASSUME DeliveryInv, BrokerSends PROVE DeliveryInv'
<1>1. PICK n \in DOMAIN broker :
        /\ broker[n] \in {"send", "resend", "release"}
        /\ down' = Append(down, IF broker[n] = "release" THEN Packet("PUBREL", n, FALSE)
                                ELSE Packet("PUBLISH", n, broker[n] = "resend"))
        /\ broker' = [broker EXCEPT ![n] = CASE @ = "release" -> "released"
                                             [] qos[n] = 0 -> "done"
                                             [] OTHER -> "sent"]
  BY DEF BrokerSends
<1>2. /\ link = "up"
      /\ UNCHANGED <<clean, qos, subscribed, link, upward, losses, deaths, logic, oboundP,
                     incomingPubChan, routed, db, lost>>
  BY DEF BrokerSends, clientVars
<1>3. PICK p : p = IF broker[n] = "release" THEN Packet("PUBREL", n, FALSE)
                   ELSE Packet("PUBLISH", n, broker[n] = "resend")
  OBVIOUS
<1>4. TypeInv /\ SubscribedInv /\ OnceInv /\ DOMAIN broker = DOMAIN qos /\ MessageInv(n)
  BY Messages DEF DeliveryInv
<1>5. down' = Append(down, p) /\ p \in Publishings /\ p.n = n /\ (Fresh(p) <=> broker[n] = "send")
  BY <1>1, <1>3, <1>4 DEF Publishings, Packets, Packet, Fresh
<1>6. down \in Seq(Publishings)
  BY <1>4 DEF TypeInv
<1>7. /\ broker'[n] \in {"released", "done", "sent"}
      /\ broker[n] = "send" => broker'[n] = IF qos[n] = 0 THEN "done" ELSE "sent"
      /\ \A m \in DOMAIN qos : m # n => broker'[m] = broker[m]
  <2>1. PICK v : v = CASE broker[n] = "release" -> "released"
                       [] qos[n] = 0 -> "done"
                       [] OTHER -> "sent"
    OBVIOUS
  <2>2. v \in {"released", "done", "sent"}
    BY <2>1
  <2>3. ASSUME broker[n] = "send" PROVE v = IF qos[n] = 0 THEN "done" ELSE "sent"
    BY <2>1, <2>3
  <2>4. broker' = [broker EXCEPT ![n] = v]
    BY <1>1, <2>1
  <2>5. broker'[n] = v /\ \A m \in DOMAIN qos : m # n => broker'[m] = broker[m]
    BY <1>1, <1>4, <2>4 DEF TypeInv
  <2> QED
    BY <2>2, <2>3, <2>5
<1>8. TypeInv'
  <2>1. broker' \in Seq({"send", "resend", "sent", "release", "released", "done"})
        /\ Len(broker') = Len(broker)
    BY <1>1, <1>4 DEF TypeInv
  <2>2. down' \in Seq(Publishings)
    BY <1>5, <1>6
  <2> QED
    BY <1>2, <1>4, <2>1, <2>2 DEF TypeInv, Publishings, Answers, Packets
<1>9. SubscribedInv'
  BY <1>2, <1>4 DEF SubscribedInv, Started
<1>10. OnceInv'
  BY <1>2, <1>4, <1>5, <1>6, SingleAppended DEF OnceInv, MessageInv, PlaceInv
<1>11. ASSUME NEW m \in DOMAIN qos PROVE MessageInv(m)'
  <2>1. /\ In(m, down') <=> In(m, down) \/ (broker[n] = "send" /\ m = n)
        /\ Later(m, down') <=> Later(m, down) \/ (broker[n] # "send" /\ m = n)
    BY <1>5, <1>6, Appending
  <2>2. MessageInv(m)
    BY DEF DeliveryInv
  <2>3. CASE m # n
    BY <1>2, <1>7, <2>1, <2>2, <2>3 DEF MessageInv, GoneInv, PlaceInv, LostInv, Gone, Stored
  <2>4. CASE m = n /\ broker[n] = "send"
    BY <1>2, <1>7, <2>1, <2>2, <2>4 DEF MessageInv, GoneInv, PlaceInv, LostInv, Gone, Stored
  <2>5. CASE m = n /\ broker[n] # "send"
    BY <1>1, <1>2, <1>7, <2>1, <2>2, <2>5 DEF MessageInv, GoneInv, PlaceInv, LostInv, Gone, Stored
  <2> QED
    BY <2>3, <2>4, <2>5
<1> QED
  BY <1>2, <1>8, <1>9, <1>10, <1>11 DEF DeliveryInv
LEMMA StepBrokerReceives ==
    ASSUME DeliveryInv, BrokerReceives PROVE DeliveryInv'
<1>1. PICK p : p = Head(upward)
  OBVIOUS
<1>2. PICK v \in {"release", "done"} : broker' = [broker EXCEPT ![p.n] = v]
  BY <1>1 DEF BrokerReceives
<1>3. /\ upward # <<>> /\ upward' = Tail(upward)
      /\ UNCHANGED <<clean, qos, subscribed, link, down, losses, deaths, logic, oboundP,
                     incomingPubChan, routed, db, lost>>
  BY DEF BrokerReceives, clientVars
<1>4. TypeInv /\ SubscribedInv /\ OnceInv /\ DOMAIN broker = DOMAIN qos /\ upward \in Seq(Answers)
  BY Messages DEF DeliveryInv, TypeInv
<1>5. p \in Answers /\ ~Fresh(p) /\ p.n \in DOMAIN qos /\ upward' \in Seq(Answers)
  <2>1. p \in Answers /\ upward' \in Seq(Answers)
    BY <1>1, <1>3, <1>4
  <2> QED
    BY <2>1 DEF Answers, Packets, Fresh
<1>6. Gone(p.n)
  <2>1. Later(p.n, upward)
    BY <1>1, <1>3, <1>4, <1>5, Taking
  <2> QED
    BY <1>5, <2>1 DEF DeliveryInv, MessageInv, GoneInv
<1>7. broker'[p.n] = v /\ \A m \in DOMAIN qos : m # p.n => broker'[m] = broker[m]
  BY <1>2, <1>4, <1>5
<1>8. TypeInv'
  <2>1. broker' \in Seq({"send", "resend", "sent", "release", "released", "done"})
        /\ Len(broker') = Len(broker)
    BY <1>2, <1>4, <1>5 DEF TypeInv
  <2> QED
    BY <1>3, <1>4, <1>5, <2>1 DEF TypeInv, Publishings, Answers, Packets
<1>9. SubscribedInv' /\ OnceInv'
  <2>1. OnceInv' /\ Started' = Started
    BY <1>3, <1>4 DEF OnceInv, Started
  <2>2. link = "up"
    BY DEF BrokerReceives
  <2> QED
    BY <1>3, <1>4, <2>1, <2>2 DEF SubscribedInv
<1>10. ASSUME NEW m \in DOMAIN qos PROVE MessageInv(m)'
  <2>1. Later(m, upward') => Later(m, upward)
    BY <1>3, <1>4, Taking
  <2>2. MessageInv(m)
    BY DEF DeliveryInv
  <2>3. CASE m # p.n
    BY <1>3, <1>7, <2>1, <2>2, <2>3 DEF MessageInv, GoneInv, PlaceInv, LostInv, Gone, Stored
  <2>4. CASE m = p.n
    BY <1>3, <1>6, <1>7, <2>1, <2>2, <2>4 DEF MessageInv, GoneInv, PlaceInv, LostInv, Gone, Stored
  <2> QED
    BY <2>3, <2>4
<1> QED
  BY <1>3, <1>8, <1>9, <1>10 DEF DeliveryInv
-----------------------------------------------------------------------------
(* The steps of the client.                                                *)

LEMMA StepArrive ==
    ASSUME DeliveryInv, Arrive PROVE DeliveryInv'
<1>1. PICK p : p = Head(down)
  OBVIOUS
<1>2. /\ down # <<>> /\ down' = Tail(down) /\ link = "up"
      /\ UNCHANGED <<clean, qos, broker, subscribed, link, upward, losses, deaths, oboundP, routed, db, lost>>
  BY DEF Arrive, brokerVars
<1>3. TypeInv /\ SubscribedInv /\ OnceInv /\ down \in Seq(Publishings)
      /\ incomingPubChan \in Seq(Packets({"PUBLISH"}))
  BY DEF DeliveryInv, TypeInv
<1>4. p \in Publishings /\ p.n \in DOMAIN qos /\ qos[p.n] \in 0..2 /\ p.n # 0 /\ down' \in Seq(Publishings)
  <2>1. p \in Publishings /\ down' \in Seq(Publishings)
    BY <1>1, <1>2, <1>3
  <2> QED
    BY <1>3, <2>1, Messages DEF Publishings, Packets
<1>5. /\ logic' \in Answers \cup {Nothing} /\ \A m \in DOMAIN qos : logic'.n = m => m = p.n
      /\ \/ p.type = "PUBREL" /\ incomingPubChan' = incomingPubChan
         \/ p.type = "PUBLISH" /\ incomingPubChan' = Append(incomingPubChan, p)
  <2>1. CASE p.type = "PUBREL"
    <3>1. logic' = Packet("PUBCOMP", p.n, FALSE) /\ incomingPubChan' = incomingPubChan
      BY <1>1, <2>1 DEF Arrive
    <3> QED
      BY <1>4, <2>1, <3>1 DEF Packet, Answers, Packets
  <2>2. CASE p.type = "PUBLISH"
    <3>1. /\ incomingPubChan' = Append(incomingPubChan, p)
          /\ logic' = CASE qos[p.n] = 0 -> Nothing
                        [] qos[p.n] = 1 -> Packet("PUBACK", p.n, FALSE)
                        [] qos[p.n] = 2 -> Packet("PUBREC", p.n, FALSE)
      BY <1>1, <2>2 DEF Arrive
    <3>2. logic' \in {Nothing, Packet("PUBACK", p.n, FALSE), Packet("PUBREC", p.n, FALSE)}
      <4>1. CASE qos[p.n] = 0
        BY <3>1, <4>1
      <4>2. CASE qos[p.n] = 1
        BY <3>1, <4>2
      <4>3. CASE qos[p.n] = 2
        BY <3>1, <4>3
      <4>4. qos[p.n] = 0 \/ qos[p.n] = 1 \/ qos[p.n] = 2
        BY <1>4
      <4> QED
        BY <4>1, <4>2, <4>3, <4>4, Zenon
    <3>3. logic' = Nothing \/ (logic' \in Answers /\ logic'.n = p.n)
      <4>1. /\ Packet("PUBACK", p.n, FALSE) \in Answers /\ Packet("PUBACK", p.n, FALSE).n = p.n
            /\ Packet("PUBREC", p.n, FALSE) \in Answers /\ Packet("PUBREC", p.n, FALSE).n = p.n
        BY <1>4 DEF Packet, Answers, Packets
      <4> QED
        BY <3>2, <4>1, Zenon
    <3>4. \A m \in DOMAIN qos : Nothing.n # m
      BY <1>3, Messages DEF Nothing
    <3> QED
      BY <2>2, <3>1, <3>3, <3>4
  <2> QED
    BY <1>4, <2>1, <2>2 DEF Publishings, Packets
<1>6. Single(down') /\ (Fresh(p) => ~In(p.n, down'))
  BY <1>1, <1>2, <1>3, SingleTail DEF OnceInv
<1>7. \A m \in DOMAIN qos :
        /\ In(m, down) <=> In(m, down') \/ (Fresh(p) /\ p.n = m)
        /\ Later(m, down) <=> Later(m, down') \/ (~Fresh(p) /\ p.n = m)
  BY <1>1, <1>2, <1>3, Taking
<1>8. p.type = "PUBLISH" => p \in Packets({"PUBLISH"})
  BY <1>4 DEF Publishings, Packets
<1>9. \A m \in DOMAIN qos : In(m, incomingPubChan') <=> In(m, incomingPubChan) \/ (Fresh(p) /\ p.n = m)
  <2>1. CASE p.type = "PUBREL" /\ incomingPubChan' = incomingPubChan
    BY <2>1 DEF Fresh
  <2>2. CASE p.type = "PUBLISH" /\ incomingPubChan' = Append(incomingPubChan, p)
    BY <1>3, <1>8, <2>2, Appending
  <2> QED
    BY <1>5, <2>1, <2>2
<1>10. MessageInv(p.n)
  BY <1>4 DEF DeliveryInv
<1>11. TypeInv'
  <2>1. incomingPubChan' \in Seq(Packets({"PUBLISH"}))
    BY <1>3, <1>5, <1>8
  <2> QED
    BY <1>2, <1>3, <1>4, <1>5, <2>1 DEF TypeInv, Publishings, Answers, Packets
<1>12. SubscribedInv' /\ OnceInv'
  <2>1. Single(incomingPubChan')
    <3>1. Fresh(p) => ~In(p.n, incomingPubChan)
      BY <1>4, <1>7, <1>10 DEF MessageInv, PlaceInv, Gone
    <3> QED
      BY <1>3, <1>5, <1>8, <3>1, SingleAppended DEF OnceInv
  <2> QED
    BY <1>2, <1>3, <1>6, <2>1 DEF SubscribedInv, OnceInv, Started
<1>13. ASSUME NEW m \in DOMAIN qos PROVE MessageInv(m)'
  <2>1. MessageInv(m)
    BY DEF DeliveryInv
  <2>2. CASE m # p.n
    BY <1>2, <1>5, <1>7, <1>9, <2>1, <2>2 DEF MessageInv, GoneInv, PlaceInv, LostInv, Gone, Stored
  <2>3. CASE m = p.n /\ Fresh(p)
    BY <1>2, <1>5, <1>6, <1>7, <1>9, <2>1, <2>3 DEF MessageInv, GoneInv, PlaceInv, LostInv, Gone, Stored
  <2>4. CASE m = p.n /\ ~Fresh(p)
    BY <1>2, <1>5, <1>6, <1>7, <1>9, <2>1, <2>4 DEF MessageInv, GoneInv, PlaceInv, LostInv, Gone, Stored
  <2> QED
    BY <2>2, <2>3, <2>4
<1> QED
  BY <1>2, <1>11, <1>12, <1>13 DEF DeliveryInv
LEMMA StepAnswer ==
    ASSUME DeliveryInv, Answer PROVE DeliveryInv'
<1>1. /\ logic # Nothing /\ oboundP' = Append(oboundP, logic) /\ logic' = Nothing
      /\ UNCHANGED <<clean, qos, broker, subscribed, link, down, upward, losses, deaths,
                     incomingPubChan, routed, db, lost>>
  BY DEF Answer, brokerVars, wireVars
<1>2. TypeInv /\ SubscribedInv /\ OnceInv /\ oboundP \in Seq(Answers) /\ logic \in Answers
  BY <1>1 DEF DeliveryInv, TypeInv
<1>3. TypeInv'
  <2>1. oboundP' \in Seq(Answers) /\ logic' \in Answers \cup {Nothing}
    BY <1>1, <1>2
  <2> QED
    BY <1>1, <1>2, <2>1 DEF TypeInv, Publishings, Answers, Packets
<1>4. SubscribedInv' /\ OnceInv'
  BY <1>1, <1>2 DEF SubscribedInv, OnceInv, Started
<1>5. ASSUME NEW m \in DOMAIN qos PROVE MessageInv(m)'
  <2>1. Later(m, oboundP') => Later(m, oboundP) \/ logic.n = m
    BY <1>1, <1>2, Appending
  <2>2. logic'.n # m
    BY <1>1, <1>2, Messages DEF Nothing
  <2>3. MessageInv(m)
    BY DEF DeliveryInv
  <2> QED
    BY <1>1, <2>1, <2>2, <2>3 DEF MessageInv, GoneInv, PlaceInv, LostInv, Gone, Stored
<1> QED
  BY <1>1, <1>3, <1>4, <1>5 DEF DeliveryInv

LEMMA StepWriteAnswer ==
    ASSUME DeliveryInv, WriteAnswer PROVE DeliveryInv'
<1>1. PICK p : p = Head(oboundP)
  OBVIOUS
<1>2. /\ oboundP # <<>> /\ upward' = Append(upward, p) /\ oboundP' = Tail(oboundP)
      /\ UNCHANGED <<clean, qos, broker, subscribed, link, down, losses, deaths, logic,
                     incomingPubChan, routed, db, lost>>
  BY <1>1 DEF WriteAnswer, brokerVars
<1>3. TypeInv /\ SubscribedInv /\ OnceInv /\ oboundP \in Seq(Answers) /\ upward \in Seq(Answers)
  BY DEF DeliveryInv, TypeInv
<1>4. p \in Answers /\ oboundP' \in Seq(Answers)
  BY <1>1, <1>2, <1>3
<1>5. TypeInv'
  <2>1. upward' \in Seq(Answers)
    BY <1>2, <1>3, <1>4
  <2> QED
    BY <1>2, <1>3, <1>4, <2>1 DEF TypeInv, Publishings, Answers, Packets
<1>6. SubscribedInv' /\ OnceInv'
  BY <1>2, <1>3 DEF SubscribedInv, OnceInv, Started
<1>7. ASSUME NEW m \in DOMAIN qos PROVE MessageInv(m)'
  <2>1. Later(m, oboundP) <=> Later(m, oboundP') \/ (~Fresh(p) /\ p.n = m)
    BY <1>1, <1>2, <1>3, Taking
  <2>2. Later(m, upward') <=> Later(m, upward) \/ (~Fresh(p) /\ p.n = m)
    BY <1>2, <1>3, <1>4, Appending
  <2>3. MessageInv(m)
    BY DEF DeliveryInv
  <2> QED
    BY <1>2, <2>1, <2>2, <2>3 DEF MessageInv, GoneInv, PlaceInv, LostInv, Gone, Stored
<1> QED
  BY <1>2, <1>5, <1>6, <1>7 DEF DeliveryInv

LEMMA StepHandle ==
    ASSUME DeliveryInv, Handle PROVE DeliveryInv'
<1>1. PICK p : p = Head(incomingPubChan)
  OBVIOUS
<1>2. /\ db' = IF routed /\ ~p.dup THEN Append(db, p.n) ELSE db
      /\ lost' = IF ~routed /\ ~p.dup THEN [lost EXCEPT ![p.n] = "unrouted"] ELSE lost
      /\ incomingPubChan # <<>> /\ incomingPubChan' = Tail(incomingPubChan)
      /\ UNCHANGED <<clean, qos, broker, subscribed, link, down, upward, losses, deaths, logic,
                     oboundP, routed>>
  BY <1>1 DEF Handle, brokerVars, wireVars
<1>3. TypeInv /\ SubscribedInv /\ OnceInv /\ incomingPubChan \in Seq(Packets({"PUBLISH"}))
      /\ db \in Seq(DOMAIN qos) /\ DOMAIN lost = DOMAIN qos
  BY Messages DEF DeliveryInv, TypeInv
<1>4. p \in Packets({"PUBLISH"}) /\ incomingPubChan' \in Seq(Packets({"PUBLISH"}))
  BY <1>1, <1>2, <1>3
<1>5. p.n \in DOMAIN qos /\ (Fresh(p) <=> ~p.dup)
  BY <1>4 DEF Packets, Fresh
<1>6. MessageInv(p.n)
  BY <1>5 DEF DeliveryInv
<1>7. \A m \in DOMAIN qos : In(m, incomingPubChan) <=> In(m, incomingPubChan') \/ (~p.dup /\ p.n = m)
  BY <1>1, <1>2, <1>3, <1>5, Taking
<1>8. Single(incomingPubChan') /\ (~p.dup => ~In(p.n, incomingPubChan'))
  BY <1>1, <1>2, <1>3, <1>5, SingleTail DEF OnceInv
<1>9. ~p.dup => ~Stored(p.n) /\ lost[p.n] = "no" /\ Gone(p.n)
  BY <1>5, <1>6, <1>7 DEF MessageInv, PlaceInv
<1>10. CASE p.dup \/ (routed /\ ~p.dup)
  <2>1. lost' = lost
    BY <1>2, <1>10
  <2>2. \/ p.dup /\ db' = db
        \/ ~p.dup /\ db' = Append(db, p.n)
    BY <1>2, <1>10
  <2>3. db' \in Seq(DOMAIN qos)
    BY <1>3, <1>5, <2>2
  <2>4. \A m \in DOMAIN qos : Stored(m)' <=> Stored(m) \/ (~p.dup /\ p.n = m)
    <3>1. CASE ~p.dup /\ db' = Append(db, p.n)
      BY <1>3, <3>1, Longer DEF Stored
    <3> QED
      BY <2>2, <3>1 DEF Stored
  <2>5. OnceInv'
    <3>1. \A i, j \in DOMAIN db : db[i] = db[j] => i = j
      BY <1>3 DEF OnceInv
    <3>2. CASE ~p.dup /\ db' = Append(db, p.n)
      <4>1. \A i \in DOMAIN db : db[i] # p.n
        BY <1>9, <3>2 DEF Stored
      <4>2. \A i, j \in DOMAIN db' : db'[i] = db'[j] => i = j
        BY <1>3, <3>1, <3>2, <4>1, Longer
      <4> QED
        BY <1>2, <1>3, <1>8, <4>2 DEF OnceInv
    <3> QED
      BY <1>2, <1>3, <1>8, <2>2, <3>1, <3>2 DEF OnceInv
  <2>6. TypeInv'
    BY <1>2, <1>3, <1>4, <2>1, <2>3 DEF TypeInv, Publishings, Answers, Packets
  <2>7. SubscribedInv'
    BY <1>2, <1>3 DEF SubscribedInv, Started
  <2>8. ASSUME NEW m \in DOMAIN qos PROVE MessageInv(m)'
    <3>1. MessageInv(m)
      BY DEF DeliveryInv
    <3> QED
      BY <1>2, <1>7, <1>8, <1>9, <2>1, <2>4, <3>1 DEF MessageInv, GoneInv, PlaceInv, LostInv, Gone
  <2> QED
    BY <1>2, <2>5, <2>6, <2>7, <2>8 DEF DeliveryInv
<1>11. CASE ~routed /\ ~p.dup
  <2>1. db' = db /\ lost' = [lost EXCEPT ![p.n] = "unrouted"]
    BY <1>2, <1>11
  <2>2. /\ lost' \in Seq({"no", "unsubscribed", "wire", "process", "session", "unrouted"})
        /\ Len(lost') = Len(lost)
    BY <1>3, <1>5, <2>1 DEF TypeInv
  <2>3. lost'[p.n] = "unrouted" /\ \A m \in DOMAIN qos : m # p.n => lost'[m] = lost[m]
    BY <1>3, <1>5, <2>1
  <2>4. deaths > 0
    BY <1>3, <1>5, <1>11, Messages DEF SubscribedInv
  <2>5. TypeInv' /\ SubscribedInv' /\ OnceInv'
    <3>1. TypeInv'
      BY <1>2, <1>3, <1>4, <2>1, <2>2 DEF TypeInv, Publishings, Answers, Packets
    <3> QED
      BY <1>2, <1>3, <1>8, <2>1, <3>1 DEF SubscribedInv, OnceInv, Started
  <2>6. ASSUME NEW m \in DOMAIN qos PROVE MessageInv(m)'
    <3>1. MessageInv(m)
      BY DEF DeliveryInv
    <3>2. Stored(m)' <=> Stored(m)
      BY <2>1 DEF Stored
    <3> QED
      BY <1>2, <1>7, <1>8, <1>9, <1>11, <2>3, <2>4, <3>1, <3>2
         DEF MessageInv, GoneInv, PlaceInv, LostInv, Gone
  <2> QED
    BY <1>2, <2>5, <2>6 DEF DeliveryInv
<1> QED
  <2>1. routed \in BOOLEAN /\ p.dup \in BOOLEAN
    BY <1>3, <1>4, Zenon DEF TypeInv, Packets
  <2> QED
    BY <1>10, <1>11, <2>1

LEMMA StepSubscribe ==
    ASSUME DeliveryInv, Subscribe PROVE DeliveryInv'
<1>1. /\ link = "up" /\ routed' = TRUE /\ subscribed' = TRUE
      /\ UNCHANGED <<clean, qos, broker, link, down, upward, losses, deaths, logic, oboundP,
                     incomingPubChan, db, lost>>
  BY DEF Subscribe, wireVars
<1>2. TypeInv /\ SubscribedInv /\ OnceInv
  BY DEF DeliveryInv
<1>3. TypeInv'
  BY <1>1, <1>2 DEF TypeInv, Publishings, Answers, Packets
<1>4. SubscribedInv' /\ OnceInv'
  BY <1>1, <1>2 DEF SubscribedInv, OnceInv
<1>5. ASSUME NEW m \in DOMAIN qos PROVE MessageInv(m)'
  BY <1>1 DEF DeliveryInv, MessageInv, GoneInv, PlaceInv, LostInv, Gone, Stored
<1> QED
  BY <1>1, <1>3, <1>4, <1>5 DEF DeliveryInv
-----------------------------------------------------------------------------
(* The faults.                                                             *)

\* What becomes of a message at the end of a connection, at the broker.
LEMMA AtTheBroker ==
    ASSUME TypeInv, SessionAfter
    PROVE  /\ broker' \in Seq({"send", "resend", "sent", "release", "released", "done"})
           /\ Len(broker') = Len(broker) /\ (subscribed' <=> subscribed /\ ~clean) /\ subscribed' \in BOOLEAN
           /\ \A n \in DOMAIN qos : /\ clean => broker'[n] = "done"
                                    /\ ~clean => (broker'[n] = "send" <=> broker[n] = "send")
<1> DEFINE B == {"send", "resend", "sent", "release", "released", "done"}
           after(n) == IF clean THEN "done"
                       ELSE CASE broker[n] = "sent" -> "resend"
                              [] broker[n] = "released" -> "release"
                              [] OTHER -> broker[n]
<1>1. broker' = [n \in DOMAIN broker |-> after(n)]
  BY DEF SessionAfter
<1>2. broker \in Seq(B) /\ DOMAIN broker = DOMAIN qos /\ DOMAIN broker = 1..Len(broker) /\ Len(broker) \in Nat
  BY Messages DEF TypeInv
<1>3. ASSUME NEW n \in DOMAIN broker
      PROVE  /\ after(n) \in B /\ (clean => after(n) = "done")
             /\ ~clean => (after(n) = "send" <=> broker[n] = "send")
  <2>1. broker[n] \in B
    BY <1>2, <1>3, ElementOf
  <2> QED
    BY <2>1
<1> HIDE DEF after
<1>4. broker' \in [1..Len(broker) -> B] /\ \A n \in DOMAIN broker : broker'[n] = after(n)
  BY <1>1, <1>2, <1>3
<1>5. broker' \in Seq(B) /\ Len(broker') = Len(broker)
  BY <1>2, <1>4
<1>6. (subscribed' <=> subscribed /\ ~clean) /\ subscribed' \in BOOLEAN
  BY Zenon DEF SessionAfter
<1> QED
  BY <1>2, <1>3, <1>4, <1>5, <1>6

\* And its first copy in a fault: gone with the wire, the process or the session.
LEMMA InTheFault ==
    ASSUME TypeInv, NEW process, LostIn(First(down), process)
    PROVE  /\ lost' \in Seq({"no", "unsubscribed", "wire", "process", "session", "unrouted"})
           /\ Len(lost') = Len(lost)
           /\ \A n \in DOMAIN qos :
                 \/ In(n, down) /\ lost'[n] \in {"wire", "process"} /\ (lost'[n] = "process" => n \in process)
                 \/ n \in process /\ ~In(n, down) /\ lost'[n] = "process"
                 \/ clean /\ broker[n] = "send" /\ ~In(n, down) /\ n \notin process /\ lost'[n] = "session"
                 \/ /\ ~In(n, down) /\ n \notin process /\ ~(clean /\ broker[n] = "send")
                    /\ lost'[n] = lost[n]
<1> DEFINE L == {"no", "unsubscribed", "wire", "process", "session", "unrouted"}
           after(n) == CASE n \in First(down) -> "wire"
                         [] n \in process -> "process"
                         [] n \notin First(down) \cup process /\ clean /\ broker[n] = "send" -> "session"
                         [] OTHER -> lost[n]
<1>1. lost' = [n \in DOMAIN lost |-> after(n)]
  BY DEF LostIn
<1>2. lost \in Seq(L) /\ DOMAIN lost = DOMAIN qos /\ DOMAIN lost = 1..Len(lost) /\ Len(lost) \in Nat
  BY Messages DEF TypeInv
<1>3. ASSUME NEW n \in DOMAIN lost
      PROVE  /\ after(n) \in L
             /\ \/ In(n, down) /\ after(n) \in {"wire", "process"} /\ (after(n) = "process" => n \in process)
                \/ n \in process /\ ~In(n, down) /\ after(n) = "process"
                \/ clean /\ broker[n] = "send" /\ ~In(n, down) /\ n \notin process /\ after(n) = "session"
                \/ /\ ~In(n, down) /\ n \notin process /\ ~(clean /\ broker[n] = "send")
                   /\ after(n) = lost[n]
  <2>1. lost[n] \in L
    BY <1>2, <1>3, ElementOf
  <2>2. n \in First(down) <=> In(n, down)
    BY <1>2, <1>3, FirstIsIn DEF TypeInv, Publishings
  <2> QED
    BY <2>1, <2>2
<1> HIDE DEF after
<1>4. lost' \in [1..Len(lost) -> L] /\ \A n \in DOMAIN lost : lost'[n] = after(n)
  BY <1>1, <1>2, <1>3
<1>5. lost' \in Seq(L) /\ Len(lost') = Len(lost)
  BY <1>2, <1>4
<1> QED
  BY <1>2, <1>3, <1>4, <1>5

LEMMA StepLose ==
    ASSUME DeliveryInv, Lose PROVE DeliveryInv'
<1>1. /\ link = "up" /\ Started /\ losses' = losses + 1 /\ link' = "down" /\ down' = <<>> /\ upward' = <<>>
      /\ SessionAfter /\ LostIn(First(down), {})
      /\ UNCHANGED <<clean, qos, deaths, logic, oboundP, incomingPubChan, routed, db>>
  BY DEF Lose, clientVars
<1>2. TypeInv /\ SubscribedInv /\ OnceInv
  BY DEF DeliveryInv
<1>3. /\ broker' \in Seq({"send", "resend", "sent", "release", "released", "done"})
      /\ Len(broker') = Len(broker) /\ (subscribed' <=> subscribed /\ ~clean) /\ subscribed' \in BOOLEAN
      /\ \A n \in DOMAIN qos : /\ clean => broker'[n] = "done"
                               /\ ~clean => (broker'[n] = "send" <=> broker[n] = "send")
  BY <1>1, <1>2, AtTheBroker
<1>4. /\ lost' \in Seq({"no", "unsubscribed", "wire", "process", "session", "unrouted"})
      /\ Len(lost') = Len(lost)
      /\ \A n \in DOMAIN qos :
            \/ In(n, down) /\ lost'[n] = "wire"
            \/ clean /\ broker[n] = "send" /\ ~In(n, down) /\ lost'[n] = "session"
            \/ ~In(n, down) /\ ~(clean /\ broker[n] = "send") /\ lost'[n] = lost[n]
  BY <1>1, <1>2, InTheFault
<1>5. TypeInv'
  <2>1. down' \in Seq(Publishings) /\ upward' \in Seq(Answers) /\ losses' \in Nat
    BY <1>1, <1>2 DEF TypeInv
  <2> QED
    BY <1>1, <1>2, <1>3, <1>4, <2>1 DEF TypeInv, Publishings, Answers, Packets
<1>6. losses' + deaths' > 0 /\ (routed \/ deaths > 0)
  BY <1>1, <1>2 DEF TypeInv, SubscribedInv, Started
<1>7. SubscribedInv' /\ OnceInv'
  <2>1. SubscribedInv'
    BY <1>1, <1>2, <1>3, <1>6 DEF SubscribedInv, Started
  <2> QED
    BY <1>1, <1>2, <2>1, Empty DEF OnceInv
<1>8. ASSUME NEW n \in DOMAIN qos PROVE MessageInv(n)'
  <2>1. MessageInv(n)
    BY DEF DeliveryInv
  <2>2. ~In(n, down') /\ ~Later(n, down') /\ ~Later(n, upward')
    BY <1>1, Empty
  <2>3. (Stored(n)' <=> Stored(n)) /\ (clean => broker'[n] = "done")
        /\ (~clean => (broker'[n] = "send" <=> broker[n] = "send"))
    BY <1>1, <1>3 DEF Stored
  <2>4. GoneInv(n)'
    BY <1>1, <2>1, <2>2, <2>3 DEF MessageInv, GoneInv, Gone
  <2>5. PlaceInv(n)'
    BY <1>1, <1>4, <2>1, <2>2, <2>3 DEF MessageInv, PlaceInv, Gone
  <2>6. LostInv(n)'
    BY <1>1, <1>4, <1>6, <2>1 DEF MessageInv, LostInv
  <2> QED
    BY <2>4, <2>5, <2>6 DEF MessageInv
<1> QED
  BY <1>1, <1>5, <1>7, <1>8 DEF DeliveryInv

LEMMA StepReconnect ==
    ASSUME DeliveryInv, Reconnect PROVE DeliveryInv'
<1>1. /\ link' = "up"
      /\ UNCHANGED <<clean, qos, broker, subscribed, down, upward, losses, deaths, logic, oboundP,
                     incomingPubChan, routed, db, lost>>
  BY DEF Reconnect, brokerVars, clientVars
<1>2. TypeInv /\ SubscribedInv /\ OnceInv
  BY DEF DeliveryInv
<1>3. TypeInv'
  BY <1>1, <1>2 DEF TypeInv, Publishings, Answers, Packets
<1>4. SubscribedInv' /\ OnceInv'
  BY <1>1, <1>2 DEF SubscribedInv, OnceInv, Started
<1>5. ASSUME NEW m \in DOMAIN qos PROVE MessageInv(m)'
  BY <1>1 DEF DeliveryInv, MessageInv, GoneInv, PlaceInv, LostInv, Gone, Stored
<1> QED
  BY <1>1, <1>3, <1>4, <1>5 DEF DeliveryInv
LEMMA StepDie ==
    ASSUME DeliveryInv, Die PROVE DeliveryInv'
<1>1. /\ Started /\ deaths' = deaths + 1 /\ link' = "down" /\ down' = <<>> /\ upward' = <<>>
      /\ IF link = "up" THEN SessionAfter ELSE UNCHANGED <<broker, subscribed>>
      /\ LostIn(First(down), First(incomingPubChan))
      /\ logic' = Nothing /\ oboundP' = <<>> /\ incomingPubChan' = <<>> /\ routed' = FALSE
      /\ UNCHANGED <<clean, qos, db, losses>>
  BY DEF Die
<1>2. TypeInv /\ SubscribedInv /\ OnceInv
  BY DEF DeliveryInv
<1>4. /\ broker' \in Seq({"send", "resend", "sent", "release", "released", "done"})
      /\ Len(broker') = Len(broker) /\ subscribed' \in BOOLEAN
      /\ ~clean => (subscribed' <=> subscribed)
      /\ clean /\ link' = "down" => ~subscribed' /\ \A n \in DOMAIN qos : broker'[n] = "done"
      /\ ~clean => \A n \in DOMAIN qos : broker'[n] = "send" <=> broker[n] = "send"
  <2>1. CASE link = "up"
    BY <1>1, <1>2, <2>1, AtTheBroker
  <2>2. CASE link # "up"
    BY <1>1, <1>2, <2>2 DEF SubscribedInv, TypeInv
  <2> QED
    BY <2>1, <2>2
<1>5. /\ lost' \in Seq({"no", "unsubscribed", "wire", "process", "session", "unrouted"})
      /\ Len(lost') = Len(lost)
      /\ \A n \in DOMAIN qos :
            \/ In(n, down) /\ lost'[n] \in {"wire", "process"}
            \/ In(n, incomingPubChan) /\ ~In(n, down) /\ lost'[n] = "process"
            \/ clean /\ broker[n] = "send" /\ ~In(n, down) /\ ~In(n, incomingPubChan) /\ lost'[n] = "session"
            \/ /\ ~In(n, down) /\ ~In(n, incomingPubChan) /\ ~(clean /\ broker[n] = "send")
               /\ lost'[n] = lost[n]
  <2>1. \A n \in DOMAIN qos : n \in First(incomingPubChan) <=> In(n, incomingPubChan)
    BY <1>2, FirstIsIn DEF TypeInv
  <2> QED
    BY <1>1, <1>2, <2>1, InTheFault
<1>6. TypeInv'
  <2>1. /\ down' \in Seq(Publishings) /\ upward' \in Seq(Answers) /\ oboundP' \in Seq(Answers)
        /\ incomingPubChan' \in Seq(Packets({"PUBLISH"})) /\ deaths' \in Nat
    BY <1>1, <1>2 DEF TypeInv
  <2>2. routed' \in BOOLEAN
    BY <1>1, Zenon
  <2> QED
    BY <1>1, <1>2, <1>4, <1>5, <2>1, <2>2 DEF TypeInv, Publishings, Answers, Packets
<1>7. deaths' > 0 /\ losses' + deaths' > 0
  BY <1>1, <1>2 DEF TypeInv
<1>8. SubscribedInv' /\ OnceInv'
  <2>1. SubscribedInv'
    BY <1>1, <1>2, <1>4, <1>7 DEF SubscribedInv, Started
  <2> QED
    BY <1>1, <1>2, <2>1, Empty DEF OnceInv
<1>9. ASSUME NEW n \in DOMAIN qos PROVE MessageInv(n)'
  <2>1. MessageInv(n)
    BY DEF DeliveryInv
  <2>2. ~In(n, down') /\ ~Later(n, down') /\ ~Later(n, upward') /\ ~Later(n, oboundP')
        /\ ~In(n, incomingPubChan')
    BY <1>1, Empty
  <2>3. (Stored(n)' <=> Stored(n)) /\ (clean => broker'[n] = "done")
        /\ (~clean => (broker'[n] = "send" <=> broker[n] = "send"))
    BY <1>1, <1>4 DEF Stored
  <2>4. logic'.n # n
    BY <1>1, <1>2, Messages DEF Nothing
  <2>5. GoneInv(n)'
    BY <1>1, <2>1, <2>2, <2>3, <2>4 DEF MessageInv, GoneInv, Gone
  <2>6. PlaceInv(n)'
    BY <1>1, <1>5, <2>1, <2>2, <2>3 DEF MessageInv, PlaceInv, Gone
  <2>7. LostInv(n)'
    BY <1>1, <1>5, <1>7, <2>1 DEF MessageInv, LostInv
  <2> QED
    BY <2>5, <2>6, <2>7 DEF MessageInv
<1> QED
  BY <1>1, <1>6, <1>8, <1>9 DEF DeliveryInv

LEMMA DeliveryStepInv == DeliveryInv /\ [DeliveryNext]_deliveryVars => DeliveryInv'
<1> SUFFICES ASSUME DeliveryInv, [DeliveryNext]_deliveryVars PROVE DeliveryInv'
  OBVIOUS
<1>1. CASE Publish
  BY <1>1, StepPublish
<1>2. CASE BrokerSends
  BY <1>2, StepBrokerSends
<1>3. CASE BrokerReceives
  BY <1>3, StepBrokerReceives
<1>4. CASE Arrive
  BY <1>4, StepArrive
<1>5. CASE Answer
  BY <1>5, StepAnswer
<1>6. CASE WriteAnswer
  BY <1>6, StepWriteAnswer
<1>7. CASE Handle
  BY <1>7, StepHandle
<1>8. CASE Subscribe
  BY <1>8, StepSubscribe
<1>9. CASE Lose
  BY <1>9, StepLose
<1>10. CASE Reconnect
  BY <1>10, StepReconnect
<1>11. CASE Die
  BY <1>11, StepDie
<1>12. CASE UNCHANGED deliveryVars
  <2>1. UNCHANGED <<clean, qos, broker, subscribed, link, down, upward, losses, deaths, logic, oboundP,
                    incomingPubChan, routed, db, lost>>
    BY <1>12 DEF deliveryVars
  <2>2. TypeInv /\ SubscribedInv /\ OnceInv
    BY DEF DeliveryInv
  <2>3. TypeInv' /\ SubscribedInv' /\ OnceInv'
    BY <2>1, <2>2 DEF TypeInv, SubscribedInv, OnceInv, Started, Publishings, Answers, Packets
  <2>4. ASSUME NEW m \in DOMAIN qos PROVE MessageInv(m)'
    BY <2>1 DEF DeliveryInv, MessageInv, GoneInv, PlaceInv, LostInv, Gone, Stored
  <2> QED
    BY <2>1, <2>3, <2>4 DEF DeliveryInv
<1> QED
  BY <1>1, <1>2, <1>3, <1>4, <1>5, <1>6, <1>7, <1>8, <1>9, <1>10, <1>11, <1>12 DEF DeliveryNext

\* In every state, of every message: its first copy is in one place, or lost, and if
\* anything follows it, it is gone.
THEOREM DeliveryInvariance == DeliverySpec => []DeliveryInv
<1>1. DeliveryInit => DeliveryInv
  BY DeliveryInitInv
<1>2. DeliveryInv /\ [DeliveryNext]_deliveryVars => DeliveryInv'
  BY DeliveryStepInv
<1> QED
  BY <1>1, <1>2, PTL DEF DeliverySpec

\* For any number of messages, connections and processes: a message is stored at most
\* once, what is not stored is on its way or was lost for one of the named reasons,
\* and of what the broker was told to forget nothing is lost but in the process.
THEOREM DeliveredOnce == DeliverySpec => []StoredOnce
<1>1. ASSUME DeliveryInv PROVE StoredOnce
  <2>1. TypeInv /\ OnceInv
    BY <1>1 DEF DeliveryInv
  <2>2. ASSUME NEW n \in DOMAIN qos
        PROVE  /\ Stored(n) => lost[n] = "no"
               /\ lost[n] = "no" => Stored(n) \/ OnItsWay(n)
               /\ deaths = 0 /\ ~clean => lost[n] \in {"no", "wire"}
               /\ lost[n] \in {"wire", "unsubscribed", "session"} => losses + deaths > 0
               /\ lost[n] \in {"unsubscribed", "session"} => clean
               /\ broker[n] \in {"release", "released", "done"} /\ qos[n] > 0 /\ lost[n] = "no"
                     => Stored(n) \/ n \in First(incomingPubChan)
    <3>1. GoneInv(n) /\ PlaceInv(n) /\ LostInv(n)
      BY <1>1, <2>2 DEF DeliveryInv, MessageInv
    <3>2. (n \in First(down) <=> In(n, down)) /\ (n \in First(incomingPubChan) <=> In(n, incomingPubChan))
      BY <2>1, <2>2, FirstIsIn DEF TypeInv, Publishings
    <3>3. lost[n] \in {"no", "unsubscribed", "wire", "process", "session", "unrouted"} /\ deaths \in Nat
      BY <2>1, <2>2, Messages DEF TypeInv
    <3>4. lost[n] = "no" => Stored(n) \/ OnItsWay(n)
      BY <3>1, <3>2 DEF PlaceInv, OnItsWay
    <3>5. broker[n] \in {"release", "released", "done"} /\ qos[n] > 0 /\ lost[n] = "no"
             => Stored(n) \/ n \in First(incomingPubChan)
      BY <3>1, <3>2 DEF GoneInv, PlaceInv, Gone
    <3>6. Stored(n) => lost[n] = "no"
      BY <3>1 DEF PlaceInv
    <3> QED
      BY <3>1, <3>3, <3>4, <3>5, <3>6 DEF LostInv
  <2> QED
    BY <2>1, <2>2 DEF StoredOnce, OnceInv
<1> QED
  BY <1>1, DeliveryInvariance, PTL
-----------------------------------------------------------------------------
(* How the client gets to a server (Setup).                                *)

SetupTypeInv ==
    /\ servers \in Seq(ServerKinds) /\ chosen \in {0, 3, 4} /\ version \in {0, 3, 4}
    /\ mode \in {"Connect", "reconnect"}
    /\ phase \in {"dial", "connack", "ended", "up", "failed", "panic"}
    /\ at \in Nat \ {0} /\ conn \in Nat /\ sleep \in Nat /\ changes \in Nat
    /\ token \in {"open", "done", "error"}

\* The servers before the one in hand did not take the client, and why the loop has
\* ended: it got through them, or one refused MQTT 3.1.
Passed(j) == IF protocolVersionExplicit THEN answer(servers[j], chosen) # Accepted
             ELSE servers[j] = "down"
GivenUp ==
    \/ at > Len(servers)
    \/ /\ ~protocolVersionExplicit /\ version = 3
       /\ servers[at] # "down" /\ answer(servers[at], 3) # Accepted

ConnectInv ==
    mode = "Connect" =>
        /\ changes = 0 /\ phase \in {"dial", "connack", "ended", "failed"} =>
              /\ at <= Len(servers) + 1
              /\ \A j \in 1..at-1 : Passed(j)
              /\ phase = "connack" => at <= Len(servers) /\ dialled = servers[at]
              /\ phase \in {"ended", "failed"} /\ conn = 0 => GivenUp
        /\ phase \in {"dial", "failed"} => conn = 0
        /\ phase \in {"dial", "connack"} => rc # Accepted \/ at = 1
        /\ phase \in {"ended", "up", "failed"} /\ conn = 0 /\ rc = Accepted => servers = <<>>
        /\ phase \in {"ended", "up"} /\ conn # 0 => rc = Accepted
        /\ phase \in {"dial", "connack", "ended", "panic"} => token = "open"
        /\ phase = "up" => conn # 0
        /\ token = "done" => conn # 0 \/ rc \in {Accepted, Unknown}

\* What a connection and a return code stand for.
AcceptedInv ==
    /\ phase = "connack" => dialled # "down" /\ version \in {3, 4} /\ conn # 0
    /\ phase \in {"ended", "up"} /\ rc = Accepted /\ (conn # 0 \/ mode = "reconnect")
          => answer(dialled, version) = Accepted
    /\ phase = "up" => rc = Accepted
    /\ mode = "reconnect" /\ phase \in {"dial", "connack"} => rc # Accepted
    /\ protocolVersionExplicit => version = chosen
    /\ phase = "panic" => dialled = "other"
    /\ phase = "failed" => mode = "Connect" /\ conn = 0
    /\ sleep <= 2 * MaxReconnectInterval

SetupInv == SetupTypeInv /\ ConnectInv /\ AcceptedInv

LEMMA DownRefuses == \A v : answer("down", v) # Accepted
BY DEF answer, Accepted, NetworkError

LEMMA ReturnCodes == \A kind, v : answer(kind, v) \in {0, 1, 5, 6, 254}
BY DEF answer, Accepted, NetworkError, BadProtocolVersion, NotAuthorised, Unknown

LEMMA SetupInitInv == SetupInit => SetupInv
<1> SUFFICES ASSUME SetupInit PROVE SetupInv
  OBVIOUS
<1>1. SetupTypeInv
  BY SetupAssumption DEF SetupInit, SetupTypeInv
<1>2. Len(servers) \in Nat
  BY <1>1 DEF SetupTypeInv
<1>3. ConnectInv
  BY <1>2 DEF SetupInit, ConnectInv
<1>4. AcceptedInv
  BY SetupAssumption DEF SetupInit, AcceptedInv, protocolVersionExplicit
<1> QED
  BY <1>1, <1>3, <1>4 DEF SetupInv

LEMMA StepDial ==
    ASSUME SetupInv, Dial PROVE SetupInv'
<1>1. phase = "dial" /\ UNCHANGED <<servers, chosen, mode, token, sleep, changes, drops>>
  BY DEF Dial
<1>2. SetupTypeInv /\ ConnectInv /\ AcceptedInv /\ Len(servers) \in Nat
  BY DEF SetupInv, SetupTypeInv
<1>3. CASE at > Len(servers) /\ phase' = "ended" /\ UNCHANGED <<version, at, dialled, conn, rc>>
  <2>1. SetupTypeInv'
    BY <1>1, <1>2, <1>3 DEF SetupTypeInv
  <2>2. mode = "Connect" /\ rc = Accepted => servers = <<>>
    BY <1>1, <1>2, <1>3 DEF ConnectInv, SetupTypeInv
  <2>3. ConnectInv'
    BY <1>1, <1>2, <1>3, <2>2 DEF ConnectInv, SetupTypeInv, GivenUp, Passed, protocolVersionExplicit
  <2>4. AcceptedInv'
    BY <1>1, <1>2, <1>3 DEF AcceptedInv, ConnectInv, SetupTypeInv, protocolVersionExplicit
  <2> QED
    BY <2>1, <2>3, <2>4 DEF SetupInv
<1>4. CASE /\ at <= Len(servers) /\ servers[at] = "down"
           /\ conn' = 0 /\ rc' = NetworkError /\ at' = at + 1
           /\ UNCHANGED <<version, phase, dialled>>
  <2>1. SetupTypeInv'
    BY <1>1, <1>2, <1>4 DEF SetupTypeInv
  <2>2. Passed(at)
    BY <1>4, DownRefuses DEF Passed
  <2>3. ConnectInv'
    BY <1>1, <1>2, <1>4, <2>2 DEF ConnectInv, SetupTypeInv, Passed, protocolVersionExplicit,
       NetworkError, Accepted
  <2>4. AcceptedInv'
    BY <1>1, <1>2, <1>4 DEF AcceptedInv, protocolVersionExplicit, NetworkError, Accepted
  <2> QED
    BY <2>1, <2>3, <2>4 DEF SetupInv
<1>5. CASE /\ at <= Len(servers) /\ servers[at] # "down"
           /\ conn' = at /\ dialled' = servers[at] /\ phase' = "connack"
           /\ version' = IF version = 3 THEN 3 ELSE 4
           /\ UNCHANGED <<at, rc>>
  <2>1. SetupTypeInv'
    BY <1>1, <1>2, <1>5 DEF SetupTypeInv
  <2>2. ConnectInv'
    BY <1>1, <1>2, <1>5 DEF ConnectInv, SetupTypeInv, Passed, protocolVersionExplicit
  <2>3. AcceptedInv'
    BY <1>1, <1>2, <1>5 DEF AcceptedInv, SetupTypeInv, protocolVersionExplicit
  <2> QED
    BY <2>1, <2>2, <2>3 DEF SetupInv
<1> QED
  BY <1>3, <1>4, <1>5 DEF Dial
LEMMA StepConnack ==
    ASSUME SetupInv, Connack PROVE SetupInv'
<1>1. /\ phase = "connack" /\ dialled # "other" /\ (dialled = "silent" => servers[at] # "silent")
      /\ rc' = answer(dialled, version) /\ conn' = IF rc' = Accepted THEN conn ELSE 0
      /\ UNCHANGED <<servers, chosen, mode, dialled, token, sleep, changes, drops>>
  BY DEF Connack, connect
<1>2. SetupTypeInv /\ ConnectInv /\ AcceptedInv /\ Len(servers) \in Nat
  BY DEF SetupInv, SetupTypeInv
<1>3. dialled # "down" /\ version \in {3, 4} /\ conn # 0
  BY <1>1, <1>2 DEF AcceptedInv
<1>4. mode = "Connect" /\ changes = 0 => at <= Len(servers) /\ dialled = servers[at]
  BY <1>1, <1>2 DEF ConnectInv
<1>5. CASE rc' # Accepted /\ protocolVersionExplicit /\ at' = at + 1 /\ phase' = "dial" /\ UNCHANGED version
  <2>1. SetupTypeInv'
    BY <1>1, <1>2, <1>5 DEF SetupTypeInv
  <2>2. mode = "Connect" /\ changes = 0 => Passed(at)
    BY <1>1, <1>2, <1>4, <1>5 DEF Passed, AcceptedInv
  <2>3. ConnectInv'
    BY <1>1, <1>2, <1>4, <1>5, <2>2 DEF ConnectInv, SetupTypeInv, Passed, protocolVersionExplicit
  <2>4. AcceptedInv'
    BY <1>1, <1>2, <1>5 DEF AcceptedInv, protocolVersionExplicit
  <2> QED
    BY <2>1, <2>3, <2>4 DEF SetupInv
<1>6. CASE rc' # Accepted /\ ~protocolVersionExplicit /\ version = 4 /\ version' = 3 /\ phase' = "dial"
           /\ UNCHANGED at
  <2>1. SetupTypeInv'
    BY <1>1, <1>2, <1>6 DEF SetupTypeInv
  <2>2. ConnectInv'
    BY <1>1, <1>2, <1>4, <1>6 DEF ConnectInv, SetupTypeInv, Passed, protocolVersionExplicit
  <2>3. AcceptedInv'
    BY <1>1, <1>2, <1>6 DEF AcceptedInv, protocolVersionExplicit
  <2> QED
    BY <2>1, <2>2, <2>3 DEF SetupInv
<1>7. CASE (rc' = Accepted \/ (~protocolVersionExplicit /\ version = 3)) /\ phase' = "ended"
           /\ UNCHANGED <<at, version>>
  <2>1. SetupTypeInv'
    BY <1>1, <1>2, <1>7 DEF SetupTypeInv
  <2>2. mode = "Connect" /\ changes = 0 /\ conn' = 0 => GivenUp'
    BY <1>1, <1>3, <1>4, <1>7 DEF GivenUp, protocolVersionExplicit
  <2>3. ConnectInv'
    BY <1>1, <1>2, <1>3, <1>4, <1>7, <2>2 DEF ConnectInv, SetupTypeInv, Passed, protocolVersionExplicit
  <2>4. AcceptedInv'
    BY <1>1, <1>2, <1>7 DEF AcceptedInv, protocolVersionExplicit
  <2> QED
    BY <2>1, <2>3, <2>4 DEF SetupInv
<1> QED
  BY <1>5, <1>6, <1>7 DEF Connack

LEMMA StepComplete ==
    ASSUME SetupInv, Complete PROVE SetupInv'
<1>1. /\ phase = "ended" /\ mode = "Connect" /\ phase' = IF conn = 0 THEN "failed" ELSE "up"
      /\ token' = IF conn = 0 /\ rc \notin {Accepted, Unknown} THEN "error" ELSE "done"
      /\ UNCHANGED <<servers, chosen, version, mode, at, dialled, conn, rc, sleep, changes, drops>>
  BY DEF Complete
<1>2. SetupTypeInv /\ ConnectInv /\ AcceptedInv
  BY DEF SetupInv
<1>3. SetupTypeInv'
  BY <1>1, <1>2 DEF SetupTypeInv
<1>4. ConnectInv'
  BY <1>1, <1>2 DEF ConnectInv, Passed, GivenUp, protocolVersionExplicit
<1>5. AcceptedInv'
  BY <1>1, <1>2 DEF ConnectInv, AcceptedInv, protocolVersionExplicit
<1> QED
  BY <1>3, <1>4, <1>5 DEF SetupInv

LEMMA StepReconnecting ==
    ASSUME SetupInv, Retry \/ Lost PROVE SetupInv'
<1>1. SetupTypeInv /\ ConnectInv /\ AcceptedInv
  BY DEF SetupInv
<1>2. CASE Retry
  <2>1. /\ phase = "ended" /\ mode = "reconnect"
        /\ \/ rc = Accepted /\ phase' = "up" /\ UNCHANGED <<at, sleep>>
           \/ rc # Accepted /\ phase' = "dial" /\ at' = 1 /\ sleep' = nextSleep
        /\ UNCHANGED <<servers, chosen, version, mode, dialled, conn, rc, token, changes, drops>>
    BY <1>2 DEF Retry
  <2>2. nextSleep \in Nat /\ nextSleep <= 2 * MaxReconnectInterval
    BY <1>1, SetupAssumption DEF nextSleep, SetupTypeInv, AcceptedInv
  <2>3. SetupTypeInv'
    BY <1>1, <2>1, <2>2 DEF SetupTypeInv
  <2>4. ConnectInv'
    BY <2>1 DEF ConnectInv
  <2>5. AcceptedInv'
    BY <1>1, <2>1, <2>2 DEF AcceptedInv, protocolVersionExplicit
  <2> QED
    BY <2>3, <2>4, <2>5 DEF SetupInv
<1>3. CASE Lost
  <2>1. /\ mode' = "reconnect" /\ phase' = "dial" /\ at' = 1 /\ rc' = 1 /\ sleep' = 1
        /\ UNCHANGED <<servers, chosen, version, dialled, conn, token, changes>>
    BY <1>3 DEF Lost
  <2>2. SetupTypeInv'
    BY <1>1, <2>1 DEF SetupTypeInv
  <2>3. ConnectInv'
    BY <2>1 DEF ConnectInv
  <2>4. AcceptedInv'
    BY <1>1, <2>1, SetupAssumption DEF AcceptedInv, protocolVersionExplicit, Accepted
  <2> QED
    BY <2>2, <2>3, <2>4 DEF SetupInv
<1> QED
  BY <1>2, <1>3

LEMMA StepAround ==
    ASSUME SetupInv, ConnackOther \/ Change \/ UNCHANGED setupVars PROVE SetupInv'
<1>1. SetupTypeInv /\ ConnectInv /\ AcceptedInv
  BY DEF SetupInv
<1>2. CASE ConnackOther
  <2>1. /\ phase = "connack" /\ dialled = "other" /\ phase' = "panic"
        /\ UNCHANGED <<servers, chosen, version, mode, at, dialled, conn, rc, token, sleep, changes>>
    BY <1>2 DEF ConnackOther
  <2>2. SetupTypeInv'
    BY <1>1, <2>1 DEF SetupTypeInv
  <2>3. ConnectInv'
    BY <1>1, <2>1 DEF ConnectInv
  <2>4. AcceptedInv'
    BY <1>1, <2>1 DEF AcceptedInv, protocolVersionExplicit
  <2> QED
    BY <2>2, <2>3, <2>4 DEF SetupInv
<1>3. CASE Change
  <2>1. PICK i \in DOMAIN servers, k \in ServerKinds : servers' = [servers EXCEPT ![i] = k]
    BY <1>3 DEF Change
  <2>2. /\ changes' = changes + 1
        /\ UNCHANGED <<chosen, version, mode, phase, at, dialled, conn, rc, token, sleep>>
    BY <1>3 DEF Change
  <2>3. SetupTypeInv' /\ servers # <<>> /\ changes' # 0
    BY <1>1, <2>1, <2>2 DEF SetupTypeInv
  <2>4. ConnectInv'
    BY <1>1, <2>2, <2>3 DEF ConnectInv
  <2>5. AcceptedInv'
    BY <1>1, <2>2 DEF AcceptedInv, protocolVersionExplicit
  <2> QED
    BY <2>3, <2>4, <2>5 DEF SetupInv
<1>4. CASE UNCHANGED setupVars
  BY <1>1, <1>4 DEF setupVars, SetupInv, SetupTypeInv, ConnectInv, AcceptedInv, Passed, GivenUp,
     protocolVersionExplicit
<1> QED
  BY <1>2, <1>3, <1>4

LEMMA SetupStepInv == SetupInv /\ [SetupNext]_setupVars => SetupInv'
<1> SUFFICES ASSUME SetupInv, [SetupNext]_setupVars PROVE SetupInv'
  OBVIOUS
<1>1. CASE Dial
  BY <1>1, StepDial
<1>2. CASE Connack
  BY <1>2, StepConnack
<1>3. CASE Complete
  BY <1>3, StepComplete
<1>4. CASE Retry \/ Lost
  BY <1>4, StepReconnecting
<1>5. CASE ConnackOther \/ Change \/ UNCHANGED setupVars
  BY <1>5, StepAround
<1> QED
  BY <1>1, <1>2, <1>3, <1>4, <1>5 DEF SetupNext, Client

\* In every state: where in the list Connect or reconnect is, in which version it asks,
\* and that no server it has passed could have taken the client.
THEOREM SetupInvariance == SetupSpec => []SetupInv
<1>1. SetupInit => SetupInv
  BY SetupInitInv
<1>2. SetupInv /\ [SetupNext]_setupVars => SetupInv'
  BY SetupStepInv
<1> QED
  BY <1>1, <1>2, PTL DEF SetupSpec

\* The loop was left without a connection: no server could be reached.
LEMMA OutOfReach ==
    ASSUME servers \in Seq(ServerKinds), at \in Nat \ {0}, GivenUp, \A j \in 1..at-1 : Passed(j),
           chosen # 0 => version = chosen
    PROVE  ~Reachable
<1> SUFFICES ASSUME NEW i \in DOMAIN servers, Takes(i),
                    \A j \in 1..i-1 : \/ servers[j] = "down"
                                      \/ protocolVersionExplicit /\ servers[j] \notin {"silent", "other"}
             PROVE  FALSE
  BY DEF Reachable
<1>1. i \in 1..Len(servers) /\ Len(servers) \in Nat
  OBVIOUS
<1>2. ~Passed(i)
  BY DownRefuses DEF Takes, Tries, Passed
<1>3. i >= at /\ at <= Len(servers)
  BY <1>1, <1>2
<1>4. ~protocolVersionExplicit /\ version = 3 /\ servers[at] # "down" /\ answer(servers[at], 3) # Accepted
  BY <1>1, <1>3 DEF GivenUp
<1>5. i = at
  BY <1>1, <1>3, <1>4
<1> QED
  BY <1>4, <1>5 DEF Takes, Tries

\* For any list of servers: Connect fails only when no server could have taken the
\* client in the order and the versions it tries, its token tells an error unless there
\* is a connection or nothing to tell, and reconnect's waits are bounded.
THEOREM SetupEnds == SetupSpec => []SetupOutcome
<1>1. ASSUME SetupInv PROVE SetupOutcome
  <2>1. SetupTypeInv /\ ConnectInv /\ AcceptedInv
    BY <1>1 DEF SetupInv
  <2>2. phase = "failed" => mode = "Connect" /\ conn = 0
    BY <2>1 DEF AcceptedInv
  <2>3. phase = "failed" /\ changes = 0 => ~Reachable
    <3>1. SUFFICES ASSUME phase = "failed", changes = 0 PROVE ~Reachable
      OBVIOUS
    <3>2. GivenUp /\ \A j \in 1..at-1 : Passed(j)
      BY <2>1, <2>2, <3>1 DEF ConnectInv
    <3>3. chosen # 0 => version = chosen
      BY <2>1 DEF AcceptedInv, protocolVersionExplicit
    <3> QED
      BY <2>1, <3>2, <3>3, OutOfReach DEF SetupTypeInv
  <2>4. token = "done" => mode = "reconnect" \/ conn # 0 \/ servers = <<>> \/ rc = Unknown
    BY <2>1 DEF SetupTypeInv, ConnectInv
  <2>5. phase = "up" => answer(dialled, version) = Accepted
    BY <2>1 DEF SetupTypeInv, ConnectInv, AcceptedInv
  <2> QED
    BY <2>1, <2>2, <2>3, <2>4, <2>5 DEF SetupOutcome, AcceptedInv
<1> QED
  BY <1>1, SetupInvariance, PTL

-----------------------------------------------------------------------------
(* What a websocket carries (WebSocket).                                   *)

Octets == 0..255
FrameType == [op : Data \cup Control, masked : BOOLEAN, payload : Seq(Octets)]
Stages == {"idle", "lock", "header", "payload", "flush", "close", "failed", "done", "ended"}
Pieces == Writers \X {"header", "payload"}

SocketTypeInv ==
    /\ frames \in Seq(FrameType) /\ next \in 1..Len(frames)+1
    /\ left \in Seq(Octets) /\ got \in Seq(Octets) /\ readEnd \in {"no", "eof", "error"}
    /\ stage \in [Writers -> Stages] /\ reply \in {"pong", "close"}
    /\ wio \in Writers \cup {"none"}
    /\ buf \in Seq(Pieces)
    /\ out \in Seq(Pieces)

\* The bytes of the first n frames.
Behind(n) == {c \in Bytes : c[1] <= n}
Count(n) == Cardinality(Behind(n))

\* What is left is the end of the payload of the last frame begun; it and the bytes
\* read are as many as there are up to there.
ReadInv ==
    /\ \A i \in 1..next-1 : ~Ending(frames[i])
    /\ left # <<>> =>
          /\ next > 1 /\ frames[next - 1].op \in Data
          /\ Len(left) <= Len(frames[next - 1].payload)
          /\ \A i \in DOMAIN left : left[i] = frames[next - 1].payload[Len(frames[next - 1].payload) - Len(left) + i]
    /\ Len(got) + Len(left) = Count(next - 1)
    /\ \A b \in Bytes : Place(b) <= Len(got) => got[Place(b)] = frames[b[1]].payload[b[2]]

\* When incoming answers it has no frame in hand, or the one that ends its reading.
EndInv ==
    /\ stage["incoming"] # "idle" =>
          /\ left = <<>> /\ readEnd = "no"
          /\ reply = "close" => next <= Len(frames) /\ Ending(frames[next])
    /\ readEnd = "eof" => left = <<>> /\ (next <= Len(frames) => Ending(frames[next]))

\* A frame is begun by its header, and ended before the lock is given away.
Begun(w) == w # "none" /\ stage[w] = "payload"
FrameInv ==
    /\ \A w \in Writers : stage[w] \in {"header", "payload", "flush"} <=> w = wio
    /\ \A i \in DOMAIN out : out[i][2] = "header" =>
          i < Len(out) /\ out[i + 1] = <<out[i][1], "payload">>
    /\ \A i \in DOMAIN buf : buf[i][2] = "header" =>
          IF i < Len(buf) THEN buf[i + 1] = <<buf[i][1], "payload">> ELSE Begun(wio)
    /\ Begun(wio) => buf # <<>> /\ buf[Len(buf)] = <<wio, "header">>

\* Close writes its header once.
CloseHeader == <<"closer", "header">>
CloseInv ==
    /\ stage["closer"] \in {"idle", "lock", "header"} =>
          /\ \A i \in DOMAIN out : out[i] # CloseHeader
          /\ \A i \in DOMAIN buf : buf[i] # CloseHeader
    /\ \A i, j \in DOMAIN out : out[i] = CloseHeader /\ out[j] = CloseHeader => i = j
    /\ \A i, j \in DOMAIN buf : buf[i] = CloseHeader /\ buf[j] = CloseHeader => i = j
    /\ \A i \in DOMAIN out, j \in DOMAIN buf : out[i] # CloseHeader \/ buf[j] # CloseHeader

SocketInv == SocketTypeInv /\ ReadInv /\ EndInv /\ FrameInv /\ CloseInv

Payload(n) == frames[n].payload

LEMMA PayloadsAre ==
    ASSUME SocketTypeInv, NEW n \in 1..Len(frames)
    PROVE  frames[n] \in FrameType /\ Payload(n) \in Seq(Octets) /\ Len(Payload(n)) \in Nat
<1>1. frames[n] \in FrameType
  BY DEF SocketTypeInv
<1>2. Payload(n) \in Seq(Octets)
  BY <1>1 DEF FrameType, Payload
<1> QED
  BY <1>1, <1>2

LEMMA BytesAre ==
    ASSUME SocketTypeInv, NEW b \in Bytes
    PROVE  /\ b[1] \in Carried /\ b[1] \in 1..Len(frames) /\ b[2] \in 1..Len(Payload(b[1]))
           /\ b = <<b[1], b[2]>>
<1>1. PICK n \in Carried : b \in {n} \X DOMAIN frames[n].payload
  BY DEF Bytes
<1>2. n \in 1..Len(frames)
  BY DEF Carried, SocketTypeInv
<1>3. DOMAIN frames[n].payload = 1..Len(Payload(n))
  BY <1>2, PayloadsAre DEF Payload
<1> QED
  BY <1>1, <1>2, <1>3

LEMMA BytesIn ==
    ASSUME SocketTypeInv, NEW n \in Carried, NEW i \in 1..Len(Payload(n))
    PROVE  <<n, i>> \in Bytes
<1>1. n \in 1..Len(frames)
  BY DEF Carried, SocketTypeInv
<1>2. DOMAIN frames[n].payload = 1..Len(Payload(n))
  BY <1>1, PayloadsAre DEF Payload
<1>3. <<n, i>> \in {n} \X DOMAIN frames[n].payload
  BY <1>2
<1> QED
  BY <1>3 DEF Bytes

\* A finite number of frames has a finite number of bytes.
LEMMA BytesFinite == SocketTypeInv => IsFiniteSet(Bytes)
<1> SUFFICES ASSUME SocketTypeInv PROVE IsFiniteSet(Bytes)
  OBVIOUS
<1> DEFINE S == {{n} \X DOMAIN frames[n].payload : n \in Carried}
           f == [n \in Carried |-> {n} \X DOMAIN frames[n].payload]
<1>1. IsFiniteSet(Carried)
  <2>1. IsFiniteSet(1..Len(frames))
    BY FS_Interval DEF SocketTypeInv
  <2>2. Carried \in SUBSET (1..Len(frames))
    BY DEF Carried, SocketTypeInv
  <2> QED
    BY <2>1, <2>2, FS_Subset
<1>2. f \in Surjection(Carried, S)
  BY DEF Surjection
<1>3. IsFiniteSet(S)
  BY <1>1, <1>2, FS_Surjection
<1>4. ASSUME NEW n \in Carried PROVE IsFiniteSet({n} \X DOMAIN frames[n].payload)
  <2>1. n \in 1..Len(frames)
    BY DEF Carried, SocketTypeInv
  <2>2. DOMAIN frames[n].payload = 1..Len(frames[n].payload) /\ Len(frames[n].payload) \in Nat
    BY <2>1, PayloadsAre DEF Payload
  <2>3. IsFiniteSet(DOMAIN frames[n].payload)
    BY <2>2, FS_Interval
  <2> QED
    BY <2>3, FS_Product, FS_Singleton
<1>5. \A T \in S : IsFiniteSet(T)
  BY <1>4
<1>6. IsFiniteSet(UNION S)
  BY <1>3, <1>5, FS_UNION
<1> QED
  BY <1>6 DEF Bytes

\* The bytes at the beginning of one frame are as many as they are.
LEMMA PieceCount ==
    ASSUME NEW n, NEW k \in Nat
    PROVE  IsFiniteSet({n} \X (1..k)) /\ Cardinality({n} \X (1..k)) = k
<1>1. IsFiniteSet({n}) /\ Cardinality({n}) = 1
  BY FS_Singleton
<1>2. IsFiniteSet(1..k) /\ Cardinality(1..k) = k
  BY FS_Interval
<1>3. IsFiniteSet({n} \X (1..k)) /\ Cardinality({n} \X (1..k)) = Cardinality({n}) * Cardinality(1..k)
  BY <1>1, <1>2, FS_Product, Zenon
<1>4. Cardinality({n}) * Cardinality(1..k) = k
  BY <1>1, <1>2
<1> QED
  BY <1>3, <1>4

LEMMA DisjointCount ==
    ASSUME NEW S, NEW T, IsFiniteSet(S), IsFiniteSet(T), S \cap T = {},
           Cardinality(S) \in Nat, Cardinality(T) \in Nat
    PROVE  Cardinality(S \cup T) = Cardinality(S) + Cardinality(T)
<1>1. Cardinality(S \cap T) = 0
  BY FS_EmptySet
<1>2. Cardinality(S \cup T) = Cardinality(S) + Cardinality(T) - Cardinality(S \cap T)
  BY FS_Union
<1> QED
  BY <1>1, <1>2

LEMMA CountType ==
    ASSUME SocketTypeInv, NEW n \in Int
    PROVE  IsFiniteSet(Behind(n)) /\ Count(n) \in Nat /\ Count(n) <= Cardinality(Bytes)
           /\ Cardinality(Bytes) \in Nat
<1>1. Behind(n) \in SUBSET Bytes
  BY DEF Behind
<1> QED
  BY <1>1, BytesFinite, FS_Subset, FS_CardinalityType DEF Count

LEMMA CountGrows ==
    ASSUME SocketTypeInv, NEW m \in Int, NEW n \in Int, m <= n
    PROVE  Count(m) <= Count(n)
<1>1. Behind(m) \in SUBSET Behind(n)
  BY BytesAre DEF Behind
<1> QED
  BY <1>1, CountType, FS_Subset DEF Count

\* The next k bytes of a frame come right behind those of the frames before it.
LEMMA CountOn ==
    ASSUME SocketTypeInv, NEW n \in Int, NEW k \in Nat, NEW S,
           S = Behind(n - 1) \cup ({n} \X (1..k))
    PROVE  Cardinality(S) = Count(n - 1) + k
<1> DEFINE T == {n} \X (1..k)
<1>1. Behind(n - 1) \cap T = {}
  BY BytesAre DEF Behind
<1>2. IsFiniteSet(Behind(n - 1)) /\ Cardinality(Behind(n - 1)) = Count(n - 1) /\ Count(n - 1) \in Nat
  BY CountType DEF Count
<1>3. IsFiniteSet(T) /\ Cardinality(T) = k
  BY PieceCount
<1> HIDE DEF T
<1>4. Cardinality(Behind(n - 1) \cup T) = Count(n - 1) + k
  BY <1>1, <1>2, <1>3, DisjointCount
<1> QED
  BY <1>4 DEF T

LEMMA CountCarried ==
    ASSUME SocketTypeInv, NEW n \in Carried
    PROVE  Count(n) = Count(n - 1) + Len(Payload(n))
<1>1. n \in 1..Len(frames) /\ Len(frames) \in Nat
  BY DEF Carried, SocketTypeInv
<1>2. Behind(n) \subseteq Behind(n - 1) \cup ({n} \X (1..Len(Payload(n))))
  BY <1>1, BytesAre DEF Behind
<1>3. Behind(n - 1) \cup ({n} \X (1..Len(Payload(n)))) \subseteq Behind(n)
  BY <1>1, BytesAre, BytesIn DEF Behind
<1> QED
  BY <1>1, <1>2, <1>3, PayloadsAre, CountOn DEF Count

LEMMA CountOthers ==
    ASSUME SocketTypeInv, NEW n \in Int, n \notin Carried
    PROVE  Count(n) = Count(n - 1)
<1>1. Behind(n) = Behind(n - 1)
  BY BytesAre DEF Behind
<1> QED
  BY <1>1 DEF Count

LEMMA PlaceIs ==
    ASSUME SocketTypeInv, NEW b \in Bytes
    PROVE  Place(b) = Count(b[1] - 1) + b[2]
<1>1. b[1] \in Carried /\ b[1] \in 1..Len(frames) /\ b[2] \in 1..Len(Payload(b[1]))
  BY BytesAre
<1>2. Len(Payload(b[1])) \in Nat /\ b[1] \in Int /\ b[2] \in Nat
  BY <1>1, PayloadsAre DEF SocketTypeInv
<1>3. UpTo(b) \subseteq Behind(b[1] - 1) \cup ({b[1]} \X (1..b[2]))
  BY <1>1, <1>2, BytesAre DEF Behind, UpTo
<1>4. Behind(b[1] - 1) \subseteq UpTo(b)
  BY <1>1, <1>2, BytesAre DEF Behind, UpTo
<1>5. {b[1]} \X (1..b[2]) \subseteq UpTo(b)
  <2> SUFFICES ASSUME NEW i \in 1..b[2] PROVE <<b[1], i>> \in UpTo(b)
    OBVIOUS
  <2>1. i \in 1..Len(Payload(b[1]))
    BY <1>1, <1>2
  <2>2. <<b[1], i>> \in Bytes
    BY <1>1, <2>1, BytesIn
  <2> QED
    BY <1>2, <2>2 DEF UpTo
<1> QED
  BY <1>2, <1>3, <1>4, <1>5, CountOn DEF Place

\* What is known of a byte's place.
LEMMA PlaceFacts ==
    ASSUME SocketTypeInv, NEW b \in Bytes
    PROVE  /\ b[1] \in Int /\ b[1] >= 1 /\ b[1] <= Len(frames) /\ b[2] \in Int /\ b[2] >= 1
           /\ Count(b[1] - 1) \in Nat /\ Count(b[1]) \in Nat
           /\ Place(b) = Count(b[1] - 1) + b[2] /\ Place(b) <= Count(b[1])
           /\ Place(b) \in Nat /\ Place(b) >= 1
<1>1. b[1] \in Carried /\ b[1] \in 1..Len(frames) /\ b[2] \in 1..Len(Payload(b[1]))
  BY BytesAre
<1>2. Len(frames) \in Nat /\ Len(Payload(b[1])) \in Nat
  BY <1>1, PayloadsAre DEF SocketTypeInv
<1>3. b[1] \in Int /\ b[1] - 1 \in Int /\ b[1] >= 1 /\ b[1] <= Len(frames)
  BY <1>1, <1>2
<1>4. b[2] \in Int /\ b[2] >= 1 /\ b[2] <= Len(Payload(b[1]))
  BY <1>1, <1>2
<1>5. Count(b[1] - 1) \in Nat /\ Count(b[1]) \in Nat
  BY <1>3, CountType
<1>6. Place(b) = Count(b[1] - 1) + b[2]
  BY PlaceIs
<1>7. Count(b[1]) = Count(b[1] - 1) + Len(Payload(b[1]))
  BY <1>1, CountCarried
<1>8. Place(b) <= Count(b[1]) /\ Place(b) \in Nat /\ Place(b) >= 1
  BY <1>2, <1>4, <1>5, <1>6, <1>7
<1> QED
  BY <1>3, <1>4, <1>5, <1>6, <1>8

\* The first n of a sequence, and the others.
LEMMA Dividing ==
    ASSUME NEW S, NEW s \in Seq(S), NEW n \in 1..Len(s)
    PROVE  /\ SubSeq(s, 1, n) \in Seq(S) /\ Len(SubSeq(s, 1, n)) = n
           /\ \A i \in 1..n : SubSeq(s, 1, n)[i] = s[i]
           /\ SubSeq(s, n + 1, Len(s)) \in Seq(S) /\ Len(SubSeq(s, n + 1, Len(s))) = Len(s) - n
           /\ \A i \in 1..Len(s)-n : SubSeq(s, n + 1, Len(s))[i] = s[n + i]
<1>1. Len(s) \in Nat /\ n \in Int /\ n >= 1 /\ n <= Len(s)
  BY LenProperties
<1>2. \A i \in 1..n : s[i] \in S
  BY <1>1, ElementOfSeq
<1>3. \A i \in n+1..Len(s) : s[i] \in S
  BY <1>1, ElementOfSeq
<1>4. /\ SubSeq(s, 1, n) \in Seq(S) /\ Len(SubSeq(s, 1, n)) = IF 1 <= n THEN n - 1 + 1 ELSE 0
      /\ \A i \in 1..n-1+1 : SubSeq(s, 1, n)[i] = s[1 + i - 1]
  BY <1>1, <1>2, SubSeqProperties
<1>5. /\ SubSeq(s, n + 1, Len(s)) \in Seq(S)
      /\ Len(SubSeq(s, n + 1, Len(s))) = IF n + 1 <= Len(s) THEN Len(s) - (n + 1) + 1 ELSE 0
      /\ \A i \in 1..Len(s)-(n+1)+1 : SubSeq(s, n + 1, Len(s))[i] = s[n + 1 + i - 1]
  BY <1>1, <1>3, SubSeqProperties
<1>6. n - 1 + 1 = n /\ \A i \in 1..n : 1 + i - 1 = i
  BY <1>1
<1>7. Len(s) - (n + 1) + 1 = Len(s) - n /\ \A i \in 1..Len(s)-n : n + 1 + i - 1 = n + i
  BY <1>1
<1>8. (IF n + 1 <= Len(s) THEN Len(s) - (n + 1) + 1 ELSE 0) = Len(s) - n
  BY <1>1
<1>9. (IF 1 <= n THEN n - 1 + 1 ELSE 0) = n
  BY <1>1
<1> QED
  BY <1>4, <1>5, <1>6, <1>7, <1>8, <1>9

LEMMA Joining ==
    ASSUME NEW S, NEW s \in Seq(S), NEW t \in Seq(S)
    PROVE  /\ Len(s \o t) = Len(s) + Len(t)
           /\ \A i \in 1..Len(s) + Len(t) :
                 (s \o t)[i] = IF i <= Len(s) THEN s[i] ELSE t[i - Len(s)]
BY ConcatProperties

LEMMA BytesStay ==
    ASSUME UNCHANGED frames
    PROVE  /\ Bytes' = Bytes /\ \A b : Place(b)' = Place(b)
           /\ \A n : Count(n)' = Count(n)
<1>1. Bytes' = Bytes
  BY DEF Bytes, Carried, Ending
<1> QED
  BY <1>1 DEF Place, UpTo, Count, Behind

LEMMA SocketInitInv == SocketAssumption /\ SocketInit => SocketInv
<1> SUFFICES ASSUME SocketAssumption, SocketInit PROVE SocketInv
  OBVIOUS
<1> USE DEF SocketInit
<1>1. SocketTypeInv
  <2>1. frames \in Seq(FrameType)
    BY DEF SocketAssumption, FrameType, Octets
  <2> QED
    BY <2>1 DEF SocketTypeInv, Stages, Writers
<1>2. ReadInv
  <2>1. Behind(0) = {}
    BY <1>1, BytesAre DEF Behind
  <2>2. Count(0) = 0
    BY <2>1, FS_EmptySet DEF Count
  <2>4. \A b \in Bytes : Place(b) <= Len(got) => got[Place(b)] = frames[b[1]].payload[b[2]]
    BY <1>1, PlaceFacts
  <2>5. Len(got) + Len(left) = Count(next - 1)
    BY <2>2
  <2> QED
    BY <2>4, <2>5 DEF ReadInv
<1>3. EndInv
  BY DEF EndInv, Writers
<1>4. FrameInv
  BY DEF FrameInv, Begun, Writers
<1>5. CloseInv
  BY DEF CloseInv
<1> QED
  BY <1>1, <1>2, <1>3, <1>4, <1>5 DEF SocketInv

\* The types, action by action.
LEMMA SocketTypeStep == SocketTypeInv /\ [SocketNext]_socketVars => SocketTypeInv'
<1> SUFFICES ASSUME SocketTypeInv, [SocketNext]_socketVars PROVE SocketTypeInv'
  OBVIOUS
<1> USE DEF SocketTypeInv, Stages, reading, writing
<1>1. CASE Handshake \/ Peer \/ UNCHANGED socketVars
  BY <1>1 DEF Handshake, Peer, socketVars
<1>2. CASE ReadPayload
  <2>1. PICK n \in 1..Len(left) : /\ got' = got \o SubSeq(left, 1, n)
                                  /\ left' = SubSeq(left, n + 1, Len(left))
    BY <1>2 DEF ReadPayload
  <2>2. left \in Seq(Octets) /\ got \in Seq(Octets)
    OBVIOUS
  <2>3. SubSeq(left, 1, n) \in Seq(Octets) /\ SubSeq(left, n + 1, Len(left)) \in Seq(Octets)
    BY <2>2, Dividing
  <2>4. got' \in Seq(Octets) /\ left' \in Seq(Octets)
    BY <2>1, <2>2, <2>3, ConcatProperties
  <2> QED
    BY <1>2, <2>4 DEF ReadPayload
<1>3. CASE ReadFrame
  <2>1. frames[next] \in FrameType /\ next + 1 \in 1..Len(frames)+1
    BY <1>3 DEF ReadFrame
  <2> DEFINE f == frames[next]
  <2>2. HandleFrame(f) /\ UNCHANGED <<ws, frames, wio, buf, out, writes, peer>>
    BY <1>3 DEF ReadFrame
  <2>3. /\ next' \in {next, next + 1} /\ left' \in {left, f.payload} /\ got' = got
        /\ readEnd' \in {readEnd, "eof", "error"} /\ reply' \in {"pong", "close"}
        /\ stage' \in {stage, [stage EXCEPT !["incoming"] = "lock"]}
    BY <2>1, <2>2 DEF HandleFrame, HandlePing, EndRead, FrameType, Data, Control
  <2>4. f.payload \in Seq(Octets)
    BY <2>1 DEF FrameType
  <2>5. stage' \in [Writers -> Stages]
    BY <2>3
  <2>6. next' \in 1..Len(frames)+1
    BY <2>1, <2>3
  <2>7. left' \in Seq(Octets) /\ got' \in Seq(Octets) /\ readEnd' \in {"no", "eof", "error"}
    BY <2>3, <2>4
  <2> HIDE DEF f
  <2> QED
    BY <2>2, <2>3, <2>5, <2>6, <2>7
<1>4. CASE ReadEnds
  BY <1>4 DEF ReadEnds, EndRead
<1>5. CASE Write \/ Close \/ CloseSocket
  BY <1>5 DEF Write, Close, CloseSocket, Writers
<1>6. ASSUME NEW w \in Writers, Lock(w) PROVE SocketTypeInv'
  BY <1>6 DEF Lock
<1>7. ASSUME NEW w \in Writers, PutPiece(w) PROVE SocketTypeInv'
  <2>1. <<w, stage[w]>> \in Pieces
    BY <1>7 DEF PutPiece, Pieces
  <2>2. buf' \in Seq(Pieces)
    BY <1>7, <2>1 DEF PutPiece
  <2> QED
    BY <1>7, <2>2 DEF PutPiece
<1>8. ASSUME NEW w \in Writers, Flush(w) PROVE SocketTypeInv'
  <2>1. stage' \in [Writers -> Stages] /\ readEnd' \in {"no", "eof", "error"}
    BY <1>8 DEF Flush, After, Writers
  <2>2. /\ buf' \in Seq(Pieces)
        /\ out' \in Seq(Pieces)
    <3>1. out \o buf \in Seq(Pieces)
      BY ConcatProperties
    <3>2. out' \in {out, out \o buf} /\ buf' \in {buf, <<>>}
      BY <1>8 DEF Flush
    <3>3. <<>> \in Seq(Pieces)
      BY EmptySeq
    <3> QED
      BY <3>1, <3>2, <3>3, Zenon
  <2> QED
    BY <1>8, <2>1, <2>2 DEF Flush
<1> QED
  BY <1>1, <1>2, <1>3, <1>4, <1>5, <1>6, <1>7, <1>8 DEF SocketNext, Reader, Writer

-----------------------------------------------------------------------------
\* Reading, for every step that does not take a byte or a frame.
LEMMA ReadStays ==
    ASSUME ReadInv, UNCHANGED <<frames, next, left, got>>
    PROVE  ReadInv'
BY BytesStay DEF ReadInv, Ending

LEMMA StepPayload == SocketInv /\ ReadPayload => ReadInv'
<1> SUFFICES ASSUME SocketInv, ReadPayload PROVE ReadInv'
  OBVIOUS
<1> DEFINE N == next - 1
           L == Len(Payload(N))
<1>1. SocketTypeInv /\ ReadInv /\ UNCHANGED <<frames, next>> /\ left # <<>>
  BY DEF SocketInv, ReadPayload
<1>2. PICK n \in 1..Len(left) : /\ got' = got \o SubSeq(left, 1, n)
                                /\ left' = SubSeq(left, n + 1, Len(left))
  BY DEF ReadPayload
<1>3. N \in Carried /\ N \in 1..Len(frames) /\ L \in Nat /\ Len(left) <= L
  <2>1. N \in 1..Len(frames) /\ N \in Int
    BY <1>1 DEF SocketTypeInv, ReadInv
  <2> QED
    BY <1>1, <2>1, PayloadsAre DEF SocketTypeInv, ReadInv, Carried, Payload
<1> DEFINE piece == SubSeq(left, 1, n)
           rest == SubSeq(left, n + 1, Len(left))
<1>4. left \in Seq(Octets) /\ got \in Seq(Octets)
  BY <1>1 DEF SocketTypeInv
<1>5. /\ Len(left) \in Nat /\ Len(got) \in Nat /\ DOMAIN left = 1..Len(left)
      /\ n \in Nat /\ n >= 1 /\ n <= Len(left)
  BY <1>4, LenProperties
<1>6. /\ piece \in Seq(Octets) /\ Len(piece) = n /\ \A j \in 1..n : piece[j] = left[j]
      /\ rest \in Seq(Octets) /\ Len(rest) = Len(left) - n
      /\ \A j \in 1..Len(left)-n : rest[j] = left[n + j]
  BY <1>4, Dividing
<1>7. left' = rest /\ got' = got \o piece
  BY <1>2
<1> HIDE DEF piece, rest
<1>8. /\ Len(left') = Len(left) - n /\ DOMAIN left' = 1..Len(left) - n
      /\ \A j \in 1..Len(left) - n : left'[j] = left[n + j]
  BY <1>6, <1>7, LenProperties
<1>9. /\ Len(got') = Len(got) + n
      /\ \A k \in 1..Len(got) : got'[k] = got[k]
      /\ \A j \in 1..n : got'[Len(got) + j] = left[j]
  <2>1. /\ Len(got') = Len(got) + Len(piece)
        /\ \A i \in 1..Len(got) + Len(piece) :
              got'[i] = IF i <= Len(got) THEN got[i] ELSE piece[i - Len(got)]
    <3>1. /\ Len(got \o piece) = Len(got) + Len(piece)
          /\ \A i \in 1..Len(got) + Len(piece) :
                (got \o piece)[i] = IF i <= Len(got) THEN got[i] ELSE piece[i - Len(got)]
      BY <1>4, <1>6, Joining
    <3> QED
      BY <1>7, <3>1
  <2>2. \A j \in 1..n : /\ Len(got) + j \in 1..Len(got) + n /\ ~(Len(got) + j <= Len(got))
                        /\ Len(got) + j - Len(got) = j
    BY <1>5
  <2>3. \A k \in 1..Len(got) : k \in 1..Len(got) + n /\ k <= Len(got)
    BY <1>5
  <2>4. ASSUME NEW k \in 1..Len(got) PROVE got'[k] = got[k]
    BY <1>6, <2>1, <2>3
  <2>5. ASSUME NEW j \in 1..n PROVE got'[Len(got) + j] = left[j]
    <3>1. got'[Len(got) + j] = piece[Len(got) + j - Len(got)]
      BY <1>6, <2>1, <2>2
    <3> QED
      BY <1>6, <2>2, <3>1
  <2> QED
    BY <1>6, <2>1, <2>4, <2>5
<1>10. Count(N) = Count(N - 1) + L /\ Count(N) \in Nat /\ Count(N - 1) \in Nat
  BY <1>1, <1>3, CountCarried, CountType
<1>11. \A i \in DOMAIN left : left[i] = Payload(N)[L - Len(left) + i]
  BY <1>1 DEF ReadInv, Payload
<1>12. Len(got) + Len(left) = Count(N)
  BY <1>1 DEF ReadInv
<1>13. /\ Len(got) = Count(N - 1) + L - Len(left)
      /\ Len(got) >= Count(N - 1) /\ Len(got) + n <= Count(N)
  BY <1>3, <1>5, <1>10, <1>12
<1> HIDE DEF N, L
<1>14. ASSUME NEW b \in Bytes, Place(b) <= Len(got') PROVE got'[Place(b)] = frames[b[1]].payload[b[2]]
  <2>1. N \in Int /\ N - 1 \in Int
    BY <1>3 DEF SocketTypeInv
  <2>2. /\ b[1] \in Int /\ b[2] \in Int /\ b[2] >= 1 /\ b[1] - 1 \in Int
        /\ Count(b[1] - 1) \in Nat /\ Count(b[1]) \in Nat
        /\ Place(b) = Count(b[1] - 1) + b[2] /\ Place(b) <= Count(b[1])
        /\ Place(b) \in Nat /\ Place(b) >= 1
    BY <1>1, PlaceFacts
  <2>3. CASE Place(b) <= Len(got)
    <3>1. Place(b) \in 1..Len(got)
      BY <1>5, <1>8, <2>2, <2>3
    <3> QED
      BY <1>1, <1>9, <2>3, <3>1 DEF ReadInv
  <2>4. CASE Place(b) > Len(got)
    <3>1. b[1] <= N
      <4>1. SUFFICES ASSUME b[1] > N PROVE FALSE
        BY <2>1, <2>2
      <4>2. N <= b[1] - 1
        BY <2>1, <2>2, <4>1
      <4>3. Count(N) <= Count(b[1] - 1)
        BY <1>1, <2>1, <2>2, <4>2, CountGrows
      <4>4. Place(b) > Count(N)
        BY <1>10, <2>2, <4>3
      <4> QED
        BY <1>5, <1>9, <1>10, <1>13, <1>14, <2>2, <4>4
    <3>2. b[1] >= N
      <4>1. SUFFICES ASSUME b[1] < N PROVE FALSE
        BY <2>1, <2>2
      <4>2. b[1] <= N - 1
        BY <2>1, <2>2, <4>1
      <4>3. Count(b[1]) <= Count(N - 1)
        BY <1>1, <2>1, <2>2, <4>2, CountGrows
      <4>4. Place(b) <= Count(N - 1)
        BY <1>10, <2>2, <4>3
      <4> QED
        BY <1>5, <1>10, <1>13, <2>2, <2>4, <4>4
    <3>3. b[1] = N
      BY <2>1, <2>2, <3>1, <3>2
    <3>4. PICK j \in 1..n : Place(b) = Len(got) + j
      <4>1. Place(b) <= Len(got) + n
        BY <1>9, <1>14
      <4>2. Place(b) \in Int /\ Len(got) \in Int /\ n \in Int
        BY <1>5, <2>2
      <4>3. Place(b) - Len(got) \in 1..n /\ Place(b) = Len(got) + (Place(b) - Len(got))
        BY <2>4, <4>1, <4>2
      <4> QED
        BY <4>3
    <3>5. b[2] = L - Len(left) + j
      <4>1. Place(b) = Count(N - 1) + b[2] /\ j \in Int
        BY <1>5, <1>8, <2>2, <3>3
      <4>2. Len(got) = Count(N - 1) + L - Len(left)
        BY <1>13
      <4>3. Len(got) + j = Count(N - 1) + b[2]
        BY <3>4, <4>1
      <4>4. /\ Len(got) \in Int /\ Count(N - 1) \in Int /\ L \in Int /\ Len(left) \in Int
            /\ b[2] \in Int /\ j \in Int
        BY <1>3, <1>5, <1>8, <1>10, <2>2, <4>1
      <4> QED
        BY <4>2, <4>3, <4>4
    <3>6. got'[Place(b)] = left[j] /\ j \in DOMAIN left
      BY <1>5, <1>8, <1>9, <3>4
    <3> QED
      BY <1>11, <3>3, <3>5, <3>6 DEF Payload
  <2> QED
    BY <1>5, <1>8, <2>2, <2>3, <2>4
<1>15. left' # <<>> =>
          /\ next > 1 /\ frames[N].op \in Data /\ Len(left') <= L
          /\ \A i \in DOMAIN left' : left'[i] = Payload(N)[L - Len(left') + i]
  <2>1. next > 1 /\ frames[N].op \in Data
    BY <1>1 DEF ReadInv, N
  <2>2. ASSUME NEW i \in DOMAIN left' PROVE left'[i] = Payload(N)[L - Len(left') + i]
    <3>0. i \in 1..Len(left) - n /\ i \in Int
      BY <1>5, <1>8
    <3>1. n + i \in DOMAIN left /\ left'[i] = left[n + i] /\ i \in Int
      <4>1. n + i \in 1..Len(left)
        BY <1>5, <3>0
      <4> QED
        BY <1>5, <1>8, <3>0, <4>1
    <3>2. L - Len(left) + (n + i) = L - Len(left') + i
      BY <1>3, <1>5, <1>8, <3>1
    <3> QED
      BY <1>11, <3>1, <3>2
  <2> QED
    BY <1>3, <1>5, <1>8, <2>1, <2>2
<1>16. Len(got') + Len(left') = Count(N)
  BY <1>5, <1>8, <1>9, <1>10, <1>12
<1>17. \A i \in 1..next-1 : ~Ending(frames[i])
  BY <1>1 DEF ReadInv
<1> QED
  BY <1>1, <1>14, <1>15, <1>16, <1>17, BytesStay DEF ReadInv, Ending, Payload, N, L

LEMMA StepFrame == SocketInv /\ ReadFrame => ReadInv'
<1> SUFFICES ASSUME SocketInv, ReadFrame PROVE ReadInv'
  OBVIOUS
<1> DEFINE f == frames[next]
<1>0. f \in FrameType /\ HandleFrame(f)
  BY DEF SocketInv, SocketTypeInv, ReadFrame
<1>1. /\ SocketTypeInv /\ ReadInv /\ UNCHANGED <<frames, got>> /\ left = <<>> /\ HandleFrame(f)
      /\ next \in 1..Len(frames) /\ next \in Int /\ next - 1 + 1 = next /\ Len(frames) \in Nat
  <2>1. UNCHANGED got
    BY <1>0 DEF HandleFrame, HandlePing, EndRead, FrameType, Data, Control
  <2> QED
    BY <1>0, <2>1 DEF SocketInv, SocketTypeInv, ReadFrame
<1>2. f \in FrameType
  BY <1>0
<1>3. CASE UNCHANGED <<next, left>>
  BY <1>1, <1>3, ReadStays
<1>4. CASE ~f.masked /\ f.op \in Data
  <2>1. left' = f.payload /\ next' = next + 1 /\ ~Ending(f)
    BY <1>1, <1>4 DEF HandleFrame, Data, Ending
  <2>2. \A i \in 1..next : ~Ending(frames[i])
    BY <1>1, <2>1 DEF ReadInv
  <2>3. next \in Carried
    BY <1>1, <1>4, <2>2 DEF Carried
  <2>4. Count(next) = Count(next - 1) + Len(f.payload)
    BY <1>1, <2>3, CountCarried DEF Payload
  <2>5. Len(got) + Len(left) = Count(next - 1) /\ Len(left) = 0 /\ Len(got) \in Nat /\ Len(f.payload) \in Nat
    BY <1>1, <1>2 DEF ReadInv, SocketTypeInv, FrameType
  <2>6. Len(got) + Len(f.payload) = Count(next)
    BY <2>4, <2>5
  <2>7. next' - 1 = next /\ next' > 1
    BY <1>1, <2>1
  <2>8. \A i \in DOMAIN f.payload : f.payload[i] = f.payload[Len(f.payload) - Len(f.payload) + i]
    BY <1>2 DEF FrameType
  <2> QED
    BY <1>1, <1>4, <2>1, <2>2, <2>5, <2>6, <2>7, <2>8, BytesStay DEF ReadInv, Ending
<1>5. CASE ~f.masked /\ f.op = "ping" /\ f.payload # <<>>
  <2>1. UNCHANGED left /\ next' = next + 1 /\ ~Ending(f)
    BY <1>1, <1>5 DEF HandleFrame, HandlePing, Data, Ending
  <2>2. \A i \in 1..next : ~Ending(frames[i])
    BY <1>1, <2>1 DEF ReadInv
  <2>3. next \notin Carried
    BY <1>5 DEF Carried, Data
  <2>4. Count(next) = Count(next - 1)
    BY <1>1, <2>3, CountOthers
  <2>5. next' - 1 = next
    BY <1>1, <2>1
  <2> QED
    BY <1>1, <2>1, <2>2, <2>4, <2>5, BytesStay DEF ReadInv, Ending
<1>6. CASE ~(~f.masked /\ f.op \in Data) /\ ~(~f.masked /\ f.op = "ping" /\ f.payload # <<>>)
  <2>1. UNCHANGED <<next, left>>
    BY <1>1, <1>2, <1>6 DEF HandleFrame, HandlePing, EndRead, FrameType, Data, Control
  <2> QED
    BY <2>1, <1>3
<1> QED
  BY <1>4, <1>5, <1>6

LEMMA StepReading == SocketInv /\ [SocketNext]_socketVars => ReadInv'
<1> SUFFICES ASSUME SocketInv, [SocketNext]_socketVars PROVE ReadInv'
  OBVIOUS
<1>1. CASE ReadPayload
  BY <1>1, StepPayload
<1>2. CASE ReadFrame
  BY <1>2, StepFrame
<1>3. CASE UNCHANGED <<frames, next, left, got>>
  BY <1>3, ReadStays DEF SocketInv
<1>4. ASSUME NEW w \in Writers, Writer(w) PROVE UNCHANGED <<frames, next, left, got>>
  BY <1>4 DEF Writer, Lock, PutPiece, Flush, reading
<1>5. CASE Handshake \/ ReadEnds \/ Write \/ Close \/ CloseSocket \/ Peer \/ UNCHANGED socketVars
  BY <1>5, <1>3 DEF Handshake, ReadEnds, EndRead, Write, Close, CloseSocket, Peer, reading, writing,
                    socketVars
<1> QED
  BY <1>1, <1>2, <1>3, <1>4, <1>5 DEF SocketNext, Reader

-----------------------------------------------------------------------------
LEMMA EndStays ==
    ASSUME EndInv, UNCHANGED <<frames, next, left, readEnd, reply>>,
           stage'["incoming"] = stage["incoming"]
    PROVE  EndInv'
BY DEF EndInv, Ending

LEMMA StepEnd == SocketInv /\ [SocketNext]_socketVars => EndInv'
<1> SUFFICES ASSUME SocketInv, [SocketNext]_socketVars PROVE EndInv'
  OBVIOUS
<1>1. SocketTypeInv /\ EndInv /\ "incoming" \in Writers /\ stage \in [Writers -> Stages]
  BY DEF SocketInv, SocketTypeInv, Writers
<1>2. CASE ReadPayload
  BY <1>1, <1>2 DEF ReadPayload, Reads, EndInv, writing
<1>3. CASE ReadFrame
  <2> DEFINE f == frames[next]
  <2>1. /\ f \in FrameType /\ HandleFrame(f) /\ UNCHANGED frames /\ left = <<>> /\ readEnd = "no"
        /\ stage["incoming"] = "idle" /\ next \in 1..Len(frames) /\ Len(frames) \in Nat
    BY <1>1, <1>3 DEF ReadFrame, SocketTypeInv, Reads
  <2>2. CASE f.masked
    <3>1. Ending(f) /\ UNCHANGED <<next, left, readEnd>>
      BY <2>1, <2>2 DEF HandleFrame, Ending, Data, FrameType
    <3> QED
      BY <2>1, <3>1 DEF EndInv, Ending
  <2>3. CASE ~f.masked /\ f.op \in Data
    <3>1. UNCHANGED <<readEnd, stage>>
      BY <2>1, <2>3 DEF HandleFrame, Data
    <3> QED
      BY <2>1, <3>1 DEF EndInv
  <2>4. CASE ~f.masked /\ f.op \in {"close", "pong"}
    <3>1. Ending(f) /\ UNCHANGED <<next, left, stage>>
      BY <2>1, <2>4 DEF HandleFrame, EndRead, Ending, Data
    <3> QED
      BY <2>1, <3>1 DEF EndInv, Ending
  <2>5. CASE ~f.masked /\ f.op = "ping" /\ f.payload = <<>>
    <3>1. Ending(f) /\ UNCHANGED <<next, left, stage>>
      BY <2>1, <2>5 DEF HandleFrame, HandlePing, EndRead, Ending, Data
    <3> QED
      BY <2>1, <3>1 DEF EndInv, Ending
  <2>6. CASE ~f.masked /\ f.op = "ping" /\ f.payload # <<>>
    <3>1. reply' = "pong" /\ UNCHANGED <<left, readEnd>>
      BY <2>1, <2>6 DEF HandleFrame, HandlePing, Data
    <3> QED
      BY <2>1, <3>1 DEF EndInv
  <2> QED
    BY <2>1, <2>2, <2>3, <2>4, <2>5, <2>6 DEF FrameType, Data, Control
<1>4. CASE ReadEnds
  BY <1>1, <1>4 DEF ReadEnds, EndRead, Reads, EndInv, SocketTypeInv
<1>5. ASSUME NEW w \in Writers, Lock(w) \/ PutPiece(w) PROVE EndInv'
  <2>1. UNCHANGED <<frames, next, left, readEnd, reply>> /\ stage[w] # "idle"
    BY <1>5 DEF Lock, PutPiece, reading
  <2>2. stage'["incoming"] = stage["incoming"] \/ (w = "incoming" /\ stage'[w] # "idle")
    BY <1>1, <1>5 DEF Lock, PutPiece
  <2> QED
    BY <1>1, <2>1, <2>2 DEF EndInv, Ending
<1>6. ASSUME NEW w \in Writers, Flush(w) PROVE EndInv'
  <2>1. UNCHANGED <<frames, next, left, reply>> /\ stage[w] = "flush"
    BY <1>6 DEF Flush
  <2>2. CASE w # "incoming"
    <3>1. stage'["incoming"] = stage["incoming"] /\ readEnd' = readEnd
      BY <1>1, <1>6, <2>2 DEF Flush, After
    <3> QED
      BY <1>1, <2>1, <3>1, EndStays
  <2>3. CASE w = "incoming"
    <3>1. stage'["incoming"] = "idle" /\ (readEnd' = "eof" => reply = "close" \/ readEnd = "eof")
      BY <1>1, <1>6, <2>3 DEF Flush, After
    <3> QED
      BY <1>1, <2>1, <2>3, <3>1 DEF EndInv, Ending
  <2> QED
    BY <2>2, <2>3
<1>7. CASE Handshake \/ Write \/ Close \/ CloseSocket \/ Peer \/ UNCHANGED socketVars
  <2>1. UNCHANGED <<frames, next, left, readEnd, reply>>
    BY <1>7 DEF Handshake, Write, Close, CloseSocket, Peer, reading, writing, socketVars
  <2>2. stage'["incoming"] = stage["incoming"]
    BY <1>1, <1>7 DEF Handshake, Write, Close, CloseSocket, Peer, reading, writing, socketVars
  <2> QED
    BY <1>1, <2>1, <2>2, EndStays
<1> QED
  BY <1>2, <1>3, <1>4, <1>5, <1>6, <1>7 DEF SocketNext, Reader, Writer

-----------------------------------------------------------------------------
Locked == {"header", "payload", "flush"}

\* Nothing about frames or their writers changes.
LEMMA FramesStay ==
    ASSUME SocketTypeInv, FrameInv, CloseInv, UNCHANGED <<wio, buf, out>>,
           NEW w \in Writers, NEW to \in Stages \ {"header", "payload", "flush"},
           stage[w] \notin Locked, stage' = [stage EXCEPT ![w] = to],
           to \in {"idle", "lock"} => stage[w] \in {"idle", "lock"} \/ w # "closer"
    PROVE  FrameInv' /\ CloseInv'
<1>1. FrameInv'
  BY DEF SocketTypeInv, FrameInv, Begun, Locked
<1>2. CloseInv'
  BY DEF SocketTypeInv, CloseInv, Writers
<1> QED
  BY <1>1, <1>2

LEMMA StepFlush == \A w \in Writers : SocketInv /\ Flush(w) => FrameInv' /\ CloseInv'
<1> SUFFICES ASSUME NEW w \in Writers, SocketInv, Flush(w) PROVE FrameInv' /\ CloseInv'
  OBVIOUS
<1>1. SocketTypeInv /\ FrameInv /\ CloseInv /\ w = wio /\ ~Begun(wio) /\ stage[w] = "flush"
  BY DEF SocketInv, Flush, FrameInv, Begun
<1>2. /\ wio' = "none" /\ "none" \notin Writers
      /\ \A v \in Writers : IF v = w THEN stage'[v] \in {"close", "failed", "idle", "ended"}
                            ELSE stage'[v] = stage[v]
      /\ stage'["closer"] \in {"idle", "lock", "header"} => stage["closer"] \in {"idle", "lock", "header"}
  BY <1>1 DEF Flush, After, Writers, SocketTypeInv
<1>3. CASE UNCHANGED <<buf, out>>
  <2>1. FrameInv'
    BY <1>1, <1>2, <1>3 DEF FrameInv, Begun
  <2>2. CloseInv'
    BY <1>2, <1>3, <1>1 DEF CloseInv
  <2> QED
    BY <2>1, <2>2
<1>4. CASE out' = out \o buf /\ buf' = <<>>
  <2>1. /\ out \in Seq(Pieces) /\ buf \in Seq(Pieces) /\ Len(out) \in Nat /\ Len(buf) \in Nat
        /\ DOMAIN out = 1..Len(out) /\ DOMAIN buf = 1..Len(buf)
    BY <1>1, LenProperties DEF SocketTypeInv
  <2>2. /\ out' \in Seq(Pieces) /\ Len(out') = Len(out) + Len(buf) /\ DOMAIN out' = 1..Len(out')
        /\ \A i \in 1..Len(out) + Len(buf) : out'[i] = IF i <= Len(out) THEN out[i] ELSE buf[i - Len(out)]
    BY <1>4, <2>1, ConcatProperties, LenProperties
  <2>3. \A i \in DOMAIN out' :
           \/ i \in DOMAIN out /\ out'[i] = out[i]
           \/ i - Len(out) \in DOMAIN buf /\ out'[i] = buf[i - Len(out)] /\ i \notin DOMAIN out
    BY <2>1, <2>2
  <2>4. ASSUME NEW i \in DOMAIN out', out'[i][2] = "header"
        PROVE  i < Len(out') /\ out'[i + 1] = <<out'[i][1], "payload">>
    <3>1. CASE i \in DOMAIN out /\ out'[i] = out[i]
      <4>1. i < Len(out) /\ out[i + 1] = <<out[i][1], "payload">>
        BY <1>1, <2>4, <3>1 DEF FrameInv
      <4>2. out'[i + 1] = out[i + 1]
        BY <2>1, <2>2, <3>1, <4>1
      <4> QED
        BY <2>1, <2>2, <3>1, <4>1, <4>2
    <3>2. CASE i - Len(out) \in DOMAIN buf /\ out'[i] = buf[i - Len(out)] /\ i \notin DOMAIN out
      <4>1. i - Len(out) < Len(buf) /\ buf[i - Len(out) + 1] = <<buf[i - Len(out)][1], "payload">>
        BY <1>1, <2>4, <3>2 DEF FrameInv
      <4>2. out'[i + 1] = buf[i - Len(out) + 1]
        <5>1. i + 1 \in 1..Len(out) + Len(buf) /\ ~(i + 1 <= Len(out)) /\ i + 1 - Len(out) = i - Len(out) + 1
          BY <2>1, <2>2, <3>2, <4>1
        <5> QED
          BY <2>2, <5>1
      <4> QED
        BY <2>1, <2>2, <3>2, <4>1, <4>2
    <3> QED
      BY <2>3, <3>1, <3>2
  <2>5. FrameInv'
    <3>1. DOMAIN buf' = {} /\ ~Begun(wio)'
      BY <1>2, <1>4 DEF Begun
    <3>2. \A v \in Writers : stage'[v] \in {"header", "payload", "flush"} <=> v = wio'
      BY <1>1, <1>2 DEF FrameInv
    <3> QED
      BY <2>4, <3>1, <3>2 DEF FrameInv
  <2>6. CloseInv'
    <3>1. DOMAIN buf' = {}
      BY <1>4
    <3>2. \A i, j \in DOMAIN out' : out'[i] = CloseHeader /\ out'[j] = CloseHeader => i = j
      <4> SUFFICES ASSUME NEW i \in DOMAIN out', NEW j \in DOMAIN out',
                          out'[i] = CloseHeader, out'[j] = CloseHeader
                   PROVE  i = j
        OBVIOUS
      <4>1. i \in Int /\ j \in Int
        BY <2>1, <2>2
      <4>2. CASE i \in DOMAIN out /\ j \in DOMAIN out
        BY <1>1, <2>3, <4>2 DEF CloseInv
      <4>3. CASE i \notin DOMAIN out /\ j \notin DOMAIN out
        <5>1. i - Len(out) = j - Len(out)
          BY <1>1, <2>3, <4>3 DEF CloseInv
        <5> QED
          BY <2>1, <4>1, <5>1
      <4> QED
        BY <1>1, <2>3, <4>2, <4>3 DEF CloseInv
    <3>3. stage'["closer"] \in {"idle", "lock", "header"} => \A i \in DOMAIN out' : out'[i] # CloseHeader
      BY <1>1, <1>2, <2>3 DEF CloseInv
    <3> QED
      BY <3>1, <3>2, <3>3 DEF CloseInv, CloseHeader
  <2> QED
    BY <2>5, <2>6
<1> QED
  BY <1>3, <1>4 DEF Flush

LEMMA StepPiece == \A w \in Writers : SocketInv /\ PutPiece(w) => FrameInv' /\ CloseInv'
<1> SUFFICES ASSUME NEW w \in Writers, SocketInv, PutPiece(w) PROVE FrameInv' /\ CloseInv'
  OBVIOUS
<1> DEFINE p == <<w, stage[w]>>
<1>1. /\ SocketTypeInv /\ FrameInv /\ CloseInv /\ w = wio /\ UNCHANGED <<wio, out>> /\ w # "none"
      /\ stage[w] \in {"header", "payload"} /\ stage' = [stage EXCEPT ![w] = IF stage[w] = "header" THEN "payload" ELSE "flush"]
      /\ buf' = Append(buf, p) /\ p \in Pieces
  BY DEF SocketInv, PutPiece, FrameInv, Pieces, Writers
<1>2. /\ buf \in Seq(Pieces) /\ Len(buf) \in Nat /\ DOMAIN buf = 1..Len(buf)
      /\ Len(buf') = Len(buf) + 1 /\ DOMAIN buf' = 1..Len(buf) + 1 /\ buf'[Len(buf) + 1] = p
      /\ \A i \in 1..Len(buf) : buf'[i] = buf[i]
  BY <1>1 DEF SocketTypeInv
<1>3. stage'[w] = (IF stage[w] = "header" THEN "payload" ELSE "flush") /\ \A v \in Writers : v # w => stage'[v] = stage[v]
  BY <1>1 DEF SocketTypeInv
<1>4. FrameInv'
  <2>1. \A v \in Writers : stage'[v] \in {"header", "payload", "flush"} <=> v = wio'
    BY <1>1, <1>3 DEF FrameInv
  <2>2. Begun(wio)' <=> stage[w] = "header"
    BY <1>1, <1>3 DEF Begun
  <2>3. Begun(wio) <=> stage[w] = "payload"
    BY <1>1 DEF Begun
  <2>4. ASSUME NEW i \in DOMAIN buf', buf'[i][2] = "header"
        PROVE  IF i < Len(buf') THEN buf'[i + 1] = <<buf'[i][1], "payload">> ELSE Begun(wio)'
    <3>1. CASE i = Len(buf) + 1
      BY <1>2, <2>2, <2>4, <3>1
    <3>2. CASE i \in 1..Len(buf) - 1
      <4>1. buf'[i] = buf[i] /\ buf'[i + 1] = buf[i + 1] /\ i < Len(buf) /\ i \in DOMAIN buf /\ i < Len(buf')
        BY <1>2, <3>2
      <4> QED
        BY <1>1, <2>4, <4>1 DEF FrameInv
    <3>3. CASE i = Len(buf) /\ Len(buf) > 0
      <4>1. buf'[i] = buf[i] /\ i \in DOMAIN buf /\ i < Len(buf') /\ ~(i < Len(buf))
        BY <1>2, <3>3
      <4>2. Begun(wio) /\ buf[Len(buf)] = <<wio, "header">>
        BY <1>1, <2>4, <4>1 DEF FrameInv
      <4>3. buf'[i + 1] = <<w, "payload">>
        BY <1>2, <2>3, <3>3, <4>2
      <4> QED
        BY <1>1, <3>3, <4>1, <4>2, <4>3
    <3> QED
      BY <1>2, <3>1, <3>2, <3>3
  <2>5. Begun(wio)' => buf' # <<>> /\ buf'[Len(buf')] = <<wio', "header">>
    BY <1>1, <1>2, <2>2
  <2> QED
    BY <1>1, <2>1, <2>4, <2>5 DEF FrameInv
<1>5. CloseInv'
  <2>1. CASE p # CloseHeader
    <3>1. \A i \in DOMAIN buf' : buf'[i] = CloseHeader => i \in DOMAIN buf /\ buf[i] = CloseHeader
      <4> HIDE DEF p
      <4>1. \A i \in DOMAIN buf' : i \in 1..Len(buf) \/ i = Len(buf) + 1
        BY <1>2
      <4> QED
        BY <1>2, <2>1, <4>1
    <3>2. stage'["closer"] \in {"idle", "lock", "header"} => stage["closer"] \in {"idle", "lock", "header"}
      BY <1>1, <1>3 DEF Writers
    <3> HIDE DEF p
    <3> QED
      BY <1>1, <3>1, <3>2 DEF CloseInv
  <2>2. CASE p = CloseHeader
    <3>1. w = "closer" /\ stage["closer"] = "header" /\ stage'["closer"] = "payload"
      BY <1>3, <2>2 DEF CloseHeader
    <3>2. /\ \A i \in DOMAIN out : out[i] # CloseHeader
          /\ \A i \in DOMAIN buf : buf[i] # CloseHeader
      BY <1>1, <3>1 DEF CloseInv
    <3>3. \A i \in DOMAIN buf' : buf'[i] = CloseHeader => i = Len(buf) + 1
      BY <1>2, <3>2
    <3> HIDE DEF p
    <3> QED
      BY <1>1, <3>1, <3>2, <3>3 DEF CloseInv
  <2> QED
    BY <2>1, <2>2
<1> QED
  BY <1>4, <1>5

LEMMA StepWriting == SocketInv /\ [SocketNext]_socketVars => FrameInv' /\ CloseInv'
<1> SUFFICES ASSUME SocketInv, [SocketNext]_socketVars PROVE FrameInv' /\ CloseInv'
  OBVIOUS
<1>1. SocketTypeInv /\ FrameInv /\ CloseInv
  BY DEF SocketInv
<1>2. CASE UNCHANGED <<wio, buf, out, stage>>
  BY <1>1, <1>2 DEF FrameInv, Begun, CloseInv
<1>3. CASE ReadFrame
  <2> DEFINE f == frames[next]
  <2>1. f \in FrameType /\ HandleFrame(f) /\ UNCHANGED <<wio, buf, out>> /\ stage["incoming"] = "idle"
    BY <1>1, <1>3 DEF ReadFrame, Reads, SocketTypeInv
  <2>2. stage' = stage \/ stage' = [stage EXCEPT !["incoming"] = "lock"]
    BY <2>1 DEF HandleFrame, HandlePing, EndRead, FrameType, Data, Control
  <2>3. "incoming" \in Writers /\ "lock" \in Stages \ {"header", "payload", "flush"}
    BY DEF Writers, Stages
  <2> QED
    BY <1>1, <1>2, <2>1, <2>2, <2>3, FramesStay DEF Locked
<1>4. CASE Write
  <2>1. "outgoing" \in Writers /\ "lock" \in Stages \ {"header", "payload", "flush"}
    BY DEF Writers, Stages
  <2> QED
    BY <1>1, <1>4, <2>1, FramesStay DEF Write, Locked
<1>5. CASE Close
  <2>1. "closer" \in Writers /\ "lock" \in Stages \ {"header", "payload", "flush"}
    BY DEF Writers, Stages
  <2> QED
    BY <1>1, <1>5, <2>1, FramesStay DEF Close, Locked
<1>6. CASE CloseSocket
  <2>1. "closer" \in Writers /\ "done" \in Stages \ {"header", "payload", "flush"}
    BY DEF Writers, Stages
  <2> QED
    BY <1>1, <1>6, <2>1, FramesStay DEF CloseSocket, Locked
<1>7. ASSUME NEW w \in Writers, Lock(w) PROVE FrameInv' /\ CloseInv'
  <2>1. /\ UNCHANGED <<buf, out>> /\ wio = "none" /\ wio' = w /\ stage[w] = "lock" /\ "none" \notin Writers
        /\ stage'[w] = "header" /\ \A v \in Writers : v # w => stage'[v] = stage[v]
    BY <1>1, <1>7 DEF Lock, SocketTypeInv, Writers
  <2>2. ~Begun(wio) /\ ~Begun(wio)'
    BY <2>1 DEF Begun
  <2>3. FrameInv'
    BY <1>1, <2>1, <2>2 DEF FrameInv
  <2>4. CloseInv'
    BY <1>1, <2>1 DEF CloseInv, Writers
  <2> QED
    BY <2>3, <2>4
<1>8. CASE Handshake \/ ReadPayload \/ ReadEnds \/ Peer \/ UNCHANGED socketVars
  BY <1>2, <1>8 DEF Handshake, ReadPayload, ReadEnds, EndRead, Peer, writing, socketVars
<1> QED
  BY <1>3, <1>4, <1>5, <1>6, <1>7, <1>8, StepFlush, StepPiece DEF SocketNext, Reader, Writer

-----------------------------------------------------------------------------
\* In every state: what has been read of the frames, what ends the reading, and whose
\* frame is being written.
THEOREM SocketInvariance == SocketSpec => []SocketInv
<1>1. SocketInit => SocketInv
  BY SocketAssumption, SocketInitInv
<1>2. SocketInv /\ [SocketNext]_socketVars => SocketInv'
  BY SocketTypeStep, StepReading, StepEnd, StepWriting DEF SocketInv
<1> QED
  BY <1>1, <1>2, PTL DEF SocketSpec

\* For any frames a peer sends, whatever is read of them at a time, and for any
\* interleaving of the three writers: the bytes read are the bytes of the data frames in
\* order, all of them if reading has ended with EOF, and no frame is written into
\* another one.
THEOREM BytesKept == SocketSpec => []FramesKept
<1>1. SocketInv => FramesKept
  <2> SUFFICES ASSUME SocketInv PROVE FramesKept
    OBVIOUS
  <2>1. /\ SocketTypeInv /\ ReadInv /\ EndInv /\ next \in 1..Len(frames)+1 /\ Len(frames) \in Nat
        /\ next - 1 \in Int /\ Len(got) \in Nat /\ Len(left) \in Nat
    BY DEF SocketInv, SocketTypeInv
  <2>2. Count(next - 1) <= Cardinality(Bytes) /\ Cardinality(Bytes) \in Nat /\ Len(got) + Len(left) = Count(next - 1)
    BY <2>1, CountType DEF ReadInv
  <2>3. readEnd = "eof" => Len(got) = Cardinality(Bytes)
    <3> SUFFICES ASSUME readEnd = "eof" PROVE Len(got) = Cardinality(Bytes)
      OBVIOUS
    <3>1. left = <<>> /\ (next <= Len(frames) => Ending(frames[next]))
      BY <2>1 DEF EndInv
    <3>2. ASSUME NEW b \in Bytes PROVE b[1] <= next - 1
      <4>1. b[1] \in Carried /\ b[1] \in 1..Len(frames)
        BY <2>1, BytesAre
      <4>2. next <= Len(frames) => ~(next \in 1..b[1])
        BY <3>1, <4>1 DEF Carried
      <4> QED
        BY <2>1, <4>1, <4>2
    <3>3. Behind(next - 1) = Bytes
      BY <3>2 DEF Behind
    <3> QED
      BY <2>1, <2>2, <3>1, <3>3 DEF Count
  <2>4. Len(got) <= Cardinality(Bytes)
    BY <2>1, <2>2
  <2>5. \A b \in Bytes : Place(b) <= Len(got) => got[Place(b)] = frames[b[1]].payload[b[2]]
    BY <2>1 DEF ReadInv
  <2>6. \A i \in DOMAIN out : out[i][2] = "header" => i < Len(out) /\ out[i + 1] = <<out[i][1], "payload">>
    BY DEF SocketInv, FrameInv
  <2>7. \A i, j \in DOMAIN out : out[i] = <<"closer", "header">> /\ out[j] = out[i] => i = j
    BY DEF SocketInv, CloseInv, CloseHeader
  <2> QED
    BY <2>3, <2>4, <2>5, <2>6, <2>7 DEF FramesKept
<1> QED
  BY <1>1, SocketInvariance, PTL
=============================================================================
