------------------------------ MODULE MCParts -------------------------------
(***************************************************************************)
(* The parts of the client that work for themselves, one at a time: which  *)
(* one is chosen at the start, and the others stand still in an initial    *)
(* state of theirs.                                                        *)
(***************************************************************************)
EXTENDS Router, Store, Setup, Delivery, WebSocket, Rows, Packets, TLC

VARIABLE part

-----------------------------------------------------------------------------
(* The router: two filters under one another, one beside them.             *)

RouterMatches(f, topic) ==
    f = topic \/ <<f, topic>> \in {<<"a/#", "a/b">>, <<"a/#", "a/c">>}

-----------------------------------------------------------------------------
(* Lists of up to two servers, of all kinds.                               *)

ServerLists == UNION {[1..n -> ServerKinds] : n \in 0..2}

-----------------------------------------------------------------------------
(* Frames: data in pieces with a ping between them; a ping without payload, *)
(* a pong; a close after a ping; a masked one; one of an unknown type.     *)

Frame(o, masked, payload) == [op |-> o, masked |-> masked, payload |-> payload]
Binary(payload) == Frame("binary", FALSE, payload)

FrameLists ==
    {<<>>,
     <<Binary(<<1, 2>>), Frame("ping", FALSE, <<0>>), Frame("continuation", FALSE, <<3>>)>>,
     <<Binary(<<1>>), Frame("ping", FALSE, <<>>), Binary(<<2>>)>>,
     <<Binary(<<>>), Frame("pong", FALSE, <<9>>), Binary(<<2>>)>>,
     <<Frame("ping", FALSE, <<9>>), Frame("close", FALSE, <<>>)>>,
     <<Frame("text", FALSE, <<1>>), Frame("binary", TRUE, <<2>>)>>,
     <<Frame("unknown", FALSE, <<1>>)>>}

-----------------------------------------------------------------------------
(* Packets: every type, flag and optional field; bodies of 0 to 260 bytes, *)
(* so lengths of one and two digits; and pairs of packets.                 *)

Name == <<97, 98>>

\* NewControlPacket gives three types QoS 1.
New(type, fields) ==
    [type |-> type, dup |-> FALSE, retain |-> FALSE, body |-> fields,
     qos |-> IF type \in {"PUBREL", "SUBSCRIBE", "UNSUBSCRIBE"} THEN 1 ELSE 0]

If(flag, v) == IF flag THEN v ELSE <<>>

Connects == {New("CONNECT",
    [name |-> Name, version |-> 4, clean |-> ~will, will |-> will, willRetain |-> will,
     willQos |-> IF will THEN 2 ELSE 0, passwordFlag |-> user /\ pass, usernameFlag |-> user,
     keepalive |-> 44032, client |-> <<99>>, willTopic |-> If(will, Name),
     willMessage |-> If(will, <<1>>), username |-> If(user, <<117>>),
     password |-> If(user /\ pass, <<112>>)]) : will, user, pass \in BOOLEAN}

Publication(dup, q, retain, length) ==
    [New("PUBLISH", [topic |-> Name, id |-> IF q = 0 THEN 0 ELSE 258,
                     payload |-> [i \in 1..length |-> 7]])
        EXCEPT !.dup = dup, !.qos = q, !.retain = retain]

Others ==
    {New(t, [id |-> 513]) : t \in {"PUBACK", "PUBREC", "PUBREL", "PUBCOMP", "UNSUBACK"}}
    \cup {New(t, <<>>) : t \in {"PINGREQ", "PINGRESP", "DISCONNECT"}}
    \cup {New("CONNACK", [compression |-> 0, code |-> c]) : c \in {0, 5}}
    \cup {New("SUBSCRIBE", [id |-> 1, topics |-> <<Name, <<99>>>>, qoss |-> <<0, 1>>]),
          New("SUBACK", [id |-> 1, granted |-> <<0, 128>>]),
          New("UNSUBSCRIBE", [id |-> 256, topics |-> <<Name, <<99>>>>])}

Publications == {Publication(dup, q, dup, length) : dup \in BOOLEAN, q \in 0..2, length \in {0, 2, 130}}

PacketStreams ==
    {<<>>} \cup {<<p>> : p \in Connects \cup Publications}
    \cup {<<p, q>> : p \in Others \cup {Publication(FALSE, 1, FALSE, 122), Publication(FALSE, 1, FALSE, 260)},
                     q \in {New("PUBACK", [id |-> 513]), Publication(TRUE, 1, FALSE, 121)}}

-----------------------------------------------------------------------------
(* Filters and topics of up to three and four levels; every kind of        *)
(* payload on one topic, and text on all.                                  *)

Levels == {<<"a">>, <<"wide">>, <<"+">>, <<"#">>, <<>>, <<"$", "S">>, <<"(">>, <<"x", ".", "y">>}
Join(ls) == FlattenSeq([k \in DOMAIN ls |-> IF k = 1 THEN ls[k] ELSE <<"/">> \o ls[k]])
Of(levels, n) == {Join(ls) : ls \in [1..n -> levels]}

FilterSet == Of(Levels, 1) \cup Of(Levels, 2) \cup Of({<<"a">>, <<"+">>, <<"#">>}, 3)
TopicSet == Of({<<"a">>, <<"wide">>, <<>>, <<"$", "S">>, <<"x", ".", "y">>}, 1)
          \cup Of({<<"a">>, <<"wide">>, <<>>}, 2) \cup Of({<<"a">>, <<"b">>, <<>>}, 3)

-----------------------------------------------------------------------------
(* The sum.                                                                *)

\* A part that was not chosen starts, and stays, in one of its initial states.
PartsInit ==
    /\ part \in {"router", "store", "setup", "delivery", "websocket", "packets", "rows"}
    /\ IF part = "store" THEN TRUE ELSE kind = "file"
    /\ IF part = "setup" THEN TRUE ELSE servers = <<>> /\ chosen = 0
    /\ IF part = "delivery" THEN TRUE ELSE clean = TRUE
    /\ IF part = "websocket" THEN TRUE ELSE frames = <<>>
    /\ IF part = "packets" THEN TRUE ELSE sent = <<>>
    /\ IF part = "rows" THEN TRUE
       ELSE filter = <<"a">> /\ arrived = [topic |-> <<"a">>, payload |-> "words", dup |-> FALSE]
    /\ Init /\ StoreInit /\ SetupInit /\ DeliveryInit /\ SocketInit /\ PacketInit /\ RowInit
    /\ \/ arrived.payload = "words" /\ ~arrived.dup
       \/ arrived.topic = <<"a">>

PartsNext ==
    /\ UNCHANGED part
    /\ IF part = "router" THEN Next ELSE UNCHANGED rvars
    /\ IF part = "store" THEN StoreNext ELSE UNCHANGED storeVars
    /\ IF part = "setup" THEN SetupNext ELSE UNCHANGED setupVars
    /\ IF part = "delivery" THEN DeliveryNext ELSE UNCHANGED deliveryVars
    /\ IF part = "websocket" THEN SocketNext ELSE UNCHANGED socketVars
    /\ IF part = "packets" THEN PacketNext ELSE UNCHANGED pvars
    /\ IF part = "rows" THEN RowNext ELSE UNCHANGED rowVars

partsVars == <<part, rvars, storeVars, setupVars, deliveryVars, socketVars, pvars,
               rowVars>>

PartsSpec ==
    /\ PartsInit /\ [][PartsNext]_partsVars
    /\ (part = "setup" => SetupFairness)
    /\ (part = "websocket" => SocketFairness)

=============================================================================
