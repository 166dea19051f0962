------------------------------ MODULE Packets -------------------------------
(***************************************************************************)
(* The packets of paho on the wire, and a stream of them that breaks off.  *)
(* A packet is a record: the fixed header and a body with the fields of    *)
(* its type; a string is a sequence of bytes.  Unpack reads from a buffer  *)
(* and ignores every error: what the buffer does not hold reads as zero.   *)
(* The state machine is incoming's loop on a stream that the connection    *)
(* cuts after any byte: ReadPacket until it fails.                         *)
(***************************************************************************)
EXTENDS Integers, Sequences, SequencesExt, FiniteSetsExt

CONSTANT Streams    \* the sequences of packets a peer may send

PacketNames ==
    <<"CONNECT", "CONNACK", "PUBLISH", "PUBACK", "PUBREC", "PUBREL", "PUBCOMP", "SUBSCRIBE",
      "SUBACK", "UNSUBSCRIBE", "UNSUBACK", "PINGREQ", "PINGRESP", "DISCONNECT">>

\* The packets that are an identifier and nothing else, and those with no body.
IdOnly == {"PUBACK", "PUBREC", "PUBREL", "PUBCOMP", "UNSUBACK"}
Bare == {"PINGREQ", "PINGRESP", "DISCONNECT"}

Byte == 0..255
boolToByte(b) == IF b THEN 1 ELSE 0

\* The bit of that weight.
bit(byte, weight) == (byte \div weight) % 2 = 1

-----------------------------------------------------------------------------
(* Numbers, strings and lengths.                                           *)

encodeUint16(n) == <<(n \div 256) % 256, n % 256>>
encodeString(s) == encodeUint16(Len(s)) \o s

encodeLength(n) ==
    LET digits[m \in 0..n] ==
          IF m < 128 THEN <<m>> ELSE <<(m % 128) + 128>> \o digits[m \div 128]
    IN  digits[n]

\* A read of n bytes from buffer b, and what it leaves.
Read(b, n) == [i \in 1..n |-> IF i <= Len(b) THEN b[i] ELSE 0]
Rest(b, n) == SubSeq(b, n + 1, Len(b))

decodeByte(b) == Read(b, 1)[1]
decodeUint16(b) == LET x == Read(b, 2) IN 256 * x[1] + x[2]
decodeString(b) == Read(Rest(b, 2), decodeUint16(b))
afterString(b) == Rest(b, 2 + decodeUint16(b))

\* decodeLength stops at the first byte without the continuation bit.  At the end
\* of the stream its buffer keeps what it held: nothing yet is a length of 0, a
\* byte with the continuation bit is read again for ever ("spins").
decodeLength(b) ==
    LET ends == {i \in DOMAIN b : b[i] < 128}
        k == Min(ends \cup {Len(b) + 1})
        value[i \in 1..k] == (b[i] % 128) + (IF i = k THEN 0 ELSE 128 * value[i + 1])
    IN  [spins |-> ends = {} /\ b # <<>>,
         length |-> IF ends = {} THEN 0 ELSE value[1],
         rest |-> Rest(b, k)]

-----------------------------------------------------------------------------
(* The bodies.  Each type has its write and its unpack.                    *)

connectFlags(p) ==
    2 * boolToByte(p.clean) + 4 * boolToByte(p.will) + 8 * p.willQos
    + 32 * boolToByte(p.willRetain) + 64 * boolToByte(p.passwordFlag)
    + 128 * boolToByte(p.usernameFlag)

writeConnect(p) ==
    encodeString(p.name) \o <<p.version, connectFlags(p)>> \o encodeUint16(p.keepalive)
    \o encodeString(p.client)
    \o (IF p.will THEN encodeString(p.willTopic) \o encodeString(p.willMessage) ELSE <<>>)
    \o (IF p.usernameFlag THEN encodeString(p.username) ELSE <<>>)
    \o (IF p.passwordFlag THEN encodeString(p.password) ELSE <<>>)

\* The next string of b if the flag asks for it.
stringIf(flag, b) == IF flag THEN decodeString(b) ELSE <<>>
afterIf(flag, b) == IF flag THEN afterString(b) ELSE b

\* Mutant: the bits of username and password are taken for each other.
unpackConnectSwapped(b) ==
    LET b1 == afterString(b)    flags == decodeByte(Rest(b1, 1))
        b2 == Rest(b1, 4)       b3 == afterString(b2)
        b4 == afterIf(bit(flags, 4), b3)    b5 == afterIf(bit(flags, 4), b4)
        b6 == afterIf(bit(flags, 64), b5)
    IN  [name |-> decodeString(b), version |-> decodeByte(b1),
         clean |-> bit(flags, 2), will |-> bit(flags, 4), willQos |-> (flags \div 8) % 4,
         willRetain |-> bit(flags, 32), passwordFlag |-> bit(flags, 128),
         usernameFlag |-> bit(flags, 64), keepalive |-> decodeUint16(Rest(b1, 2)),
         client |-> decodeString(b2), willTopic |-> stringIf(bit(flags, 4), b3),
         willMessage |-> stringIf(bit(flags, 4), b4),
         username |-> stringIf(bit(flags, 64), b5), password |-> stringIf(bit(flags, 128), b6)]

unpackConnect(b) ==
    LET b1 == afterString(b)    flags == decodeByte(Rest(b1, 1))
        b2 == Rest(b1, 4)       b3 == afterString(b2)
        b4 == afterIf(bit(flags, 4), b3)    b5 == afterIf(bit(flags, 4), b4)
        b6 == afterIf(bit(flags, 128), b5)
    IN  [name |-> decodeString(b), version |-> decodeByte(b1),
         clean |-> bit(flags, 2), will |-> bit(flags, 4), willQos |-> (flags \div 8) % 4,
         willRetain |-> bit(flags, 32), passwordFlag |-> bit(flags, 64),
         usernameFlag |-> bit(flags, 128), keepalive |-> decodeUint16(Rest(b1, 2)),
         client |-> decodeString(b2), willTopic |-> stringIf(bit(flags, 4), b3),
         willMessage |-> stringIf(bit(flags, 4), b4),
         username |-> stringIf(bit(flags, 128), b5), password |-> stringIf(bit(flags, 64), b6)]

writeConnack(p) == <<p.compression, p.code>>
unpackConnack(b) == [compression |-> decodeByte(b), code |-> decodeByte(Rest(b, 1))]

writePublish(qos, p) ==
    encodeString(p.topic) \o (IF qos > 0 THEN encodeUint16(p.id) ELSE <<>>) \o p.payload

\* How much of the remaining length is payload; make() panics when it is negative.
payloadLength(h, b) == h.length - Len(decodeString(b)) - (IF h.qos > 0 THEN 4 ELSE 2)

unpackPublish(h, b) ==
    LET b1 == afterString(b)
        b2 == IF h.qos > 0 THEN Rest(b1, 2) ELSE b1
    IN  [topic |-> decodeString(b), id |-> IF h.qos > 0 THEN decodeUint16(b1) ELSE 0,
         payload |-> Read(b2, payloadLength(h, b))]

writeSubscribe(p) ==
    encodeUint16(p.id)
    \o FlattenSeq([i \in DOMAIN p.topics |-> encodeString(p.topics[i]) \o <<p.qoss[i]>>])

\* Where the strings of a SUBSCRIBE or UNSUBSCRIBE end, with more bytes after each.
after(b, more) ==
    LET at[k \in 0..Len(b)] ==
          IF k = 0 THEN 2
          ELSE LET i == at[k - 1] IN i + 2 + Len(decodeString(Rest(b, i))) + more
    IN  at

\* The entries of a SUBSCRIBE while some of its length is left.
unpackSubscribe(h, b) ==
    LET at == after(b, 1)
        n == Min({k \in DOMAIN at : at[k] >= h.length})
    IN  [id |-> decodeUint16(b),
         topics |-> [k \in 1..n |-> decodeString(Rest(b, at[k - 1]))],
         qoss |-> [k \in 1..n |-> decodeByte(afterString(Rest(b, at[k - 1])))]]

writeSuback(p) == encodeUint16(p.id) \o p.granted
unpackSuback(b) == [id |-> decodeUint16(b), granted |-> Rest(b, 2)]

writeUnsubscribe(p) ==
    encodeUint16(p.id) \o FlattenSeq([i \in DOMAIN p.topics |-> encodeString(p.topics[i])])

\* The topics of an UNSUBSCRIBE up to an empty one, which the end also reads as.
unpackUnsubscribe(b) ==
    LET at == after(b, 0)
        n == Min({k \in DOMAIN at : decodeString(Rest(b, at[k])) = <<>>})
    IN  [id |-> decodeUint16(b), topics |-> [k \in 1..n |-> decodeString(Rest(b, at[k - 1]))]]

unpackPuback(b) == [id |-> decodeUint16(b)]
unpackPubrec(b) == [id |-> decodeUint16(b)]
unpackPubrel(b) == [id |-> decodeUint16(b)]
unpackPubcomp(b) == [id |-> decodeUint16(b)]
unpackUnsuback(b) == [id |-> decodeUint16(b)]

-----------------------------------------------------------------------------
(* Whole packets.                                                          *)

body(p) ==
    CASE p.type = "CONNECT" -> writeConnect(p.body)
      [] p.type = "CONNACK" -> writeConnack(p.body)
      [] p.type = "PUBLISH" -> writePublish(p.qos, p.body)
      [] p.type = "SUBSCRIBE" -> writeSubscribe(p.body)
      [] p.type = "SUBACK" -> writeSuback(p.body)
      [] p.type = "UNSUBSCRIBE" -> writeUnsubscribe(p.body)
      [] p.type \in IdOnly -> encodeUint16(p.body.id)
      [] p.type \in Bare -> <<>>

pack(p) ==
    LET number == CHOOSE n \in DOMAIN PacketNames : PacketNames[n] = p.type
    IN  <<16 * number + 8 * boolToByte(p.dup) + 2 * p.qos + boolToByte(p.retain)>>
    \o encodeLength(Len(body(p)))

written(p) == pack(p) \o body(p)

unpack(byte, b) ==
    [type |-> IF byte \div 16 \in DOMAIN PacketNames THEN PacketNames[byte \div 16] ELSE "none",
     dup |-> bit(byte, 8), qos |-> (byte \div 2) % 4,
     retain |-> bit(byte, 1), length |-> decodeLength(b).length]

Unpack(h, b) ==
    [type |-> h.type, dup |-> h.dup, qos |-> h.qos, retain |-> h.retain, body |->
       CASE h.type = "CONNECT" -> unpackConnect(b)
         [] h.type = "CONNACK" -> unpackConnack(b)
         [] h.type = "PUBLISH" -> unpackPublish(h, b)
         [] h.type = "SUBSCRIBE" -> unpackSubscribe(h, b)
         [] h.type = "SUBACK" -> unpackSuback(b)
         [] h.type = "UNSUBSCRIBE" -> unpackUnsubscribe(b)
         [] h.type = "PUBACK" -> unpackPuback(b)
         [] h.type = "PUBREC" -> unpackPubrec(b)
         [] h.type = "PUBREL" -> unpackPubrel(b)
         [] h.type = "PUBCOMP" -> unpackPubcomp(b)
         [] h.type = "UNSUBACK" -> unpackUnsuback(b)
         [] h.type \in Bare -> <<>>]

\* What ReadPacket does with the bytes that arrived: a packet, an error, a panic,
\* or a loop without end.
ReadPacket(b) ==
    LET len == decodeLength(Rest(b, 1))
        h == unpack(b[1], Rest(b, 1))
    IN  IF b = <<>> THEN [is |-> "error"]
        ELSE IF len.spins THEN [is |-> "spins"]
        ELSE IF h.type = "none" THEN [is |-> "error"]
        ELSE IF Len(len.rest) < h.length THEN [is |-> "error"]
        ELSE LET buffer == SubSeq(len.rest, 1, h.length)
             IN  IF h.type = "PUBLISH" /\ payloadLength(h, buffer) < 0 THEN [is |-> "panics"]
                 ELSE [is |-> "packet", packet |-> Unpack(h, buffer),
                       rest |-> Rest(len.rest, h.length)]

-----------------------------------------------------------------------------
(* The packets a program makes.  A string has a length of 16 bits, and the *)
(* remaining length at most four digits, which decodeLength's 32 bits hold.*)

Id == 0..(256 * 256) - 1
MaxLength == 128 * 128 * 128 * 128 - 1
String == {s \in Seq(Byte) : Len(s) \in Id}

\* A field that is not written is empty.
ConnectBody ==
    {p \in [name : String, version : Byte, clean : BOOLEAN, will : BOOLEAN, willQos : 0..3,
            willRetain : BOOLEAN, passwordFlag : BOOLEAN, usernameFlag : BOOLEAN,
            keepalive : Id, client : String, willTopic : String, willMessage : String,
            username : String, password : String] :
        /\ ~p.will => p.willTopic = <<>> /\ p.willMessage = <<>>
        /\ ~p.usernameFlag => p.username = <<>>
        /\ ~p.passwordFlag => p.password = <<>>}

PublishBody(qos) == [topic : String, id : IF qos > 0 THEN Id ELSE {0}, payload : Seq(Byte)]

SubscribeBody ==
    {p \in [id : Id, topics : Seq(String), qoss : Seq(Byte)] : Len(p.topics) = Len(p.qoss)}

Body(type, qos) ==
    CASE type = "CONNECT" -> ConnectBody
      [] type = "CONNACK" -> [compression : Byte, code : Byte]
      [] type = "PUBLISH" -> PublishBody(qos)
      [] type = "SUBSCRIBE" -> SubscribeBody
      [] type = "SUBACK" -> [id : Id, granted : Seq(Byte)]
      [] type = "UNSUBSCRIBE" -> [id : Id, topics : Seq(String \ {<<>>})]
      [] type \in IdOnly -> [id : Id]
      [] type \in Bare -> {<<>>}

Types == {PacketNames[n] : n \in DOMAIN PacketNames}

ControlPackets(t, q) ==
    [type : {t}, dup : BOOLEAN, qos : {q}, retain : BOOLEAN, body : Body(t, q)]

IsPacket(p) ==
    /\ \E t \in Types, q \in 0..3 : p \in ControlPackets(t, q)
    /\ Len(body(p)) <= MaxLength

ASSUME PacketsAssumption ==
    \A ps \in Streams : ps \in Seq(Range(ps)) /\ \A i \in DOMAIN ps : IsPacket(ps[i])

-----------------------------------------------------------------------------
(* The stream.                                                             *)

VARIABLES sent,     \* the packets the peer writes
          broken,   \* how many of their bytes arrive before the connection is gone
          unread,   \* the bytes that arrived and are not read yet
          read,     \* the packets incoming has read
          ended     \* "no", or how reading came to an end

pvars == <<sent, broken, unread, read, ended>>

Stream(ps) == FlattenSeq([i \in DOMAIN ps |-> written(ps[i])])

PacketInit ==
    /\ sent \in Streams
    /\ broken \in 0..Len(Stream(sent))
    /\ unread = SubSeq(Stream(sent), 1, broken)
    /\ read = <<>>
    /\ ended = "no"

\* incoming reads packets until ReadPacket gives an error, or does not return.
Incoming ==
    /\ ended = "no"
    /\ LET r == ReadPacket(unread)
       IN  IF r.is = "packet"
           THEN read' = Append(read, r.packet) /\ unread' = r.rest /\ UNCHANGED ended
           ELSE ended' = r.is /\ UNCHANGED <<read, unread>>
    /\ UNCHANGED <<sent, broken>>

PacketNext == Incoming

PacketSpec == PacketInit /\ [][PacketNext]_pvars

-----------------------------------------------------------------------------
\* How many packets arrived whole, and how many bytes of the next one.
Arrived == Max({n \in 0..Len(sent) : Len(Stream(SubSeq(sent, 1, n))) <= broken})
Over == broken - Len(Stream(SubSeq(sent, 1, Arrived)))

\* The bytes of the next packet that are its length.
LengthBytes == Len(encodeLength(Len(body(sent[Arrived + 1]))))

\* Every packet that arrived whole is read as it was written, in order, whatever its
\* type, flags, strings and the digits of its length; and reading ends where the
\* connection broke.  A break inside a body is an error, as is one at a packet's end.
\* decodeLength does not notice a break before or inside the length: after the type
\* byte the packet is taken for an empty one, which for a PUBLISH is a panic, and
\* after a digit with the continuation bit incoming never comes back.
ReadsWhatWasWritten ==
    /\ \A i \in DOMAIN read : i <= Arrived => read[i] = sent[i]
    /\ ended # "no" => Len(read) >= Arrived
    /\ Len(read) > Arrived => Over = 1 /\ Len(read) = Arrived + 1 /\ sent[Len(read)].type # "PUBLISH"
    /\ ended = "error" => Over = 0 \/ Over > LengthBytes \/ Len(read) > Arrived
    /\ ended = "panics" => Over = 1 /\ sent[Arrived + 1].type = "PUBLISH"
    /\ ended = "spins" => Over \in 2..LengthBytes
=============================================================================
