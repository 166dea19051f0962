----------------------------- MODULE WebSocket ------------------------------
(***************************************************************************)
(* A ws:// connection, as the client uses it: the handshake, incoming that *)
(* reads bytes out of frames, and three writers: outgoing with packets,    *)
(* incoming with pongs, and whoever calls Close.  A frame is written under *)
(* the lock wio in three steps: header, payload, flush.  The peer may stop *)
(* taking what is written, or go away.  Masking and the sizes of headers    *)
(* are left out.                                                           *)
(***************************************************************************)
EXTENDS Integers, Sequences, FiniteSets

CONSTANTS Inputs,       \* the sequences of frames a peer may send: [op, masked, payload]
          MaxWrites     \* bound: packets that outgoing writes

Writers == {"outgoing", "incoming", "closer"}
Data == {"text", "binary", "continuation", "unknown"}
Control == {"close", "ping", "pong"}

ASSUME SocketAssumption ==
    Inputs \subseteq Seq([op : Data \cup Control, masked : BOOLEAN, payload : Seq(0..255)])

VARIABLES ws,         \* the connection: "dialing", "failed", "open", "closed"
          frames,     \* the frames the peer sends
          next,       \* the next of them to read
          left,       \* what is left of the payload of the frame being read
          got,        \* the bytes that Conn.Read returned
          readEnd,    \* "no", "eof" or "error": how reading ended
          stage,      \* where each writer is
          reply,      \* what incoming is writing: "pong" or "close"
          wio,        \* who holds the lock, or "none"
          buf, out,   \* pieces of frames in bw, and those that left
          peer,       \* "reading", "stalled" or "gone"
          writes      \* how many packets outgoing has written

socketVars == <<ws, frames, next, left, got, readEnd, stage, reply, wio, buf, out, peer, writes>>
reading == <<next, left, got, readEnd>>
writing == <<stage, reply, wio, buf, out, writes>>

SocketInit ==
    /\ ws = "dialing" /\ frames \in Inputs /\ next = 1 /\ left = <<>> /\ got = <<>>
    /\ readEnd = "no" /\ stage = [w \in Writers |-> "idle"] /\ reply = "pong"
    /\ wio = "none" /\ buf = <<>> /\ out = <<>> /\ peer = "reading" /\ writes = 0

\* The client's handshake: what it requires of the response.
Accepts(response) ==
    /\ response.status = 101 /\ response.upgrade /\ response.accept
    /\ ~response.extensions /\ response.protocol \in {"", "mqtt"}

Handshake ==
    /\ ws = "dialing"
    /\ \E response \in [status : {101, 200}, upgrade : BOOLEAN, accept : BOOLEAN,
                        extensions : BOOLEAN, protocol : {"", "mqtt", "other"}] :
          ws' = IF peer # "gone" /\ Accepts(response) THEN "open" ELSE "failed"
    /\ UNCHANGED <<frames, reading, writing, peer>>

-----------------------------------------------------------------------------
(* Reading.                                                                *)

Reads == ws # "dialing" /\ ws # "failed" /\ readEnd = "no" /\ stage["incoming"] = "idle"

EndRead(how) == readEnd' = how /\ UNCHANGED <<next, left, got, stage, reply>>

\* Some of what is left of a frame; its end sends Read to the next frame.
ReadPayload ==
    /\ Reads /\ left # <<>>
    /\ \E n \in 1..Len(left) :
          /\ got' = got \o SubSeq(left, 1, n)
          /\ left' = SubSeq(left, n + 1, Len(left))
    /\ UNCHANGED <<ws, frames, next, readEnd, writing, peer>>

\* The pong is queued with the first bytes of the ping.  A ping with none is an EOF
\* of ReadFull, and HandleFrame returns it.
HandlePing(f) ==
    IF f.payload = <<>> THEN EndRead("eof") /\ UNCHANGED next
    ELSE /\ stage' = [stage EXCEPT !["incoming"] = "lock"] /\ reply' = "pong" /\ next' = next + 1
         /\ UNCHANGED <<left, got, readEnd>>


\* A masked frame is answered with a close frame; anything the switch does not name
\* is data.
HandleFrame(f) ==
    CASE f.masked -> /\ stage' = [stage EXCEPT !["incoming"] = "lock"] /\ reply' = "close"
                     /\ UNCHANGED <<next, left, got, readEnd>>
      [] ~f.masked /\ f.op \in Data ->
            left' = f.payload /\ next' = next + 1 /\ UNCHANGED <<got, readEnd, stage, reply>>
      [] ~f.masked /\ f.op = "close" -> EndRead("eof")
      [] ~f.masked /\ f.op = "pong" -> EndRead("error")
      [] ~f.masked /\ f.op = "ping" -> HandlePing(f)

ReadFrame ==
    /\ Reads /\ left = <<>> /\ next <= Len(frames)
    /\ HandleFrame(frames[next])
    /\ UNCHANGED <<ws, frames, wio, buf, out, writes, peer>>

\* The connection is closed or broken, with bytes unread or not; or the peer has
\* closed it and everything is read.  A frame cut short ends like a whole one.
ReadEnds ==
    /\ Reads
    /\ \/ (ws = "closed" \/ peer = "gone") /\ EndRead("error")
       \/ ws = "open" /\ peer = "gone" /\ left = <<>> /\ next > Len(frames) /\ EndRead("eof")
    /\ UNCHANGED <<ws, frames, wio, buf, out, writes, peer>>

-----------------------------------------------------------------------------
(* Writing.                                                                *)

\* outgoing writes a packet; the client closes the connection.
Write ==
    /\ ws = "open" /\ stage["outgoing"] = "idle" /\ writes < MaxWrites
    /\ stage' = [stage EXCEPT !["outgoing"] = "lock"] /\ writes' = writes + 1
    /\ UNCHANGED <<ws, frames, reading, reply, wio, buf, out, peer>>

Close ==
    /\ ws = "open" /\ stage["closer"] = "idle"
    /\ stage' = [stage EXCEPT !["closer"] = "lock"]
    /\ UNCHANGED <<ws, frames, reading, reply, wio, buf, out, writes, peer>>

\* Mutant: writers do not wait for the lock.
LockNothing(w) ==
    /\ stage[w] = "lock"
    /\ wio' = w /\ stage' = [stage EXCEPT ![w] = "header"]
    /\ UNCHANGED <<ws, frames, reading, reply, buf, out, writes, peer>>

Lock(w) ==
    /\ stage[w] = "lock" /\ wio = "none"
    /\ wio' = w /\ stage' = [stage EXCEPT ![w] = "header"]
    /\ UNCHANGED <<ws, frames, reading, reply, buf, out, writes, peer>>

\* The header, then the payload, into the buffered writer.
PutPiece(w) ==
    /\ stage[w] \in {"header", "payload"}
    /\ buf' = Append(buf, <<w, stage[w]>>)
    /\ stage' = [stage EXCEPT ![w] = IF stage[w] = "header" THEN "payload" ELSE "flush"]
    /\ UNCHANGED <<ws, frames, reading, reply, wio, out, writes, peer>>

\* What follows when w's frame is out, or cannot be: a packet's error goes to
\* outgoing, which ends; after a pong incoming reads on if there was no error; after
\* a close frame of its own it ends with EOF; Close closes the connection only when
\* its frame is out.
After(w, ok) ==
    /\ stage' = [stage EXCEPT ![w] = CASE w = "closer" -> IF ok THEN "close" ELSE "failed"
                                 [] w = "outgoing" -> IF ok THEN "idle" ELSE "ended"
                                 [] w = "incoming" -> "idle"]
    /\ readEnd' = CASE w = "incoming" /\ reply = "close" -> "eof"
                    [] w = "incoming" /\ reply = "pong" /\ ~ok -> "error"
                    [] OTHER -> readEnd
    /\ UNCHANGED ws

Fails == peer = "gone" \/ ws = "closed"

\* Mutant: the error path of a write leaves the lock.
FlushKeepsLock(w) ==
    /\ stage[w] = "flush"
    /\ \/ ~Fails /\ peer = "reading" /\ out' = out \o buf /\ buf' = <<>> /\ wio' = "none"
          /\ After(w, TRUE)
       \/ Fails /\ UNCHANGED <<wio, buf, out>> /\ After(w, FALSE)
    /\ UNCHANGED <<frames, next, left, got, reply, writes, peer>>

\* Flush and the deferred unlock.  It waits while the peer takes nothing.
Flush(w) ==
    /\ stage[w] = "flush"
    /\ \/ ~Fails /\ peer = "reading" /\ out' = out \o buf /\ buf' = <<>> /\ After(w, TRUE)
       \/ Fails /\ UNCHANGED <<buf, out>> /\ After(w, FALSE)
    /\ wio' = "none"
    /\ UNCHANGED <<frames, next, left, got, reply, writes, peer>>

\* The close frame is out: rwc.Close().
CloseSocket ==
    /\ stage["closer"] = "close"
    /\ ws' = "closed" /\ stage' = [stage EXCEPT !["closer"] = "done"]
    /\ UNCHANGED <<frames, reading, reply, wio, buf, out, writes, peer>>

\* The peer stops taking what is written, goes on, or is gone.
Peer ==
    /\ peer # "gone" /\ peer' \in {"reading", "stalled", "gone"} \ {peer}
    /\ UNCHANGED <<ws, frames, reading, writing>>

Reader == ReadPayload \/ ReadFrame \/ ReadEnds
Writer(w) == Lock(w) \/ PutPiece(w) \/ Flush(w)
SocketNext == Handshake \/ Reader \/ Write \/ Close \/ CloseSocket \/ Peer \/ \E w \in Writers : Writer(w)

\* Goroutines run on: what incoming can read it reads, and a writer that has started
\* goes on as far as the lock and the peer let it.
SocketFairness ==
    /\ WF_socketVars(Reader) /\ WF_socketVars(CloseSocket)
    /\ \A w \in Writers : WF_socketVars(Writer(w))

SocketSpec == SocketInit /\ [][SocketNext]_socketVars /\ SocketFairness

-----------------------------------------------------------------------------
\* The frames before the first that ends reading, and the bytes of data in them: <<n, i>>
\* is byte i of frame n.
Ending(f) == f.masked \/ f.op \in {"close", "pong"} \/ (f.op = "ping" /\ f.payload = <<>>)
Carried == {n \in DOMAIN frames : frames[n].op \in Data /\ \A i \in 1..n : ~Ending(frames[i])}
Bytes == UNION {{n} \X DOMAIN frames[n].payload : n \in Carried}

\* A byte comes as many-th as there are bytes up to it.
UpTo(b) == {c \in Bytes : c[1] < b[1] \/ (c[1] = b[1] /\ c[2] <= b[2])}
Place(b) == Cardinality(UpTo(b))

\* The stream of bytes MQTT sees is the data frames' payload in order, whatever the
\* fragments and the pings between them, and ends at the first frame that is not read:
\* a close, a masked frame, a pong, or a ping without payload, which is a legal
\* ping.  On the wire every header is followed by its own payload, and one close frame of
\* Close goes out at most.
FramesKept ==
    /\ \A b \in Bytes : Place(b) <= Len(got) => got[Place(b)] = frames[b[1]].payload[b[2]]
    /\ Len(got) <= Cardinality(Bytes)
    /\ readEnd = "eof" => Len(got) = Cardinality(Bytes)
    /\ \A i \in DOMAIN out : out[i][2] = "header" =>
          i < Len(out) /\ out[i + 1] = <<out[i][1], "payload">>
    /\ \A i, j \in DOMAIN out : out[i] = <<"closer", "header">> /\ out[j] = out[i] => i = j

\* Close ends the reading of incoming, unless the peer no longer takes what is written:
\* then a writer holds the lock for ever, Close waits for it, and the connection that
\* keepalive found dead is never closed.
CloseEndsReading ==
    stage["closer"] # "idle" ~>
        (peer = "stalled" \/ (stage["closer"] \in {"done", "failed"} /\ readEnd # "no"))
=============================================================================
