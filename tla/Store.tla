------------------------------- MODULE Store --------------------------------
(***************************************************************************)
(* paho's message stores under the packets of its exchanges: persistOut-   *)
(* bound and persistInbound decide what a packet puts or deletes, and the  *)
(* store does it, in memory at once, in files step by step with a copy of  *)
(* what it overwrites.  The process may die between any two steps and open *)
(* its files again.  One identifier is followed: the keys are "o" and "i". *)
(* A file holds the packet that was written, or is "broken": created, and  *)
(* not written.                                                            *)
(***************************************************************************)
EXTENDS Integers, Sequences

CONSTANTS StoreKinds,   \* the kinds of store: "file", "memory"
          MaxFlows,     \* bound: exchanges begun
          MaxCrashes    \* bound: deaths of the process

Keys == {"o", "i"}

P(dir, type, qos) == [dir |-> dir, type |-> type, qos |-> qos]

\* The exchanges under a key: their packets, with Details().Qos, in order.
Exchanges(k) ==
    IF k = "o"
    THEN {<<P("out", "PUBLISH", 1), P("in", "PUBACK", 0)>>,
          <<P("out", "PUBLISH", 2), P("in", "PUBREC", 0), P("out", "PUBREL", 1), P("in", "PUBCOMP", 0)>>,
          <<P("out", "SUBSCRIBE", 1), P("in", "SUBACK", 0)>>,
          <<P("out", "UNSUBSCRIBE", 1), P("in", "UNSUBACK", 0)>>}
    ELSE {<<P("in", "PUBLISH", 1), P("out", "PUBACK", 0)>>,
          <<P("in", "PUBLISH", 2), P("out", "PUBREC", 0), P("in", "PUBREL", 1), P("out", "PUBCOMP", 0)>>}

VARIABLES kind,      \* of the store
          opened,    \* the store is open
          msg, bkp,  \* the files .msg and .bkp of a key, "none" if there is none; a memory
                     \* store has its map in msg
          op,        \* the operation under the lock: [at, key, new]
          flow,      \* the packets of a key's exchange still to come
          last,      \* the packet of the last Put that returned, "none" after Del
          cut,       \* how many Puts of the key a death has cut short since
          flows, crashes

storeVars == <<kind, opened, msg, bkp, op, flow, last, cut, flows, crashes>>

Idle == [at |-> "idle", key |-> "o", new |-> "none"]

StoreInit ==
    /\ kind \in StoreKinds /\ opened = FALSE
    /\ msg = [k \in Keys |-> "none"] /\ bkp = [k \in Keys |-> "none"]
    /\ op = Idle /\ flow = [k \in Keys |-> <<>>]
    /\ last = [k \in Keys |-> "none"] /\ cut = [k \in Keys |-> 0]
    /\ flows = 0 /\ crashes = 0

-----------------------------------------------------------------------------
(* Which packets are kept.                                                 *)

persistOutbound(p) ==
    CASE p.qos = 0 /\ p.type \in {"PUBACK", "PUBCOMP"} -> [do |-> "del", key |-> "i"]
      [] p.qos = 0 /\ p.type \notin {"PUBACK", "PUBCOMP"} -> [do |-> "nothing"]
      [] p.qos = 1 /\ p.type \in {"PUBLISH", "PUBREL", "SUBSCRIBE", "UNSUBSCRIBE"}
            -> [do |-> "put", key |-> "o"]
      [] p.qos = 2 /\ p.type = "PUBLISH" -> [do |-> "put", key |-> "o"]
      [] OTHER -> [do |-> "panic"]

\* Mutant: the answer that ends an exchange of QoS 2 is overlooked.
persistInboundNoPubcomp(p) ==
    CASE p.qos = 0 /\ p.type \in {"PUBACK", "SUBACK", "UNSUBACK"} -> [do |-> "del", key |-> "o"]
      [] p.qos = 0 /\ p.type \in {"PUBCOMP", "PUBREC"} -> [do |-> "nothing"]
      [] p.qos = 1 /\ p.type \in {"PUBLISH", "PUBREL"} -> [do |-> "put", key |-> "i"]
      [] p.qos = 2 /\ p.type = "PUBLISH" -> [do |-> "put", key |-> "i"]
      [] OTHER -> [do |-> "panic"]

persistInbound(p) ==
    CASE p.qos = 0 /\ p.type \in {"PUBACK", "SUBACK", "UNSUBACK", "PUBCOMP"}
            -> [do |-> "del", key |-> "o"]
      [] p.qos = 0 /\ p.type \in {"PUBLISH", "PUBREC", "PINGRESP", "CONNACK"} -> [do |-> "nothing"]
      [] p.qos = 1 /\ p.type \in {"PUBLISH", "PUBREL"} -> [do |-> "put", key |-> "i"]
      [] p.qos = 2 /\ p.type = "PUBLISH" -> [do |-> "put", key |-> "i"]
      [] OTHER -> [do |-> "panic"]

\* An exchange begins when its key is free.
Begin(k) ==
    /\ opened /\ op = Idle /\ flow[k] = <<>> /\ flows < MaxFlows
    /\ \E ps \in Exchanges(k) : flow' = [flow EXCEPT ![k] = ps]
    /\ flows' = flows + 1
    /\ UNCHANGED <<kind, opened, msg, bkp, op, last, cut, crashes>>

\* Its next packet is persisted, and with it the store locked.
Persist(k) ==
    /\ opened /\ op = Idle /\ flow[k] # <<>>
    /\ LET p == Head(flow[k])
           todo == IF p.dir = "out" THEN persistOutbound(p) ELSE persistInbound(p)
       IN  op' = CASE todo.do = "put" -> [at |-> "put", key |-> todo.key, new |-> p.type]
                   [] todo.do = "del" -> [at |-> "del", key |-> todo.key, new |-> "none"]
                   [] todo.do = "nothing" -> Idle
                   [] todo.do = "panic" -> [at |-> "panic", key |-> k, new |-> "none"]
    /\ flow' = [flow EXCEPT ![k] = Tail(@)]
    /\ UNCHANGED <<kind, opened, msg, bkp, last, cut, flows, crashes>>

-----------------------------------------------------------------------------
(* The store at work.                                                      *)

Goes(at) == op' = [op EXCEPT !.at = at]

\* What a Put or a Del that returns leaves behind.
Returns(k, v) ==
    /\ op' = Idle /\ last' = [last EXCEPT ![k] = v] /\ cut' = [cut EXCEPT ![k] = 0]

Open ==
    /\ ~opened /\ opened' = TRUE
    /\ UNCHANGED <<kind, msg, bkp, op, flow, last, cut, flows, crashes>>

MemoryStep ==
    /\ kind = "memory" /\ op.at \in {"put", "del"}
    /\ msg' = [msg EXCEPT ![op.key] = op.new] /\ Returns(op.key, op.new)
    /\ UNCHANGED <<kind, opened, bkp, flow, flows, crashes>>

\* Mutant: no copy of what is overwritten.
PutUnsafe ==
    /\ kind = "file" /\ op.at = "put"
    /\ Goes("create")
    /\ UNCHANGED <<kind, opened, msg, bkp, flow, last, cut, flows, crashes>>

Put ==
    /\ kind = "file" /\ op.at = "put"
    /\ Goes(IF msg[op.key] = "none" THEN "create" ELSE "backup")
    /\ UNCHANGED <<kind, opened, msg, bkp, flow, last, cut, flows, crashes>>

\* backup creates the .bkp file, then copies the .msg file into it.
backup ==
    /\ \/ op.at = "backup" /\ bkp' = [bkp EXCEPT ![op.key] = "broken"] /\ Goes("copy")
       \/ op.at = "copy" /\ bkp' = [bkp EXCEPT ![op.key] = msg[op.key]] /\ Goes("createOver")
    /\ UNCHANGED <<kind, opened, msg, flow, last, cut, flows, crashes>>

\* write creates, and so empties, the .msg file; then one Write fills it.
write ==
    \/ /\ op.at \in {"create", "createOver"}
       /\ msg' = [msg EXCEPT ![op.key] = "broken"]
       /\ Goes(IF op.at = "create" THEN "write" ELSE "writeOver")
       /\ UNCHANGED <<kind, opened, bkp, flow, last, cut, flows, crashes>>
    \/ /\ op.at \in {"write", "writeOver"}
       /\ msg' = [msg EXCEPT ![op.key] = op.new]
       /\ IF op.at = "write" THEN Returns(op.key, op.new)
          ELSE Goes("unbackup") /\ UNCHANGED <<last, cut>>
       /\ UNCHANGED <<kind, opened, bkp, flow, flows, crashes>>

unbackup ==
    /\ op.at = "unbackup"
    /\ bkp' = [bkp EXCEPT ![op.key] = "none"] /\ Returns(op.key, op.new)
    /\ UNCHANGED <<kind, opened, msg, flow, flows, crashes>>

\* del removes the .msg file only.
del ==
    /\ kind = "file" /\ op.at = "del"
    /\ msg' = [msg EXCEPT ![op.key] = "none"] /\ Returns(op.key, "none")
    /\ UNCHANGED <<kind, opened, bkp, flow, flows, crashes>>

\* A clean session's Reset deletes what all() lists, one key at a time; a key is
\* listed for either of its files.  The client resets right after opening.
Reset ==
    /\ opened /\ op = Idle /\ \A k \in Keys : flow[k] = <<>>
    /\ \E k \in Keys :
          /\ msg[k] # "none" \/ (kind = "file" /\ bkp[k] # "none")
          /\ msg' = [msg EXCEPT ![k] = "none"] /\ Returns(k, "none")
    /\ UNCHANGED <<kind, opened, bkp, flow, flows, crashes>>

\* The process dies: files stay as they are, memory does not.
Crash ==
    /\ opened /\ crashes < MaxCrashes
    /\ crashes' = crashes + 1 /\ opened' = FALSE /\ op' = Idle
    /\ flow' = [k \in Keys |-> <<>>]
    /\ cut' = IF op.at \in {"idle", "put", "del"} THEN cut ELSE [cut EXCEPT ![op.key] = @ + 1]
    /\ IF kind = "file" THEN UNCHANGED <<msg, last>>
       ELSE /\ msg' = [k \in Keys |-> "none"] /\ last' = [k \in Keys |-> "none"]
    /\ UNCHANGED <<kind, bkp, flows>>

StoreNext ==
    \/ \E k \in Keys : Begin(k) \/ Persist(k)
    \/ Open \/ MemoryStep \/ Put \/ backup \/ write \/ unbackup \/ del \/ Reset \/ Crash

StoreSpec == StoreInit /\ [][StoreNext]_storeVars

-----------------------------------------------------------------------------
\* While an exchange is open the store holds the packet it waits with, and one Get
\* gives it back; when its last packet has passed the store has nothing under its
\* key.  No packet of an exchange makes the store panic.
InFlightKept ==
    /\ op.at # "panic"
    /\ opened /\ op = Idle => \A k \in Keys :
          /\ cut[k] = 0 => msg[k] = last[k]
          /\ flow[k] # <<>> /\ Head(flow[k]).type \in {"PUBACK", "SUBACK", "UNSUBACK", "PUBREC"}
                => msg[k] \in {"PUBLISH", "SUBSCRIBE", "UNSUBSCRIBE"}
          /\ flow[k] # <<>> /\ Head(flow[k]).type = "PUBCOMP" => msg[k] = "PUBREL"
          /\ flow[k] = <<>> /\ crashes = 0 => msg[k] = "none" /\ bkp[k] = "none"

Whole(c) == c \notin {"none", "broken"}

\* The files survive a death at any step of a Put: a whole packet is in .msg or in
\* .bkp, the old one or the new one.  That ends with the next Put, which copies a
\* broken .msg over the good .bkp: nobody calls restore in between.
SurvivesOneCrash ==
    kind = "file" => \A k \in Keys :
        last[k] # "none" /\ (cut[k] = 0 \/ (cut[k] = 1 /\ (op = Idle \/ op.key # k)))
            => Whole(msg[k]) \/ Whole(bkp[k])
=============================================================================
