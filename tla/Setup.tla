------------------------------- MODULE Setup --------------------------------
(***************************************************************************)
(* How the client gets to a server: the loop over options.Servers that     *)
(* Connect and reconnect share, with MQTT 3.1.1 first and 3.1 after a      *)
(* refusal, and reconnect's back-off.  What a server does with a           *)
(* connection is its kind, and that may change between attempts:           *)
(*   down     nobody listens                both   accepts either version  *)
(*   silent   never answers CONNECT         v3     accepts 3.1, refuses    *)
(*   hangup   closes instead of answering          3.1.1; v4 the reverse   *)
(*   other    answers with another packet   refuse, odd  a CONNACK with a  *)
(*                                          known, an unknown return code  *)
(***************************************************************************)
EXTENDS Integers, Sequences

CONSTANTS Serverss,              \* the lists of servers to look at, as kinds
          ServerKinds,           \* what a server may change into
          MaxReconnectInterval,  \* in seconds
          MaxChanges, MaxLosses  \* bounds: changes of a kind, connections lost

ASSUME SetupAssumption ==
    /\ Serverss \subseteq Seq(ServerKinds)
    /\ MaxReconnectInterval \in Nat \ {0}

Accepted == 0
BadProtocolVersion == 1
NotAuthorised == 5
Unknown == 6
NetworkError == 254

VARIABLES servers,  \* their kinds now
          chosen,   \* SetProtocolVersion: 3, 4, or 0 if it was not called
          version,  \* options.ProtocolVersion
          mode,     \* who runs the loop: "Connect" or "reconnect"
          phase,    \* "dial", "connack", "ended"; then "up" or "failed"; or "panic"
          at,       \* the server in hand
          dialled,  \* its kind when it was dialled
          conn,     \* c.conn: the server's number, 0 is nil
          rc,       \* the return code
          token,    \* Connect's: "open", "done", "error"
          sleep,    \* the next wait of reconnect, in seconds
          changes, drops

setupVars == <<servers, chosen, version, mode, phase, at, dialled, conn, rc, token, sleep,
               changes, drops>>

SetupInit ==
    /\ servers \in Serverss
    /\ chosen \in {0, 3, 4} /\ version = chosen
    /\ mode = "Connect" /\ phase = "dial" /\ at = 1 /\ dialled = "down" /\ conn = 0
    /\ rc = 0 /\ token = "open" /\ sleep = 1 /\ changes = 0 /\ drops = 0

protocolVersionExplicit == chosen # 0

\* openConnection and, if there is a connection, CONNECT in the version it is at.
Dial ==
    /\ phase = "dial"
    /\ \/ at > Len(servers) /\ phase' = "ended" /\ UNCHANGED <<version, at, dialled, conn, rc>>
       \/ /\ at <= Len(servers) /\ servers[at] = "down"
          /\ conn' = 0 /\ rc' = NetworkError /\ at' = at + 1
          /\ UNCHANGED <<version, phase, dialled>>
       \/ /\ at <= Len(servers) /\ servers[at] # "down"
          /\ conn' = at /\ dialled' = servers[at] /\ phase' = "connack"
          /\ version' = IF version = 3 THEN 3 ELSE 4
          /\ UNCHANGED <<at, rc>>
    /\ UNCHANGED <<servers, chosen, mode, token, sleep, changes, drops>>

\* The return code a server answers with.
answer(kind, v) ==
    CASE kind = "both" \/ <<kind, v>> \in {<<"v3", 3>>, <<"v4", 4>>} -> Accepted
      [] <<kind, v>> \in {<<"v3", 4>>, <<"v4", 3>>} -> BadProtocolVersion
      [] kind = "refuse" -> NotAuthorised
      [] kind = "odd" -> Unknown
      [] OTHER -> NetworkError

\* connect() has read: there is no time limit, so a silent server has to be restarted
\* for the read to fail.
connect ==
    /\ dialled # "other" /\ (dialled = "silent" => servers[at] # "silent")
    /\ rc' = answer(dialled, version)

\* Mutant: no fallback to MQTT 3.1.
ConnackNoFallback ==
    /\ phase = "connack" /\ connect
    /\ conn' = IF rc' = Accepted THEN conn ELSE 0
    /\ IF rc' # Accepted /\ protocolVersionExplicit
       THEN at' = at + 1 /\ phase' = "dial"
       ELSE phase' = "ended" /\ UNCHANGED at
    /\ UNCHANGED <<servers, chosen, version, mode, dialled, token, sleep, changes, drops>>

\* A refusal goes on to the next server only if the version was chosen; otherwise the
\* same server is tried with MQTT 3.1, now and ever after, and then the loop is left.
Connack ==
    /\ phase = "connack" /\ connect
    /\ conn' = IF rc' = Accepted THEN conn ELSE 0
    /\ \/ rc' # Accepted /\ protocolVersionExplicit
          /\ at' = at + 1 /\ phase' = "dial" /\ UNCHANGED version
       \/ rc' # Accepted /\ ~protocolVersionExplicit /\ version = 4
          /\ version' = 3 /\ phase' = "dial" /\ UNCHANGED at
       \/ (rc' = Accepted \/ (~protocolVersionExplicit /\ version = 3))
          /\ phase' = "ended" /\ UNCHANGED <<at, version>>
    /\ UNCHANGED <<servers, chosen, mode, dialled, token, sleep, changes, drops>>

\* The answer is asserted to be a CONNACK.
ConnackOther ==
    /\ phase = "connack" /\ dialled = "other" /\ phase' = "panic"
    /\ UNCHANGED <<servers, chosen, version, mode, at, dialled, conn, rc, token, sleep, changes,
                   drops>>

\* Connect completes its token, with ConnErrors' entry for the return code if there is
\* no connection; a code without an entry is no error.
Complete ==
    /\ phase = "ended" /\ mode = "Connect"
    /\ phase' = IF conn = 0 THEN "failed" ELSE "up"
    /\ token' = IF conn = 0 /\ rc \notin {Accepted, Unknown} THEN "error" ELSE "done"
    /\ UNCHANGED <<servers, chosen, version, mode, at, dialled, conn, rc, sleep, changes, drops>>

\* Mutant: the wait doubles with every attempt.
nextSleepUnbounded == 2 * sleep

nextSleep == IF sleep <= MaxReconnectInterval THEN 2 * sleep ELSE sleep

\* reconnect goes on when a server accepted; else it waits and starts over.
Retry ==
    /\ phase = "ended" /\ mode = "reconnect"
    /\ IF rc = Accepted THEN phase' = "up" /\ UNCHANGED <<at, sleep>>
       ELSE phase' = "dial" /\ at' = 1 /\ sleep' = nextSleep
    /\ UNCHANGED <<servers, chosen, version, mode, dialled, conn, rc, token, changes, drops>>

\* The connection is lost; internalConnLost starts reconnect (the subject of Connection).
Lost ==
    /\ phase = "up" /\ drops < MaxLosses
    /\ drops' = drops + 1
    /\ mode' = "reconnect" /\ phase' = "dial" /\ at' = 1 /\ rc' = 1 /\ sleep' = 1
    /\ UNCHANGED <<servers, chosen, version, dialled, conn, token, changes>>

Change ==
    /\ changes < MaxChanges /\ changes' = changes + 1
    /\ \E i \in DOMAIN servers, k \in ServerKinds :
          k # servers[i] /\ servers' = [servers EXCEPT ![i] = k]
    /\ UNCHANGED <<chosen, version, mode, phase, at, dialled, conn, rc, token, sleep, drops>>

Client == Dial \/ Connack \/ ConnackOther \/ Complete \/ Retry
SetupNext == Client \/ Lost \/ Change

\* The goroutine of Connect or reconnect runs on.
SetupFairness == WF_setupVars(Client)

SetupSpec == SetupInit /\ [][SetupNext]_setupVars /\ SetupFairness

-----------------------------------------------------------------------------
\* The versions an attempt goes through, and whether a server accepts one of them.
Tries == IF protocolVersionExplicit THEN {chosen} ELSE IF version = 3 THEN {3} ELSE {3, 4}
Takes(i) == \E v \in Tries : answer(servers[i], v) = Accepted

\* A server that takes the client, and before it none that keeps the client.
Reachable == \E i \in DOMAIN servers :
    /\ Takes(i)
    /\ \A j \in 1..i-1 : \/ servers[j] = "down"
                         \/ protocolVersionExplicit /\ servers[j] \notin {"silent", "other"}

\* If no server changes, Connect fails only if none can be reached: each one that would
\* take the client stands behind one that refuses it (the loop is left at a refusal
\* unless the version was chosen).  A token completes without an error and without a
\* connection only if there are no servers or the return code is unknown.  Nothing but
\* a packet that is no CONNACK makes the client panic.  The waits grow to at most twice
\* MaxReconnectInterval.  And c.conn is a server that accepted.
SetupOutcome ==
    /\ phase = "failed" /\ changes = 0 => ~Reachable
    /\ token = "done" => mode = "reconnect" \/ conn # 0 \/ servers = <<>> \/ rc = Unknown
    /\ phase = "failed" => conn = 0
    /\ phase = "up" => /\ answer(dialled, version) = Accepted
                       /\ protocolVersionExplicit => version = chosen
    /\ phase = "panic" => dialled = "other"
    /\ sleep <= 2 * MaxReconnectInterval

\* reconnect does not go on for ever while a server can be reached.  Reachable looks
\* at the version the client has come down to: a server that knows only 3.1.1 is lost
\* to a client that was refused once, for whatever reason.
Reconnecting == mode = "reconnect" /\ phase \notin {"up", "panic"}
SetupReconnects == []<>~(Reconnecting /\ Reachable)
=============================================================================
