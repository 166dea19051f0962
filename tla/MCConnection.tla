----------------------------- MODULE MCConnection -----------------------------
(* Situations for TLC to look at.                                          *)
EXTENDS Connection

S(k, a, t, c, f) ==
    [keepAlive |-> k, autoReconnect |-> a, traffic |-> t, call |-> c, fault |-> f]

\* All but those of keepalive beside an application that writes, and of a
\* silent connection that nobody pings.
Mixed == {s \in Setup : ~(s.keepAlive /\ s.traffic) /\ (s.fault = "mute" => s.keepAlive)}

\* Those with a sole witness of a loss, calls on a working connection, and one
\* of an application that writes.
Simple ==
    {S(FALSE, a, FALSE, "none", "reset") : a \in BOOLEAN}
    \cup {S(TRUE, a, FALSE, "none", "mute") : a \in BOOLEAN}
    \cup {S(FALSE, a, FALSE, c, "none") : a \in BOOLEAN, c \in {"Disconnect", "ForceDisconnect"}}
    \cup {S(FALSE, FALSE, TRUE, "none", "reset")}

\* Two goroutines notice a reset.
Writing == {S(FALSE, TRUE, TRUE, "none", "reset")}

\* Disconnect may meet a reconnect.
Disconnecting == {S(FALSE, TRUE, FALSE, "Disconnect", "reset")}

\* Bound: keepalive, where it is not the sole witness of a loss, makes for many
\* states, of which those up to the opening of a third connection are looked at.
Explored ==
    setup.keepAlive /\ ~(setup.call = "none" /\ setup.fault = "mute")
        => \A s \in Conns : s > 2 => starting[s] = "no"
=============================================================================
