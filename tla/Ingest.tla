------------------------------- MODULE Ingest --------------------------------
(***************************************************************************)
(* What mqtt-plumber promises about the messages of its watched topics,    *)
(* with no goroutine, channel or packet in sight: a tap between the broker *)
(* and the database.  Messages are taken in the order the broker sent      *)
(* them; each is stored once, or passed over.  Only a kept session allows  *)
(* passing over: a duplicate always, and any message that came before its  *)
(* topic had a route.  The broker may be told that it can forget a message *)
(* before the tap has taken it, but never more than Window messages ahead: *)
(* that many confirmed messages are what a crash can cost.                 *)
(***************************************************************************)
EXTENDS Integers, Sequences

CONSTANTS Kept,      \* the broker keeps a session for the client
          Window     \* how far confirmations may run ahead

VARIABLES sent,      \* for every message sent, whether it is flagged duplicate
          taken,     \* how many of them the tap is done with
          stored,    \* the messages stored, by number
          confirmed  \* the messages confirmed to the broker

ivars == <<sent, taken, stored, confirmed>>

IInit == sent = <<>> /\ taken = 0 /\ stored = <<>> /\ confirmed = {}

Send(dup) ==
    /\ dup => Kept
    /\ sent' = Append(sent, dup)
    /\ UNCHANGED <<taken, stored, confirmed>>

Take ==
    /\ taken < Len(sent)
    /\ taken' = taken + 1
    /\ \/ ~sent[taken + 1] /\ stored' = Append(stored, taken + 1)
       \/ Kept /\ UNCHANGED stored
    /\ UNCHANGED <<sent, confirmed>>

Confirm(n) ==
    /\ n <= taken + Window
    /\ confirmed' = confirmed \cup {n}
    /\ UNCHANGED <<sent, taken, stored>>

INext == (\E dup \in BOOLEAN : Send(dup)) \/ Take \/ (\E n \in DOMAIN sent : Confirm(n))

ISpec == IInit /\ [][INext]_ivars
=============================================================================
