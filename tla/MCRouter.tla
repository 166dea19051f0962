------------------------------ MODULE MCRouter ------------------------------
(* Two filters under one another, one beside them, and three topics.       *)
EXTENDS Router

MCMatches(filter, topic) ==
    filter = topic \/ <<filter, topic>> \in {<<"a/#", "a/b">>, <<"a/#", "a/c">>}
=============================================================================
