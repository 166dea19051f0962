---- MODULE MCMessageIds ----
EXTENDS MessageIds
====
