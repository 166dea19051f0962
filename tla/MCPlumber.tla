------------------------------ MODULE MCPlumber ------------------------------
(* Small instances of Plumber for TLC. *)
EXTENDS Plumber
=============================================================================
