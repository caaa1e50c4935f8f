----------------------------- MODULE MCCommand -----------------------------
(***************************************************************************)
(* An instance of Command for TLC: one Command on one Computer.            *)
(***************************************************************************)
EXTENDS Command

CONSTANT c1

One == {c1}
=============================================================================
