---------------------------- MODULE MCMarklin6023 ----------------------------
(***************************************************************************)
(* The 6023's kernel for TLC: written at once and repeated; queued, with   *)
(* a station that may stop being ready. A command may be given at any      *)
(* time, so that what is repeated into a queue adds nothing.               *)
(***************************************************************************)
EXTENDS Marklin6023

Direct == [commandQueue |-> FALSE, redundancy |-> 1, waitForCts |-> FALSE]
Held == [commandQueue |-> TRUE, redundancy |-> 0, waitForCts |-> TRUE]
MCConfig == {Direct, Held}
=============================================================================
