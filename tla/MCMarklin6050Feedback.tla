----------------------- MODULE MCMarklin6050Feedback -----------------------
(***************************************************************************)
(* Two S88 modules and an event with an address and one without for TLC.   *)
(***************************************************************************)
EXTENDS Marklin6050Feedback, TLC

CONSTANTS e1, e2

MCEvent == {e1, e2}
MCKindOf == (e1 :> "turnout") @@ (e2 :> "global")
=============================================================================
