---------------------------- MODULE MCJunction ----------------------------
(***************************************************************************)
(* A junction for TLC: block b1 faces a turnout behind which lie b2 and    *)
(* b3. Side B of b1 meets side A of the other two. The path of b3's other  *)
(* side leads around to side A of b1: it passes over the one to b2 on a    *)
(* bridge, so that both can be reserved, and crosses the one to b3 at a    *)
(* level. Block b3 has no sensor.                                          *)
(***************************************************************************)
EXTENDS Reservations

CONSTANTS b1, b2, b3, t1, t2, p12, p13, p31, w, cross, bridge

MCBlock == {b1, b2, b3}
MCTrain == {t1, t2}
MCPath == {p12, p13, p31}
MCElement == {w, cross, bridge}
MCFrom == p12 :> b1 @@ p13 :> b1 @@ p31 :> b3
MCTo == p12 :> b2 @@ p13 :> b3 @@ p31 :> b1
MCFromSide == p12 :> "B" @@ p13 :> "B" @@ p31 :> "B"
MCToSide == p12 :> "A" @@ p13 :> "A" @@ p31 :> "A"
MCRoute ==
  p12 :> {<<w, "left">>, <<bridge, "AC">>} @@
  p13 :> {<<w, "right">>, <<cross, "AC">>} @@
  p31 :> {<<cross, "BD">>, <<bridge, "BD">>}
MCKind == w :> "turnout" @@ cross :> "cross" @@ bridge :> "bridge"
MCValues == w :> {"left", "right"} @@ cross :> {} @@ bridge :> {}
MCInputs == b1 :> 1 @@ b2 :> 1 @@ b3 :> 0

\* The trains are alike: no definition names one of them.
TrainSymmetry == Permutations(MCTrain)
=============================================================================
