---------------------------- MODULE MCStation -----------------------------
(***************************************************************************)
(* A station for TLC: a vertical block s1 with a sensor at either edge and *)
(* one between them, that a direction control lets trains enter from s2;   *)
(* readers identify trains. Both blocks are in the zone yard, and each is  *)
(* in a zone of its own that mutes.                                        *)
(***************************************************************************)
EXTENDS Zones

CONSTANTS s1, s2, t1, entry, d, shed, platform, yard

MCBlock == {s1, s2}
MCTrain == {t1}
MCPath == {entry}
MCElement == {d}
MCFrom == entry :> s2
MCTo == entry :> s1
MCFromSide == entry :> "B"
MCToSide == entry :> "A"
MCRoute == entry :> {<<d, "AtoB">>}
MCKind == d :> "direction"
MCValues == d :> {"AtoB", "both"}
MCInputs == s1 :> 3 @@ s2 :> 1
MCVertical == {s1}
MCZone == {shed, platform, yard}
MCZonesOf == s1 :> {platform, yard} @@ s2 :> {shed, yard}
MCMuting == {shed, platform}
=============================================================================
