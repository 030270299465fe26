-------------------------- MODULE MCTrainControl --------------------------
(***************************************************************************)
(* Two trains, two throttles and a locomotive that both may list, for TLC. *)
(* The decoder has fewer steps than the train has speeds.                  *)
(***************************************************************************)
EXTENDS TrainControl, TLC

CONSTANTS t1, t2, v1, h1, h2

MCTrain == {t1, t2}
MCVehicle == {v1}
MCPowered == {v1}
MCThrottle == {h1, h2}
MCSymmetry == Permutations(MCTrain) \cup Permutations(MCThrottle)
MCNotch == [s \in 0..MaxSpeed |-> s \div 2]
=============================================================================
