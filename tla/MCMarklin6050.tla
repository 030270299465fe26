--------------------------- MODULE MCMarklin6050 ---------------------------
(***************************************************************************)
(* One loco and one accessory for TLC, with a session for each way of      *)
(* sending: at once and repeated; queued and repeated; queued, watching    *)
(* and waiting for CTS; queued with the warnings ignored.                  *)
(***************************************************************************)
EXTENDS Marklin6050

CONSTANTS l1, a1

MCLoco == {l1}
MCAccessory == {a1}
Direct == [commandQueue |-> FALSE, redundancy |-> 1, ignoreWarnings |-> FALSE,
           crashDetection |-> FALSE, waitForCts |-> FALSE]
Queued == [Direct EXCEPT !.commandQueue = TRUE]
Watched == [Queued EXCEPT !.redundancy = 0, !.crashDetection = TRUE, !.waitForCts = TRUE]
Ignored == [Queued EXCEPT !.redundancy = 0, !.ignoreWarnings = TRUE]
MCConfig == {Direct, Queued, Watched, Ignored}
MCDeviceConfig == {Direct, Queued}

\* The settings under which a stop is overtaken.
Repeated == [Direct EXCEPT !.redundancy = 2]
MCStopConfig == {Queued, Repeated}
=============================================================================
