----------------------------- MODULE MCReplication -----------------------------
(* Instances of Replication for TLC: which pipelines share what, and how   *)
(* much each run allows of each disturbance.                               *)
EXTENDS Replication, TLC

CONSTANTS p1, p2, l1, l2, e1

OneLedger == [p \in Pipelines |-> l1]
TwoLedgers == [p \in Pipelines |-> IF p = p1 THEN l1 ELSE l2]
OneExporter == [p \in Pipelines |-> e1]

None == [f \in Faults |-> 0]
Restarts == [None EXCEPT !["crash"] = 1, !["stop"] = 1, !["fail"] = 1, !["giveup"] = 1]
Resets == [None EXCEPT !["reset"] = 2]
ResetsAndRestarts == [None EXCEPT !["reset"] = 1, !["stop"] = 1, !["crash"] = 1, !["giveup"] = 1]
Updates == [None EXCEPT !["update"] = 2, !["open"] = 1, !["stop"] = 1, !["fail"] = 1, !["giveup"] = 1]
UpdatesAndCrashes == [None EXCEPT !["update"] = 1, !["stop"] = 1, !["open"] = 1, !["crash"] = 1]
Deletions == [None EXCEPT !["delete"] = 2, !["bucket"] = 1, !["open"] = 1, !["crash"] = 1, !["reset"] = 1]
UpdateOfDeleted == [None EXCEPT !["update"] = 1, !["bucket"] = 1, !["delete"] = 1, !["giveup"] = 1]

ExportFaults == {Restarts, Resets, ResetsAndRestarts}
ExporterFaults == {Updates, UpdatesAndCrashes, Deletions, UpdateOfDeleted}
=============================================================================
