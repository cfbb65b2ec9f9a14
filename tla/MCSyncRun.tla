------------------------------ MODULE MCSyncRun ------------------------------
(* Small instances of SyncRun for TLC: see the .cfg files.                 *)
EXTENDS SyncRun, TLC

CONSTANTS e0, e1, e2, e3, w1

OneWorker  == {w1}
TwoKeys    == 1 .. 2
AllETags   == {e0, e1, e2, e3}
VersionETag == [v \in 1 .. MaxVersion |-> IF v = 1 THEN e1 ELSE IF v = 2 THEN e2 ELSE e3]
ThreeVersions == 1 .. 3
NoPoolFaults == {}
ServiceErrors == {"serviceError"}
=============================================================================
