---------------------------- MODULE MCWorkerPool -----------------------------
(* Small instances of WorkerPool for TLC: see the .cfg files.              *)
EXTENDS WorkerPool, TLC

CONSTANTS m1, m2, e1, e2, w1, w2

TwoWorkers == {w1, w2}
TwoKeys    == 1 .. 2
OneMeta    == {m1}
TwoMetas   == {m1, m2}
OneETag    == {e1}
TwoETags   == {e1, e2}
FirstETag  == [m \in {m1} |-> e1]
OwnETag    == [m \in {m1, m2} |-> IF m = m1 THEN e1 ELSE e2]

NoPoolFaults  == {}
AllPoolFaults == PoolFaultKinds
=============================================================================
