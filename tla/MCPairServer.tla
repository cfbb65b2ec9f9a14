---------------------------- MODULE MCPairServer -----------------------------
(* Small instances of PairServer for TLC: see the .cfg files.              *)
EXTENDS PairServer, TLC

CONSTANTS r1, r2

TwoRequests   == {r1, r2}
ThreeEngines  == 1 .. 3

Pairs(k1, k2) == [r \in {r1, r2} |-> IF r = r1 THEN k1 ELSE k2]

(* Every two requests, up to their order (requests are interchangeable),   *)
(* but two resets, whose three loops make the instance three times larger; *)
(* and every request with every command.                                   *)
KindOrder  == <<"toggle", "delete", "edit", "trigger", "reset">>
TwoOfKinds == {Pairs(KindOrder[i], KindOrder[j]) : <<i, j>> \in
                  {x \in (1 .. 5) \X (1 .. 5) : x[1] <= x[2] /\ x[1] # 5}}
              \cup {Pairs(k, c) : k \in Kinds \ Commands, c \in Commands}
TriggerAndToggle == {Pairs("trigger", "toggle")}
JustReset        == {Pairs("reset", "edit")}

(* The pair is enabled at the start: what a toggle asks for is a Pause.    *)
EnabledSpec == Init /\ row.enabled /\ [][Next]_vars
=============================================================================
