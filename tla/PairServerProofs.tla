-------------------------- MODULE PairServerProofs ---------------------------
(***************************************************************************)
(* Proofs about PairServer, for any number of requests of any kinds and    *)
(* any bound on the count of errors: types, the agreement of error count   *)
(* and status, and that flags and cancel functions belong to live runs.    *)
(***************************************************************************)
EXTENDS PairServer, FiniteSetTheorems, TLAPS

(* What a process works with while it is there: an engine during a run, a  *)
(* row while a one-shot sync waits for the cache.  Three kinds of requests *)
(* stop the engine.                                                        *)

InCall(p) == pc[p] \in {"enter", "install", "work", "leave"}

Halts(r) == kind[r] \in {"toggle", "reset", "delete"}

Equipped == /\ \A p \in Processes : /\ InCall(p) => eng[p] \in Engines
                                    /\ pc[p] = "open" => copy[p] # NoRow
            /\ \A l \in Engines : eng[l] = l
            /\ \A r \in Requests : pc[r] \in {"halt", "forget"} => Halts(r)

(* Error count and status agree in the row and in every copy of it that    *)
(* may still be written.                                                   *)

Agrees(r) == r # NoRow => (r.errors > 0 <=> r.status = "error")

CopiesAgree == Agrees(row) /\ \A p \in Processes : Agrees(copy[p])

IInv == TypeOK /\ Equipped /\ CopiesAgree /\ RunningMeansRunning /\ CancelsOwnRun

(* The loops' names are positive numbers, and the requests are not.        *)

LEMMA Names ==
    /\ Engines \subseteq Nat \ {0} /\ 1 \in Engines
    /\ \A e \in Engines, i \in Nat : 1 <= i /\ i <= e => i \in Engines
    /\ Engines \subseteq Processes /\ Requests \subseteq Processes
    /\ Requests \cap Engines = {} /\ Nobody \notin Processes
<1>1. Cardinality(Requests) \in Nat
  BY RequestsAssumption, FS_CardinalityType
<1> QED  BY <1>1, EnginesAssumption, RequestsAssumption DEF Processes

(* A row without a status counts no error.                                 *)

LEMMA FreshRowAgrees ==
    ASSUME NEW b \in BOOLEAN
    PROVE  /\ [enabled |-> b, status |-> "", errors |-> 0] \in Row
           /\ Agrees([enabled |-> b, status |-> "", errors |-> 0])
<1> DEFINE r == [enabled |-> b, status |-> "", errors |-> 0]
<1>1. r.enabled = b /\ r.status = "" /\ r.errors = 0
  OBVIOUS
<1>2. r \in Row
  <2>1. "" \in Statuses
    BY DEF Statuses
  <2>2. 0 \in 0 .. MaxErrors
    BY MaxErrorsAssumption
  <2> QED  BY <2>1, <2>2 DEF Row
<1>3. Agrees(r)
  <2>1. "" # "error" /\ ~(0 > 0)
    OBVIOUS
  <2> HIDE DEF r
  <2> QED  BY <1>1, <2>1 DEF Agrees
<1> QED  BY <1>2, <1>3

(* A result written into a row that agrees, or does not, gives one that    *)
(* does.                                                                   *)

LEMMA ResultAgrees ==
    ASSUME NEW r \in Row, NEW s \in Statuses
    PROVE  WithResult(r, s) \in Row /\ Agrees(WithResult(r, s))
<1>1. WithResult(r, s).status = s /\ WithResult(r, s).enabled \in BOOLEAN
  BY DEF WithResult, Row
<1>2. WithResult(r, s).errors \in 0 .. MaxErrors
      /\ (WithResult(r, s).errors > 0 <=> s = "error")
  BY MaxErrorsAssumption DEF WithResult, Row
<1>3. WithResult(r, s) \in Row
  BY <1>1, <1>2, MaxErrorsAssumption DEF WithResult, Row
<1> QED  BY <1>1, <1>2, <1>3 DEF Agrees

-----------------------------------------------------------------------------
(* Flags and cancel functions.  A step that leaves the runs in progress    *)
(* alone preserves what is known of them, also if it stops an engine.      *)

RunsAlone == \A q \in Processes : InRun(q) => pc'[q] = pc[q] /\ eng'[q] = eng[q]

(* A step that leaves the runs in progress, the flags and the cancel       *)
(* functions alone preserves what both properties say of them.             *)

LEMMA QuietStep ==
    ASSUME TypeOK, RunningMeansRunning, CancelsOwnRun, RunsAlone,
           UNCHANGED <<running, canceller>>
    PROVE  RunningMeansRunning' /\ CancelsOwnRun'
<1>1. RunningMeansRunning'
  BY DEF RunningMeansRunning, RunsAlone, InRun
<1>2. ASSUME NEW e \in Engines, canceller[e] # Nobody
      PROVE  eng'[canceller[e]] = e /\ pc'[canceller[e]] \in {"work", "leave"}
  BY <1>2 DEF CancelsOwnRun, TypeOK, RunsAlone, InRun
<1> QED  BY <1>1, <1>2 DEF CancelsOwnRun

(* So does one that stops an engine: it takes a flag and a cancel function *)
(* away.                                                                   *)

LEMMA StopStep ==
    ASSUME TypeOK, RunningMeansRunning, CancelsOwnRun, RunsAlone,
           NEW e \in Engines, StopEngine(e)
    PROVE  RunningMeansRunning' /\ CancelsOwnRun'
<1>1. ASSUME NEW f \in Engines, running'[f]
      PROVE  \E q \in Processes : eng'[q] = f /\ InRun(q)'
  <2>1. running[f]
    BY <1>1 DEF StopEngine, TypeOK
  <2> QED  BY <2>1 DEF RunningMeansRunning, RunsAlone, InRun
<1>2. ASSUME NEW f \in Engines, canceller'[f] # Nobody
      PROVE  eng'[canceller'[f]] = f /\ pc'[canceller'[f]] \in {"work", "leave"}
  <2>1. canceller'[f] = canceller[f] /\ canceller[f] \in Processes
    BY <1>2 DEF StopEngine, TypeOK
  <2> QED  BY <1>2, <2>1 DEF CancelsOwnRun, RunsAlone, InRun
<1> QED  BY <1>1, <1>2 DEF RunningMeansRunning, CancelsOwnRun

-----------------------------------------------------------------------------
(* A run, and what follows it: whoever calls RunOnce.                      *)

LEMMA CallInv ==
    ASSUME IInv, NEW p \in Processes, Call(p) PROVE IInv'
<1> USE DEF IInv
<1>1. CASE EnterRun(p)
  <2>1. eng[p] \in Engines
    BY <1>1 DEF EnterRun, Equipped, InCall
  <2>2. TypeOK'
    BY <1>1, Names DEF EnterRun, TypeOK, Goto, locals
  <2>3. Equipped' /\ CopiesAgree'
    BY <1>1, Names DEF EnterRun, TypeOK, Goto, locals, Equipped, Halts, InCall, CopiesAgree, Agrees
  <2>4. RunsAlone
    BY <1>1 DEF EnterRun, TypeOK, Goto, locals, RunsAlone, InRun
  <2>5. CASE running[eng[p]]
    BY <1>1, <2>4, <2>5, <2>2, <2>3, QuietStep DEF EnterRun
  <2>6. CASE ~running[eng[p]]
    <3>1. /\ running' = [running EXCEPT ![eng[p]] = TRUE]
          /\ pc' = [pc EXCEPT ![p] = "install"] /\ UNCHANGED <<canceller, eng>>
      BY <1>1, <2>6 DEF EnterRun, Goto, locals
    <3>2. RunningMeansRunning'
      BY <2>1, <2>4, <3>1 DEF RunningMeansRunning, TypeOK, RunsAlone, InRun
    <3>3. CancelsOwnRun'
      BY <2>4, <3>1 DEF CancelsOwnRun, TypeOK, RunsAlone, InRun
    <3> QED  BY <2>2, <2>3, <3>2, <3>3
  <2> QED  BY <2>5, <2>6
<1>2. CASE InstallCancel(p)
  <2>1. eng[p] \in Engines
    BY <1>2 DEF InstallCancel, Equipped, InCall
  <2>2. TypeOK'
    BY <1>2, Names DEF InstallCancel, TypeOK, Goto, locals
  <2>3. Equipped' /\ CopiesAgree'
    BY <1>2 DEF InstallCancel, TypeOK, Goto, locals, Equipped, Halts, InCall, CopiesAgree, Agrees
  <2>4. RunningMeansRunning'
    BY <1>2 DEF InstallCancel, TypeOK, Goto, locals, RunningMeansRunning, InRun
  <2>5. CancelsOwnRun'
    BY <1>2, <2>1 DEF InstallCancel, TypeOK, Goto, locals, CancelsOwnRun
  <2> QED  BY <2>2, <2>3, <2>4, <2>5
<1>3. CASE Work(p)
  <2>1. TypeOK'
    <3>1. status' \in [Engines -> Statuses]
      BY <1>3 DEF Work, TypeOK, Statuses
    <3> QED  BY <1>3, <3>1, Names DEF Work, TypeOK, Goto, locals
  <2>2. Equipped' /\ CopiesAgree'
    BY <1>3 DEF Work, TypeOK, Goto, locals, Equipped, Halts, InCall, CopiesAgree, Agrees
  <2>3. RunningMeansRunning' /\ CancelsOwnRun'
    BY <1>3 DEF Work, TypeOK, Goto, locals, RunningMeansRunning, CancelsOwnRun, InRun
  <2> QED  BY <2>1, <2>2, <2>3
<1>4. CASE LeaveRun(p)
  <2>1. eng[p] \in Engines
    BY <1>4 DEF LeaveRun, Equipped, InCall
  <2>2. TypeOK'
    BY <1>4, Names DEF LeaveRun, TypeOK, Goto, locals
  <2>3. Equipped' /\ CopiesAgree'
    BY <1>4 DEF LeaveRun, TypeOK, Goto, locals, Equipped, Halts, InCall, CopiesAgree, Agrees
  <2>4. RunningMeansRunning'
    BY <1>4, <2>1 DEF LeaveRun, TypeOK, Goto, locals, RunningMeansRunning, InRun
  <2>5. CancelsOwnRun'
    BY <1>4, <2>1 DEF LeaveRun, TypeOK, Goto, locals, CancelsOwnRun
  <2> QED  BY <2>2, <2>3, <2>4, <2>5
<1>5. CASE ReadRow(p) \/ WriteResult(p) \/ EndRequest(p)
  <2>1. copy' \in [Processes -> Row \cup {NoRow}] /\ \A q \in Processes : Agrees(copy'[q])
    <3>1. CASE ReadRow(p) /\ copy' # copy
      <4>1. /\ registered \in Engines /\ row \in Row
            /\ copy' = [copy EXCEPT ![p] = WithResult(row, status[registered])]
        BY <3>1 DEF ReadRow, TypeOK
      <4>2. status[registered] \in Statuses
        BY <4>1 DEF TypeOK
      <4> QED  BY <4>1, <4>2, ResultAgrees DEF TypeOK, CopiesAgree
    <3>2. CASE UNCHANGED copy \/ copy' = [copy EXCEPT ![p] = NoRow]
      BY <3>2 DEF TypeOK, CopiesAgree, Agrees
    <3> QED  BY <1>5, <3>1, <3>2 DEF ReadRow, WriteResult, EndRequest
  <2>2. row' \in Row \cup {NoRow} /\ Agrees(row')
    BY <1>5 DEF ReadRow, WriteResult, EndRequest, Update, TypeOK, CopiesAgree, Agrees
  <2>3. /\ pc' = [pc EXCEPT ![p] = pc'[p]] /\ pc'[p] \in {"write", "after", "done"}
        /\ eng' \in [Processes -> Engines \cup {0}]
        /\ \A q \in Processes : q # p => eng'[q] = eng[q] /\ copy'[q] = copy[q]
        /\ UNCHANGED <<engines, kind, ctxDone, rootDone>>
        /\ ~InRun(p) /\ pc[p] # "none"
    BY <1>5 DEF ReadRow, WriteResult, EndRequest, TypeOK, Goto, InRun
  <2>4. TypeOK'
    BY <2>1, <2>2, <2>3, Names DEF TypeOK, engines
  <2>5. Equipped' /\ CopiesAgree'
    <3>1. \A l \in Engines : eng'[l] = eng[l]
      BY <1>5, Names DEF ReadRow, WriteResult, EndRequest, TypeOK
    <3> QED  BY <2>1, <2>2, <2>3, <3>1, Names
             DEF TypeOK, Equipped, Halts, InCall, CopiesAgree, Agrees, engines
  <2>6. RunsAlone
    BY <2>3 DEF TypeOK, RunsAlone
  <2> QED  BY <2>3, <2>4, <2>5, <2>6, QuietStep DEF engines
<1> QED  BY <1>1, <1>2, <1>3, <1>4, <1>5 DEF Call

(* A step of process p that changes no engine, nobody's run and no row but *)
(* its own copy.                                                           *)

Plain(p) ==
    /\ pc' = [pc EXCEPT ![p] = pc'[p]] /\ pc[p] # "none" /\ ~InRun(p)
    /\ \A q \in Processes : q # p => copy'[q] = copy[q]
    /\ UNCHANGED <<running, canceller, status, created, kind, eng, ctxDone, rootDone>>

(* A plain step of one process preserves the invariant, if what it holds   *)
(* and what it writes agree.                                               *)

LEMMA PlainInv ==
    ASSUME IInv, NEW p \in Processes, Plain(p),
           pc'[p] \in {"read", "write", "after", "tick", "unregister", "stop", "ended",
                       "load", "halt", "forget", "open", "store", "remove", "loop",
                       "engine", "create", "start", "done"}
                     \cup (IF p \in Engines THEN {"enter"} ELSE {}),
           copy' \in [Processes -> Row \cup {NoRow}], Agrees(copy'[p]),
           pc'[p] = "open" => copy'[p] # NoRow,
           p \in Requests /\ pc'[p] \in {"halt", "forget"} => Halts(p),
           row' \in Row \cup {NoRow}, Agrees(row'),
           registered' \in {0, registered}
    PROVE  IInv'
<1> USE DEF IInv
<1>1. pc' \in [Processes ->
              {"none", "enter", "install", "work", "leave", "read",
               "write", "after", "tick", "unregister", "stop", "ended", "unsent", "load",
               "halt", "forget", "open", "store", "remove", "loop", "engine", "create",
               "start", "done"}]
  BY DEF Plain, TypeOK
<1>2. registered' \in Engines \cup {0} /\ registered' <= created
  BY Names DEF TypeOK
<1>3. \A e \in Engines : pc'[e] = "none" \/ e <= created
  BY Names DEF Plain, TypeOK
<1>4. TypeOK'
  BY <1>1, <1>2, <1>3 DEF Plain, TypeOK
<1>5. Equipped' /\ CopiesAgree'
  BY Names DEF Plain, TypeOK, Equipped, Halts, InCall, CopiesAgree, Agrees
<1>6. RunsAlone
  BY DEF Plain, TypeOK, RunsAlone
<1> QED  BY <1>4, <1>5, <1>6, QuietStep DEF Plain

(* A step of process p in which it stops an engine.                        *)

LEMMA HaltInv ==
    ASSUME IInv, NEW p \in Processes, NEW e \in Engines, StopEngine(e),
           pc' = [pc EXCEPT ![p] = pc'[p]], pc'[p] \in {"forget", "ended"},
           pc[p] # "none", ~InRun(p), p \in Requests => Halts(p),
           UNCHANGED <<row, registered, created, locals, rootDone>>
    PROVE  IInv'
<1> USE DEF IInv
<1>1. TypeOK'
  <2>1. /\ running' \in [Engines -> BOOLEAN]
        /\ canceller' \in [Engines -> Processes \cup {Nobody}]
        /\ status' \in [Engines -> Statuses] /\ ctxDone' \in [Processes -> BOOLEAN]
    BY DEF StopEngine, TypeOK, Statuses
  <2> QED  BY <2>1, Names DEF TypeOK, locals
<1>2. Equipped' /\ CopiesAgree'
  BY Names DEF TypeOK, locals, Equipped, Halts, InCall, CopiesAgree, Agrees
<1>3. RunsAlone
  BY DEF TypeOK, locals, RunsAlone
<1> QED  BY <1>1, <1>2, <1>3, StopStep

-----------------------------------------------------------------------------
(* What else a loop does.                                                  *)

LEMMA LoopInv ==
    ASSUME IInv, NEW l \in Engines, Loop(l) PROVE IInv'
<1> USE DEF IInv
<1>1. l \in Processes
  BY Names
<1>2. CASE TimerFires(l) \/ Tick(l) \/ Shutdown(l) \/ DeferredDelete(l)
  <2>1. Plain(l) /\ pc'[l] \in {"tick", "enter", "unregister", "stop"}
    BY <1>1, <1>2 DEF TimerFires, Tick, Shutdown, DeferredDelete, Goto, Plain, InRun,
       TypeOK, engines, locals
  <2>2. UNCHANGED <<row, copy>> /\ registered' \in {0, registered}
    BY <1>2 DEF TimerFires, Tick, Shutdown, DeferredDelete, engines, locals
  <2> QED  BY <1>1, <2>1, <2>2, PlainInv DEF TypeOK, CopiesAgree
<1>3. CASE DeferredStop(l)
  BY <1>1, <1>3, Names, HaltInv DEF DeferredStop, Goto, InRun, TypeOK
<1>4. CASE Call(l)
  BY <1>1, <1>4, CallInv
<1> QED  BY <1>2, <1>3, <1>4 DEF Loop

-----------------------------------------------------------------------------
(* What a request does.                                                    *)

LEMMA RequestInv ==
    ASSUME IInv, NEW p \in Requests, Begin(p) \/ Handler(p) PROVE IInv'
<1> USE DEF IInv
<1>1. p \in Processes /\ p \notin Engines
  BY Names
<1>2. CASE \/ Begin(p) \/ OpenFails(p) \/ Remove(p) \/ LookForLoop(p) \/ Forget(p)
           \/ ReadPair(p) \/ (FindEngine(p) /\ registered = 0)
  <2>1. Plain(p) /\ (UNCHANGED copy \/ copy' = [copy EXCEPT ![p] = NoRow])
    BY <1>1, <1>2 DEF Begin, OpenFails, Remove, LookForLoop, Forget, ReadPair,
       FindEngine, Goto, Plain, InRun, TypeOK, engines, locals
  <2>2. /\ pc'[p] \in {"load", "halt", "remove", "engine", "done", "store", "read",
                       "create", "start"}
        /\ pc'[p] = "halt" => Halts(p)
    <3>1. kind[p] \in Kinds
      BY DEF TypeOK
    <3>2. CASE Begin(p)
      BY <1>1, <3>1, <3>2 DEF Begin, Goto, TypeOK, Kinds, Commands, Halts
    <3>3. CASE Forget(p)
      BY <1>1, <3>3 DEF Forget, Goto, TypeOK, Equipped, Halts, AfterHalt
    <3>4. CASE OpenFails(p) \/ Remove(p)
      BY <1>1, <3>4 DEF OpenFails, Remove, Goto, TypeOK
    <3>5. CASE LookForLoop(p) \/ ReadPair(p) \/ (FindEngine(p) /\ registered = 0)
      <4>1. AfterStart(p) \in {"store", "read", "done"}
        BY DEF AfterStart
      <4> QED  BY <1>1, <3>5, <4>1 DEF LookForLoop, ReadPair, FindEngine, Goto, TypeOK
    <3> QED  BY <1>2, <3>2, <3>3, <3>4, <3>5
  <2>3. copy' \in [Processes -> Row \cup {NoRow}] /\ Agrees(copy'[p])
    BY <1>1, <2>1 DEF TypeOK, CopiesAgree, Agrees
  <2>4. row' \in {row, NoRow} /\ registered' \in {0, registered}
    BY <1>2 DEF Begin, OpenFails, Remove, LookForLoop, Forget, ReadPair, FindEngine,
       engines
  <2> QED  BY <1>1, <2>1, <2>2, <2>3, <2>4, PlainInv DEF TypeOK, CopiesAgree, Agrees
<1>3. CASE Load(p) \/ LoadCommand(p)
  <2>1. /\ Plain(p) /\ pc'[p] \in {"done", "store", "halt", "loop", "open"}
        /\ UNCHANGED <<row, registered>>
        /\ row # NoRow \/ (UNCHANGED copy /\ pc'[p] = "done")
        /\ pc'[p] = "halt" => Halts(p)
    BY <1>1, <1>3 DEF Load, LoadCommand, Goto, Plain, InRun, TypeOK, engines, Halts
  <2>2. CASE row = NoRow
    BY <1>1, <2>1, <2>2, PlainInv DEF TypeOK, CopiesAgree
  <2>3. CASE row # NoRow
    <3>1. row \in Row
      BY <2>3 DEF TypeOK
    <3>2. PICK r \in {row, [row EXCEPT !.enabled = TRUE], [row EXCEPT !.enabled = FALSE],
                      [enabled |-> TRUE, status |-> "", errors |-> 0]} :
            copy' = [copy EXCEPT ![p] = r]
      <4>1. row.enabled \in BOOLEAN
        BY <3>1 DEF Row
      <4>2. CASE Load(p)
        BY <2>3, <4>1, <4>2 DEF Load
      <4>3. CASE LoadCommand(p)
        <5>1. PICK b \in BOOLEAN : \/ copy' = [copy EXCEPT ![p] = [row EXCEPT !.enabled = b]]
                                  \/ copy' = [copy EXCEPT ![p] = row]
          BY <2>3, <4>3 DEF LoadCommand
        <5>2. CASE b = TRUE
          BY <5>1, <5>2
        <5>3. CASE b = FALSE
          BY <5>1, <5>3
        <5> QED  BY <5>2, <5>3
      <4> QED  BY <1>3, <4>2, <4>3
    <3>3. r \in Row /\ Agrees(r)
      <4>1. CASE r = [enabled |-> TRUE, status |-> "", errors |-> 0]
        BY <4>1, FreshRowAgrees
      <4>2. CASE r # [enabled |-> TRUE, status |-> "", errors |-> 0]
        <5>1. /\ r \in Row /\ r.status = row.status /\ r.errors = row.errors
          BY <3>1, <3>2, <4>2 DEF Row
        <5> QED  BY <2>3, <5>1 DEF CopiesAgree, Agrees
      <4> QED  BY <4>1, <4>2
    <3>4. copy'[p] = r /\ copy' \in [Processes -> Row \cup {NoRow}]
      BY <1>1, <3>2, <3>3 DEF TypeOK
    <3> QED  BY <1>1, <2>1, <3>3, <3>4, NoRowAssumption, PlainInv DEF TypeOK, CopiesAgree
  <2> QED  BY <2>2, <2>3
<1>4. CASE OneShot(p)
  <2>1. copy[p] \in Row
    BY <1>1, <1>4 DEF OneShot, Equipped, TypeOK
  <2>2. PICK st \in {"ok", "error"} :
          copy' = [copy EXCEPT ![p] = WithResult(copy[p], st)]
    BY <1>4 DEF OneShot
  <2>3. WithResult(copy[p], st) \in Row /\ Agrees(WithResult(copy[p], st))
    BY <2>1, ResultAgrees DEF Statuses
  <2>4. copy'[p] = WithResult(copy[p], st) /\ copy' \in [Processes -> Row \cup {NoRow}]
    BY <1>1, <2>2, <2>3 DEF TypeOK
  <2>5. Plain(p) /\ pc'[p] = "store" /\ UNCHANGED <<row, registered>>
    BY <1>1, <1>4, <2>2 DEF OneShot, Goto, Plain, InRun, TypeOK, engines
  <2> QED  BY <1>1, <2>3, <2>4, <2>5, PlainInv DEF TypeOK, CopiesAgree
<1>5. CASE Store(p)
  <2>1. /\ Plain(p) /\ pc'[p] \in {"loop", "done"} /\ UNCHANGED registered
        /\ copy' \in [Processes -> Row \cup {NoRow}] /\ copy'[p] = NoRow
    BY <1>1, <1>5 DEF Store, Goto, Plain, InRun, TypeOK, engines
  <2>2. row' \in Row \cup {NoRow} /\ Agrees(row')
    BY <1>1, <1>5 DEF Store, Update, TypeOK, CopiesAgree, Agrees
  <2> QED  BY <1>1, <2>1, <2>2, PlainInv DEF Agrees
<1>6. CASE Halt(p)
  <2>1. Halts(p) /\ ~InRun(p) /\ pc[p] # "none"
    BY <1>6 DEF Halt, Equipped, InRun
  <2>2. CASE registered = 0
    <3>1. Plain(p) /\ pc'[p] \in {"store", "load", "remove"} /\ UNCHANGED <<row, copy, registered>>
      BY <1>1, <1>6, <2>1, <2>2 DEF Halt, Halts, AfterHalt, Goto, Plain, TypeOK, locals
    <3> QED  BY <1>1, <3>1, PlainInv DEF TypeOK, CopiesAgree
  <2>3. CASE registered # 0
    <3>1. registered \in Engines /\ StopEngine(registered)
      BY <1>6, <2>3 DEF Halt, TypeOK
    <3> QED  BY <1>1, <1>6, <2>1, <2>3, <3>1, HaltInv DEF Halt, Goto, TypeOK
  <2> QED  BY <2>2, <2>3
<1>7. CASE StartLoop(p)
  <2>1. AfterStart(p) \in {"store", "done"} /\ pc[p] = "start" /\ ~InRun(p)
    BY <1>7 DEF StartLoop, AfterStart, InRun
  <2>2. /\ Fresh \in Engines /\ created' = Fresh /\ registered' = Fresh
        /\ pc' = [pc EXCEPT ![p] = AfterStart(p), ![Fresh] = "enter"]
        /\ UNCHANGED <<row, running, canceller, status, locals, ctxDone, rootDone>>
    BY <1>7 DEF StartLoop, Create
  <2>3. Fresh # p /\ Fresh \in Processes /\ pc[Fresh] = "none" /\ created <= Fresh
        /\ created \in Nat
    BY <1>1, <2>2, Names DEF Fresh, TypeOK
  <2>4. TypeOK'
    <3>1. pc' \in [Processes ->
              {"none", "enter", "install", "work", "leave", "read",
               "write", "after", "tick", "unregister", "stop", "ended", "unsent", "load",
               "halt", "forget", "open", "store", "remove", "loop", "engine", "create",
               "start", "done"}]
      BY <2>1, <2>2 DEF TypeOK
    <3>2. \A e \in Engines : pc'[e] = "none" \/ e <= created'
      BY <1>1, <2>2, <2>3, Names DEF TypeOK
    <3>3. registered' <= created'
      BY <2>2, <2>3 DEF Fresh
    <3> QED  BY <2>2, <3>1, <3>2, <3>3 DEF TypeOK, locals
  <2>5. Equipped' /\ CopiesAgree'
    BY <1>1, <2>1, <2>2, <2>3, Names
    DEF TypeOK, locals, Equipped, Halts, InCall, CopiesAgree, Agrees
  <2>6. RunsAlone
    BY <1>1, <2>1, <2>2, <2>3 DEF TypeOK, locals, RunsAlone, InRun
  <2> QED  BY <2>2, <2>4, <2>5, <2>6, QuietStep
<1>8. CASE UseEngine(p) \/ (FindEngine(p) /\ registered # 0)
  <2>1. pc[p] \in {"engine", "start"} /\ ~InRun(p)
    BY <1>8 DEF FindEngine, UseEngine, InRun
  <2>2. PICK e \in Engines :
          /\ eng' = [eng EXCEPT ![p] = e] /\ pc' = [pc EXCEPT ![p] = "enter"]
          /\ \/ UNCHANGED <<registered, created>>
             \/ e = Fresh /\ created' = e /\ registered' = e
          /\ UNCHANGED <<row, running, canceller, status, kind, copy, ctxDone, rootDone>>
    BY <1>8 DEF FindEngine, UseEngine, Create, Goto, TypeOK, engines
  <2>3. created' \in Engines \cup {0} /\ registered' \in Engines \cup {0}
        /\ registered' <= created' /\ created <= created'
    BY <2>2, Names DEF TypeOK, Fresh
  <2>4. TypeOK'
    <3>1. /\ eng' \in [Processes -> Engines \cup {0}]
          /\ \A f \in Engines : pc'[f] = "none" \/ f <= created'
      BY <1>1, <2>2, <2>3, Names DEF TypeOK
    <3> QED  BY <2>2, <2>3, <3>1 DEF TypeOK
  <2>5. Equipped' /\ CopiesAgree'
    BY <1>1, <2>2, Names DEF TypeOK, Equipped, Halts, InCall, CopiesAgree, Agrees
  <2>6. RunsAlone
    BY <1>1, <2>1, <2>2 DEF TypeOK, RunsAlone
  <2> QED  BY <2>2, <2>4, <2>5, <2>6, QuietStep
<1>9. CASE Call(p)
  BY <1>1, <1>9, CallInv
<1> QED  BY <1>2, <1>3, <1>4, <1>5, <1>6, <1>7, <1>8, <1>9 DEF Handler

-----------------------------------------------------------------------------
(* The invariant and what it implies.                                      *)

(* The server starts with it ...                                           *)

LEMMA InitInv == Init => IInv
<1> SUFFICES ASSUME Init PROVE IInv
  OBVIOUS
<1>1. row \in Row /\ Agrees(row)
  BY DEF Init, Agrees
<1>2. registered \in {0, 1} /\ created = registered
  BY DEF Init
<1>3. /\ running = [e \in Engines |-> FALSE]
      /\ canceller = [e \in Engines |-> Nobody]
      /\ status = [e \in Engines |-> ""]
      /\ pc \in [Processes -> {"unsent", "enter", "none"}]
      /\ \A p \in Processes : pc[p] = "enter" => p \in Engines
      /\ \A e \in Engines : pc[e] = "none" \/ e <= created
      /\ kind \in [Requests -> Kinds]
      /\ eng \in [Processes -> Engines \cup {0}] /\ \A e \in Engines : eng[e] = e
      /\ copy = [p \in Processes |-> NoRow]
      /\ ctxDone \in [Processes -> BOOLEAN] /\ rootDone = FALSE
  <2>1. pc = [p \in Processes |-> IF p \in Requests THEN "unsent"
                                  ELSE IF p = registered THEN "enter" ELSE "none"]
    BY DEF Init
  <2>2. /\ pc \in [Processes -> {"unsent", "enter", "none"}]
        /\ \A p \in Processes : pc[p] = "enter" => p \in Engines
    BY <2>1 DEF Processes
  <2>3. \A e \in Engines : pc[e] = "none" \/ e <= created
    BY <1>2, <2>1, Names
  <2>4. eng \in [Processes -> Engines \cup {0}] /\ \A e \in Engines : eng[e] = e
    BY Names DEF Init
  <2> QED  BY <2>2, <2>3, <2>4, ScenariosAssumption DEF Init
<1>4. TypeOK
  <2>1. /\ running \in [Engines -> BOOLEAN]
        /\ canceller \in [Engines -> Processes \cup {Nobody}]
        /\ status \in [Engines -> Statuses]
        /\ copy \in [Processes -> Row \cup {NoRow}]
    BY <1>3 DEF Statuses
  <2>2. registered \in Engines \cup {0} /\ registered <= created
    BY <1>2, Names
  <2>3. pc \in [Processes ->
              {"none", "enter", "install", "work", "leave", "read",
               "write", "after", "tick", "unregister", "stop", "ended", "unsent", "load",
               "halt", "forget", "open", "store", "remove", "loop", "engine", "create",
               "start", "done"}]
    <3>1. \A p \in Processes : pc[p] = "unsent" \/ pc[p] = "enter" \/ pc[p] = "none"
      BY <1>3
    <3>2. pc = [p \in Processes |-> pc[p]]
      BY <1>3
    <3> HIDE <1>3
    <3> QED  BY <3>1, <3>2
  <2> QED  BY <1>1, <1>2, <1>3, <2>1, <2>2, <2>3 DEF TypeOK
<1>5. Equipped /\ CopiesAgree
  BY <1>1, <1>3, Names DEF Equipped, Halts, InCall, CopiesAgree, Agrees
<1>6. RunningMeansRunning /\ CancelsOwnRun
  BY <1>3 DEF RunningMeansRunning, CancelsOwnRun
<1> QED  BY <1>4, <1>5, <1>6 DEF IInv

(* ... and every step keeps it.                                            *)

LEMMA NextInv == IInv /\ [Next]_vars => IInv'
<1> SUFFICES ASSUME IInv, [Next]_vars PROVE IInv'
  OBVIOUS
<1>1. CASE Terminate \/ UNCHANGED vars
  <2>1. UNCHANGED <<row, engines, pc, locals, ctxDone>> /\ rootDone' \in BOOLEAN
    BY <1>1 DEF Terminate, vars, IInv, TypeOK
  <2> QED  BY <2>1 DEF engines, locals, IInv, TypeOK, Equipped, Halts, InCall, CopiesAgree,
           Agrees, RunningMeansRunning, InRun, CancelsOwnRun
<1>2. CASE \E l \in Engines : Loop(l)
  BY <1>2, LoopInv
<1>3. CASE \E p \in Requests : Begin(p) \/ Handler(p)
  BY <1>3, RequestInv
<1> QED  BY <1>1, <1>2, <1>3 DEF Next, Rest

(* The invariant holds of every behaviour.                                 *)

THEOREM Invariance == Spec => []IInv
<1> QED  BY InitInv, NextInv, PTL DEF Spec

(* Every reachable state is well typed, and only engines that have been    *)
(* made have a loop.                                                       *)

THEOREM TypesCorrect == Spec => []TypeOK
<1> QED  BY Invariance, PTL DEF IInv

(* Error count and status of the row agree however loops, requests and     *)
(* commands of other processes interleave: no write, however stale the row *)
(* it writes back, takes one without the other.                            *)

THEOREM CountsAgree == Spec => []ErrorsAgree
<1>1. IInv => ErrorsAgree
  BY DEF IInv, CopiesAgree, Agrees, ErrorsAgree
<1> QED  BY <1>1, Invariance, PTL

(* No engine is left running without a run, so none refuses for ever.      *)

THEOREM FlagsAreLive == Spec => []RunningMeansRunning
<1> QED  BY Invariance, PTL DEF IInv

(* A cancel function belongs to a run of its engine that has not ended.    *)

THEOREM CancelsAreOwn == Spec => []CancelsOwnRun
<1> QED  BY Invariance, PTL DEF IInv


-----------------------------------------------------------------------------
(* Which requests the lost pause and the second run need.                  *)

(* Nobody asks for one of these kinds.                                     *)

Without(kinds) == \A r \in Requests : kind[r] \notin kinds

(* What a request asks for is settled when it is sent.                     *)

LEMMA KindsStay == [Next]_vars => UNCHANGED kind
BY DEF Next, vars, locals, engines, Terminate, Rest, Loop, Handler, Begin, Call, EnterRun,
   InstallCancel, Work, LeaveRun, ReadRow, WriteResult, EndRequest, TimerFires, Tick,
   Shutdown, DeferredDelete, DeferredStop, Load, LoadCommand, Halt, Forget, Store, Remove,
   OpenFails, OneShot, LookForLoop, FindEngine, ReadPair, StartLoop, UseEngine

(* Row and copies agree on whether the pair is enabled.                    *)

SameSwitch(r, s) == r # NoRow /\ s # NoRow => r.enabled = s.enabled

SwitchInv == /\ Without({"toggle", "reset", "update"})
             /\ \A p \in Processes : SameSwitch(copy[p], row)

(* A result leaves the switch alone.                                       *)

LEMMA ResultKeepsSwitch ==
    ASSUME NEW r \in Row, NEW s \in Statuses
    PROVE  WithResult(r, s).enabled = r.enabled
BY DEF WithResult, Row

(* A row is written as it is, from the writer's copy, or away; a copy is   *)
(* of the row, of itself with a result, or dropped.                        *)

Derived(c, r) ==
    c \in {NoRow, r} \/ (r # NoRow /\ \E s \in Statuses : c = WithResult(r, s))

Writes(p) ==
    /\ row' \in {row, NoRow, copy[p]} /\ (row = NoRow => row' = NoRow)
    /\ \A q \in Processes : q # p => copy'[q] = copy[q]
    /\ Derived(copy'[p], row) \/ Derived(copy'[p], copy[p])

(* So does every step of Next, when nobody changes the switch.             *)

LEMMA RowWrites ==
    ASSUME IInv, SwitchInv, Next
    PROVE  \E p \in Processes : Writes(p)
<1> USE DEF IInv, TypeOK
<1>1. ASSUME NEW p \in Processes, Call(p) PROVE Writes(p)
  <2>1. CASE ReadRow(p)
    <3>1. CASE UNCHANGED copy
      BY <2>1, <3>1 DEF ReadRow, Writes, Derived
    <3>2. CASE /\ registered # 0 /\ row # NoRow
               /\ copy' = [copy EXCEPT ![p] = WithResult(row, status[registered])]
      <4>1. status[registered] \in Statuses
        BY <3>2
      <4> QED  BY <2>1, <3>2, <4>1 DEF ReadRow, Writes, Derived
    <3> QED  BY <2>1, <3>1, <3>2 DEF ReadRow
  <2>2. CASE WriteResult(p)
    BY <2>2 DEF WriteResult, Update, Writes, Derived
  <2>3. CASE EnterRun(p) \/ InstallCancel(p) \/ Work(p) \/ LeaveRun(p) \/ EndRequest(p)
    BY <2>3 DEF EnterRun, InstallCancel, Work, LeaveRun, EndRequest, locals,
       Writes, Derived
  <2> QED  BY <1>1, <2>1, <2>2, <2>3 DEF Call
<1>2. CASE \E l \in Engines : Loop(l)
  <2>1. PICK l \in Engines : Loop(l)
    BY <1>2
  <2>2. l \in Processes
    BY Names
  <2>3. CASE Call(l)
    BY <1>1, <2>2, <2>3
  <2>4. CASE ~Call(l)
    BY <2>1, <2>2, <2>4 DEF Loop, TimerFires, Tick, Shutdown, DeferredDelete, DeferredStop,
       locals, Writes, Derived
  <2> QED  BY <2>3, <2>4
<1>3. ASSUME NEW p \in Requests, Begin(p) \/ Handler(p), ~Call(p)
      PROVE  Writes(p)
  <2>0. p \in Processes /\ kind[p] \notin {"toggle", "reset", "update"}
    BY Names DEF SwitchInv, Without
  <2>1. CASE OneShot(p)
    <3>1. copy[p] # NoRow
      BY <2>0, <2>1 DEF OneShot, Equipped
    <3>2. \E s \in {"ok", "error"} : copy' = [copy EXCEPT ![p] = WithResult(copy[p], s)]
      BY <2>1 DEF OneShot
    <3>3. {"ok", "error"} \subseteq Statuses
      BY DEF Statuses
    <3> QED  BY <2>0, <2>1, <3>1, <3>2, <3>3 DEF OneShot, Writes, Derived
  <2>2. CASE Load(p) \/ LoadCommand(p)
    BY <2>0, <2>2 DEF Load, LoadCommand, Commands, Writes, Derived
  <2>3. CASE Store(p) \/ Remove(p) \/ OpenFails(p)
    BY <2>0, <2>3 DEF Store, Update, Remove, OpenFails, locals, Writes, Derived
  <2>4. CASE \/ Begin(p) \/ Halt(p) \/ Forget(p) \/ LookForLoop(p) \/ StartLoop(p)
             \/ FindEngine(p) \/ ReadPair(p) \/ UseEngine(p)
    BY <2>0, <2>4 DEF Begin, Halt, Forget, LookForLoop, StartLoop, FindEngine, ReadPair,
       UseEngine, locals, Writes, Derived
  <2> QED  BY <1>3, <2>1, <2>2, <2>3, <2>4 DEF Handler
<1>4. CASE \E p \in Requests : Begin(p) \/ Handler(p)
  BY <1>1, <1>3, <1>4, Names
<1>5. CASE Terminate \/ Rest
  <2>1. UNCHANGED <<row, copy>>
    BY <1>5 DEF Terminate, Rest, vars, locals
  <2> QED  BY <2>1, Names DEF Writes, Derived
<1> QED  BY <1>2, <1>4, <1>5 DEF Next

(* A lost pause needs a request that changes the switch: with none, the    *)
(* pair stays enabled, or paused, whatever loops, edits, triggers, commands *)
(* and a deletion write of the rows they have read.                        *)

THEOREM SwitchStays ==
    ASSUME \A s \in Scenarios, r \in Requests : s[r] \notin {"toggle", "reset", "update"}
    PROVE  Spec => [][row # NoRow /\ row' # NoRow => row'.enabled = row.enabled]_vars
<1>1. Init => SwitchInv
  BY DEF Init, SwitchInv, Without, SameSwitch
<1>2. IInv /\ SwitchInv /\ [Next]_vars =>
        SwitchInv' /\ (row # NoRow /\ row' # NoRow => row'.enabled = row.enabled)
  <2> SUFFICES ASSUME IInv, SwitchInv, [Next]_vars
               PROVE  SwitchInv' /\ SameSwitch(row', row)
    BY DEF SameSwitch
  <2>1. Without({"toggle", "reset", "update"})'
    BY KindsStay DEF SwitchInv, Without
  <2>2. CASE Next
    <3>1. PICK p \in Processes : Writes(p)
      BY <2>2, RowWrites
    <3>2. SameSwitch(row', row)
      BY <3>1 DEF Writes, SwitchInv, SameSwitch
    <3>3. \A c \in Row \cup {NoRow}, r \in Row \cup {NoRow} :
             Derived(c, r) => SameSwitch(c, r) /\ (c # NoRow => r # NoRow)
      BY ResultKeepsSwitch DEF Derived, SameSwitch
    <3>4. /\ copy[p] \in Row \cup {NoRow} /\ row \in Row \cup {NoRow}
          /\ copy'[p] \in Row \cup {NoRow}
      BY <2>2, NextInv DEF IInv, TypeOK
    <3>5. \A q \in Processes : SameSwitch(copy'[q], row)
      BY <3>1, <3>3, <3>4 DEF Writes, SwitchInv, SameSwitch
    <3>6. \A q \in Processes : SameSwitch(copy'[q], row')
      BY <3>1, <3>2, <3>5 DEF Writes, SameSwitch
    <3> QED  BY <2>1, <3>2, <3>6 DEF SwitchInv, SameSwitch
  <2>3. CASE UNCHANGED vars
    BY <2>1, <2>3 DEF vars, locals, SwitchInv, SameSwitch
  <2> QED  BY <2>2, <2>3
<1> QED  BY <1>1, <1>2, Invariance, PTL DEF Spec

(* Without requests that make an engine, only the loop that was there at   *)
(* the start runs anything.                                                *)

AloneInv ==
    /\ Without({"toggle", "reset", "trigger"})
    /\ created <= 1
    /\ \A r \in Requests : pc[r] \in {"unsent", "load", "halt", "forget", "open",
                                      "store", "remove", "done"}

(* Neither that loop nor any other request makes one.                      *)

LEMMA AloneStep ==
    ASSUME IInv, AloneInv, [Next]_vars PROVE AloneInv'
<1> USE DEF IInv, TypeOK
<1>0. Without({"toggle", "reset", "trigger"})'
  BY KindsStay DEF AloneInv, Without
<1>1. CASE \E l \in Engines : Loop(l)
  <2>1. PICK l \in Engines : Loop(l)
    BY <1>1
  <2>2. created' = created /\ \A q \in Processes : q # l => pc'[q] = pc[q]
    BY <2>1, Names DEF Loop, Call, EnterRun, InstallCancel, Work, LeaveRun, ReadRow,
       WriteResult, EndRequest, TimerFires, Tick, Shutdown, DeferredDelete, DeferredStop,
       Goto, engines
  <2>3. \A r \in Requests : r # l /\ r \in Processes
    BY Names
  <2> QED  BY <1>0, <2>2, <2>3 DEF AloneInv
<1>2. CASE \E p \in Requests : Begin(p) \/ Handler(p)
  <2>1. PICK p \in Requests : Begin(p) \/ Handler(p)
    BY <1>2
  <2>2. /\ p \in Processes
        /\ kind[p] \in {"edit", "delete", "update", "drop", "sync"}
        /\ pc[p] \in {"unsent", "load", "halt", "forget", "open", "store", "remove", "done"}
        /\ pc[p] \in {"halt", "forget"} => kind[p] = "delete"
    BY Names DEF AloneInv, Without, Kinds, Commands, Equipped, Halts
  <2>3. /\ created' = created /\ pc' = [pc EXCEPT ![p] = pc'[p]]
        /\ pc'[p] \in {"load", "halt", "forget", "open", "store", "remove", "done"}
    <3>1. CASE Begin(p)
      BY <2>2, <3>1 DEF Begin, Goto, engines
    <3>2. CASE Load(p) \/ LoadCommand(p)
      BY <2>2, <3>2 DEF Load, LoadCommand, Goto, Commands, engines
    <3>3. CASE Halt(p) \/ Forget(p)
      BY <2>2, <3>3 DEF Halt, Forget, Goto, AfterHalt
    <3>4. CASE Store(p) \/ Remove(p) \/ OpenFails(p) \/ OneShot(p)
      BY <2>2, <3>4 DEF Store, Remove, OpenFails, OneShot, Goto, engines
    <3>5. ~(\/ LookForLoop(p) \/ FindEngine(p) \/ ReadPair(p) \/ StartLoop(p)
            \/ UseEngine(p) \/ Call(p))
      BY <2>2 DEF LookForLoop, FindEngine, ReadPair, StartLoop, UseEngine, Call, EnterRun, InstallCancel, Work,
         LeaveRun, ReadRow, WriteResult, EndRequest
    <3> QED  BY <2>1, <3>1, <3>2, <3>3, <3>4, <3>5 DEF Handler
  <2>4. \A r \in Requests : pc'[r] = IF r = p THEN pc'[p] ELSE pc[r]
    BY <2>3, Names
  <2> QED  BY <1>0, <2>3, <2>4 DEF AloneInv
<1>3. CASE Terminate \/ Rest \/ UNCHANGED vars
  BY <1>0, <1>3 DEF Terminate, Rest, vars, engines, AloneInv
<1> QED  BY <1>1, <1>2, <1>3 DEF Next

(* Two runs at once need a request that makes an engine, a toggle, a reset *)
(* or a trigger: edits, a deletion and the commands of other processes,    *)
(* however many, never cause them.                                         *)

THEOREM RunsAreSingle ==
    ASSUME \A s \in Scenarios, r \in Requests : s[r] \notin {"toggle", "reset", "trigger"}
    PROVE  Spec => []SingleRun
<1>1. Init => AloneInv
  <2> SUFFICES ASSUME Init PROVE AloneInv
    OBVIOUS
  <2>1. \A r \in Requests : pc[r] = "unsent"
    BY Names DEF Init
  <2>2. created \in {0, 1}
    BY DEF Init
  <2>3. Without({"toggle", "reset", "trigger"})
    BY DEF Init, Without
  <2> QED  BY <2>1, <2>2, <2>3 DEF AloneInv
<1>2. IInv /\ AloneInv => SingleRun
  <2> SUFFICES ASSUME IInv, AloneInv,
                      NEW p \in Processes, NEW q \in Processes,
                      pc[p] = "work", pc[q] = "work"
               PROVE  p = q
    BY DEF SingleRun
  <2>1. p \in Engines /\ q \in Engines
    BY DEF AloneInv, Processes
  <2>2. p <= created /\ q <= created
    BY <2>1 DEF IInv, TypeOK
  <2> QED  BY <2>1, <2>2, Names DEF IInv, TypeOK, AloneInv
<1> QED  BY <1>1, <1>2, AloneStep, Invariance, PTL DEF Spec
=============================================================================
