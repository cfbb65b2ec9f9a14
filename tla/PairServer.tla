----------------------------- MODULE PairServer ------------------------------
(***************************************************************************)
(* The server's control of one sync pair: internal/api/router.go,          *)
(* handlers.go, cmd/serve.go and the locking of engine.go's RunOnce and    *)
(* Stop.  Engine loops (one goroutine per engine StartEngineLoop made) and *)
(* requests (HTTP handlers, and the goroutine of triggerSync) share the    *)
(* engines map, the engines and the pair's row; every database call, every *)
(* critical section of a mutex and every run is a step of its own.         *)
(*                                                                         *)
(* What a run does is SyncRun's subject: here it takes a while and ends    *)
(* with "ok" or "error".  Reads of the map, of an engine's status and of   *)
(* the row that directly follow each other are one step.                   *)
(*                                                                         *)
(* Commands of another process (cmd/pair.go) are requests too: they know   *)
(* of the row and of nothing else.                                         *)
(***************************************************************************)
EXTENDS Integers, FiniteSets

CONSTANTS
    Engines,      \* 1 .. n: one that exists at the start, one per request
    Requests,     \* the requests the clients send
    Scenarios,    \* bound: what they may ask, assignments of Kinds
    NoRow,        \* the pair has been deleted
    Nobody,       \* Engine.cancel is nil
    MaxErrors     \* bound: ConsecutiveErrors stays there

ASSUME RequestsAssumption == /\ IsFiniteSet(Requests)
                             /\ Requests \cap Nat = {}
                             /\ Nobody \notin Requests \cup Nat
ASSUME EnginesAssumption == Engines = 1 .. (Cardinality(Requests) + 1)
ASSUME MaxErrorsAssumption == MaxErrors \in Nat \ {0}

Commands == {"update", "drop", "sync"}    \* pair update, delete and sync
Kinds    == {"toggle", "reset", "delete", "trigger", "edit"} \cup Commands
Statuses == {"", "ok", "error", "stopped"}
Row      == [enabled : BOOLEAN, status : Statuses, errors : 0 .. MaxErrors]
ASSUME NoRowAssumption == NoRow \notin Row
ASSUME ScenariosAssumption == Scenarios \subseteq [Requests -> Kinds]

Processes == Engines \cup Requests   \* the loop of engine e is process e

VARIABLES
    row,          \* the pair's row of sync_pairs
    registered,   \* engines[pairID], 0 when there is none
    created,      \* engines made so far
    running, canceller, status,    \* Engine.running, cancel, lastStatus
    pc, kind,     \* per process: where it is, what the request asks
    eng,          \* per process: the engine it works with
    copy,         \* per process: the row it read
    ctxDone,      \* per process: the context of its run is cancelled
    rootDone      \* SIGTERM: the root context is cancelled

engines == <<registered, created, running, canceller, status>>
locals  == <<kind, eng, copy>>
vars    == <<row, engines, pc, locals, ctxDone, rootDone>>

Goto(p, label) == pc' = [pc EXCEPT ![p] = label]

(* cmd/serve.go: the loops of the enabled pairs are started at once, if    *)
(* their engines can be made.  A pair created while the server runs has    *)
(* none.  The row is any an earlier server may leave: ErrorsAgree holds of *)
(* it, and neither recoverCrashedPairs nor the reset of the status         *)
(* "running" in serve.go finds anything to change in such a row.           *)

Init ==
    /\ row \in {r \in Row : r.errors > 0 <=> r.status = "error"}
    /\ registered \in IF row.enabled THEN {0, 1} ELSE {0}
    /\ created = registered
    /\ running = [e \in Engines |-> FALSE]
    /\ canceller = [e \in Engines |-> Nobody]
    /\ status = [e \in Engines |-> ""]
    /\ pc = [p \in Processes |-> IF p \in Requests THEN "unsent"
                                 ELSE IF p = registered THEN "enter" ELSE "none"]
    /\ kind \in Scenarios
    /\ eng = [p \in Processes |-> IF p \in Engines THEN p ELSE 0]
    /\ copy = [p \in Processes |-> NoRow]
    /\ ctxDone = [p \in Processes |-> FALSE]
    /\ rootDone = FALSE

-----------------------------------------------------------------------------
(* Engine.RunOnce, called by process p on engine eng[p].                   *)

EnterRun(p) ==
    /\ pc[p] = "enter"
    /\ IF running[eng[p]]
       THEN Goto(p, "read") /\ UNCHANGED running   \* "sync already running"
       ELSE /\ Goto(p, "install")
            /\ running' = [running EXCEPT ![eng[p]] = TRUE]
    /\ UNCHANGED <<row, registered, created, canceller, status, locals,
                   ctxDone, rootDone>>

InstallCancel(p) ==
    /\ pc[p] = "install"
    /\ LET old == canceller[eng[p]] IN
         ctxDone' = [q \in Processes |->
                        IF q = p THEN FALSE ELSE ctxDone[q] \/ q = old]
    /\ canceller' = [canceller EXCEPT ![eng[p]] = p]
    /\ Goto(p, "work")
    /\ UNCHANGED <<row, registered, created, running, status, locals, rootDone>>

(* The run itself, up to setResult: it ends by itself, by its five minute  *)
(* timeout or because its context was cancelled.                           *)

Work(p) ==
    /\ pc[p] = "work"
    /\ \E s \in {"ok", "error"} : status' = [status EXCEPT ![eng[p]] = s]
    /\ Goto(p, "leave")
    /\ UNCHANGED <<row, registered, created, running, canceller, locals,
                   ctxDone, rootDone>>

LeaveRunKeepsFlag(p) ==   \* seeded: the deferred function leaves running set
    /\ pc[p] = "leave"
    /\ canceller' = [canceller EXCEPT ![eng[p]] = Nobody]
    /\ ctxDone' = [ctxDone EXCEPT ![p] = FALSE]
    /\ Goto(p, "read")
    /\ UNCHANGED <<row, registered, created, running, status, locals, rootDone>>

LeaveRunKeepsCancel(p) ==   \* seeded: the deferred function leaves cancel set
    /\ pc[p] = "leave"
    /\ running' = [running EXCEPT ![eng[p]] = FALSE]
    /\ ctxDone' = [ctxDone EXCEPT ![p] = FALSE]
    /\ Goto(p, "read")
    /\ UNCHANGED <<row, registered, created, canceller, status, locals, rootDone>>

LeaveRun(p) ==   \* the deferred function
    /\ pc[p] = "leave"
    /\ running' = [running EXCEPT ![eng[p]] = FALSE]
    /\ canceller' = [canceller EXCEPT ![eng[p]] = Nobody]
    /\ ctxDone' = [ctxDone EXCEPT ![p] = FALSE]
    /\ Goto(p, "read")
    /\ UNCHANGED <<row, registered, created, status, locals, rootDone>>

(* Engine.Stop                                                             *)

StopEngine(e) ==
    /\ ctxDone' = [q \in Processes |-> ctxDone[q] \/ q = canceller[e]]
    /\ canceller' = [canceller EXCEPT ![e] = Nobody]
    /\ running' = [running EXCEPT ![e] = FALSE]
    /\ status' = [status EXCEPT ![e] = "stopped"]

-----------------------------------------------------------------------------
(* afterSync, and the same lines of triggerSync's goroutine: the status of *)
(* the engine registered now; the whole row read, changed and written.     *)

WithResultKeepsErrors(r, s) ==   \* seeded: a success does not reset the count
    [r EXCEPT !.status = s,
              !.errors = IF s # "error" \/ @ = MaxErrors THEN @ ELSE @ + 1]

WithResult(r, s) ==
    [r EXCEPT !.status = s,
              !.errors = IF s # "error" THEN 0
                         ELSE IF @ = MaxErrors THEN @ ELSE @ + 1]

ReadRow(p) ==
    /\ pc[p] = "read"
    /\ IF registered = 0 \/ row = NoRow
       THEN Goto(p, "after") /\ UNCHANGED copy
       ELSE /\ Goto(p, "write")
            /\ copy' = [copy EXCEPT ![p] = WithResult(row, status[registered])]
    /\ UNCHANGED <<row, engines, kind, eng, ctxDone, rootDone>>

(* UpdateSyncPair writes every column, and nothing if the row is gone      *)

Update(p) == row' = IF row = NoRow THEN NoRow ELSE copy[p]

WriteResult(p) ==
    /\ pc[p] = "write"
    /\ Update(p)
    /\ copy' = [copy EXCEPT ![p] = NoRow]
    /\ Goto(p, "after")
    /\ UNCHANGED <<engines, kind, eng, ctxDone, rootDone>>

EndRequest(p) ==
    /\ p \in Requests /\ pc[p] = "after"
    /\ Goto(p, "done")
    /\ eng' = [eng EXCEPT ![p] = 0]
    /\ UNCHANGED <<row, engines, kind, copy, ctxDone, rootDone>>

Call(p) == \/ EnterRun(p) \/ InstallCancel(p) \/ Work(p) \/ LeaveRun(p)
           \/ ReadRow(p) \/ WriteResult(p) \/ EndRequest(p)

-----------------------------------------------------------------------------
(* The goroutine of StartEngineLoop after each run: the select of timer    *)
(* and context, the look at the row, the deferred DeleteEngine and Stop.   *)
(* With both ready the select may take the timer: that is the behaviour in *)
(* which it took it just before SIGTERM came.                              *)

TimerFires(l) ==
    /\ pc[l] = "after" /\ ~rootDone
    /\ Goto(l, "tick")
    /\ UNCHANGED <<row, engines, locals, ctxDone, rootDone>>

TickIgnoresRow(l) ==   \* seeded: the loop does not look at the row
    /\ pc[l] = "tick"
    /\ Goto(l, "enter")
    /\ UNCHANGED <<row, engines, locals, ctxDone, rootDone>>

Tick(l) ==
    /\ pc[l] = "tick"
    /\ Goto(l, IF row # NoRow /\ row.enabled THEN "enter" ELSE "unregister")
    /\ UNCHANGED <<row, engines, locals, ctxDone, rootDone>>

Shutdown(l) ==
    /\ pc[l] = "after" /\ rootDone
    /\ Goto(l, "unregister")
    /\ UNCHANGED <<row, engines, locals, ctxDone, rootDone>>

DeferredDelete(l) ==
    /\ pc[l] = "unregister"
    /\ registered' = 0
    /\ Goto(l, "stop")
    /\ UNCHANGED <<row, created, running, canceller, status, locals, ctxDone, rootDone>>

DeferredStop(l) ==
    /\ pc[l] = "stop"
    /\ StopEngine(l)
    /\ Goto(l, "ended")
    /\ UNCHANGED <<row, registered, created, locals, rootDone>>

Loop(l) == Call(l) \/ TimerFires(l) \/ Tick(l) \/ Shutdown(l)
           \/ DeferredDelete(l) \/ DeferredStop(l)

-----------------------------------------------------------------------------
(* Requests.                                                               *)

Create(e) ==
    /\ e \in Engines
    /\ created' = e
    /\ registered' = e

Fresh == created + 1

Begin(p) ==
    /\ pc[p] = "unsent" /\ (rootDone => kind[p] \in Commands)
    /\ Goto(p, CASE kind[p] \in {"toggle", "edit", "update", "sync"} -> "load"
                 [] kind[p] \in {"reset", "delete"} -> "halt"
                 [] kind[p] = "drop" -> "remove"
                 [] kind[p] = "trigger" -> "engine")
    /\ UNCHANGED <<row, engines, locals, ctxDone, rootDone>>

(* GetSyncPair at the head of disableSyncPair and updateSyncPair, and in   *)
(* the middle of resetSyncPair                                             *)

Load(p) ==
    /\ pc[p] = "load" /\ kind[p] \notin Commands
    /\ IF row = NoRow
       THEN Goto(p, "done") /\ UNCHANGED copy
       ELSE \/ /\ kind[p] = "edit"
               /\ copy' = [copy EXCEPT ![p] = row]
               /\ Goto(p, "store")
            \/ /\ kind[p] = "toggle"
               /\ copy' = [copy EXCEPT ![p] = [row EXCEPT !.enabled = ~@]]
               /\ Goto(p, IF row.enabled THEN "halt" ELSE "loop")
            \/ /\ kind[p] = "reset"
               /\ copy' = [copy EXCEPT ![p] = [enabled |-> TRUE, status |-> "",
                                               errors |-> 0]]
               /\ Goto(p, "store")
    /\ UNCHANGED <<row, engines, kind, eng, ctxDone, rootDone>>

(* The same of pair update, with --enabled or without, and of RunOneShot   *)

LoadCommand(p) ==
    /\ pc[p] = "load" /\ kind[p] \in Commands
    /\ IF row = NoRow
       THEN Goto(p, "done") /\ UNCHANGED copy
       ELSE \/ /\ kind[p] = "update"
               /\ \E b \in BOOLEAN : copy' = [copy EXCEPT ![p] = [row EXCEPT !.enabled = b]]
               /\ Goto(p, "store")
            \/ /\ kind[p] = "sync"
               /\ copy' = [copy EXCEPT ![p] = row]
               /\ Goto(p, "open")
    /\ UNCHANGED <<row, engines, kind, eng, ctxDone, rootDone>>

(* GetEngine and Stop, then DeleteEngine                                   *)

AfterHalt(p) == CASE kind[p] = "toggle" -> "store"
                  [] kind[p] = "reset"  -> "load"
                  [] kind[p] = "delete" -> "remove"

Halt(p) ==
    /\ pc[p] = "halt"
    /\ IF registered = 0
       THEN /\ Goto(p, AfterHalt(p))
            /\ UNCHANGED <<running, canceller, status, ctxDone>>
       ELSE /\ Goto(p, "forget")
            /\ StopEngine(registered)
    /\ UNCHANGED <<row, registered, created, locals, rootDone>>

Forget(p) ==
    /\ pc[p] = "forget"
    /\ registered' = 0
    /\ Goto(p, AfterHalt(p))
    /\ UNCHANGED <<row, created, running, canceller, status, locals, ctxDone, rootDone>>

Store(p) ==
    /\ pc[p] = "store"
    /\ Update(p)
    /\ copy' = [copy EXCEPT ![p] = NoRow]
    /\ Goto(p, IF kind[p] = "reset" /\ row # NoRow THEN "loop" ELSE "done")
    /\ UNCHANGED <<engines, kind, eng, ctxDone, rootDone>>

Remove(p) ==
    /\ pc[p] = "remove"
    /\ row' = NoRow
    /\ Goto(p, "done")
    /\ UNCHANGED <<engines, locals, ctxDone, rootDone>>

(* RunOneShot waits up to 5 s for the cache, which the server gives up     *)
(* after SIGTERM (Processes has the lock); a run of its own follows, whose *)
(* result goes into the row as it was read before.                         *)

OpenFails(p) ==     \* or the run fails
    /\ pc[p] = "open"
    /\ copy' = [copy EXCEPT ![p] = NoRow]
    /\ Goto(p, "done")
    /\ UNCHANGED <<row, engines, kind, eng, ctxDone, rootDone>>

OneShot(p) ==
    /\ pc[p] = "open" /\ rootDone
    /\ \E s \in {"ok", "error"} : copy' = [copy EXCEPT ![p] = WithResult(@, s)]
    /\ Goto(p, "store")
    /\ UNCHANGED <<row, engines, kind, eng, ctxDone, rootDone>>

(* StartEngineLoop: HasEngine; triggerSync's runPairSync: GetEngine, and   *)
(* the engine found.  With none both go on with createEngine.              *)

AfterStart(p) == CASE kind[p] = "toggle"  -> "store"
                   [] kind[p] = "trigger" -> "read"
                   [] OTHER               -> "done"

LookForLoop(p) ==
    /\ pc[p] = "loop"
    /\ Goto(p, IF registered # 0 THEN AfterStart(p) ELSE "create")
    /\ UNCHANGED <<row, engines, locals, ctxDone, rootDone>>

FindEngine(p) ==
    /\ pc[p] = "engine"
    /\ IF registered # 0
       THEN eng' = [eng EXCEPT ![p] = registered] /\ Goto(p, "enter")
       ELSE Goto(p, "create") /\ UNCHANGED eng
    /\ UNCHANGED <<row, engines, kind, copy, ctxDone, rootDone>>

(* createEngine reads the pair, then its buckets, whose rows may be gone   *)
(* or beyond decryption ...                                                *)

ReadPairUnchecked(p) ==   \* seeded: the error of createEngine is ignored
    /\ pc[p] = "create"
    /\ \/ pc' = [pc EXCEPT ![p] = AfterStart(p), ![Fresh] = "enter"]
       \/ row # NoRow /\ Goto(p, "start")
    /\ UNCHANGED <<row, engines, locals, ctxDone, rootDone>>

ReadPair(p) ==
    /\ pc[p] = "create"
    /\ \/ Goto(p, AfterStart(p))
       \/ row # NoRow /\ Goto(p, "start")
    /\ UNCHANGED <<row, engines, locals, ctxDone, rootDone>>

(* ... and SetEngine registers the new engine in place of any that has     *)
(* come in between.  StartEngineLoop gives it a goroutine, a trigger runs  *)
(* it itself.                                                              *)

StartLoop(p) ==
    /\ pc[p] = "start" /\ kind[p] # "trigger"
    /\ Create(Fresh)
    /\ pc' = [pc EXCEPT ![p] = AfterStart(p), ![Fresh] = "enter"]
    /\ UNCHANGED <<row, running, canceller, status, locals, ctxDone, rootDone>>

UseEngine(p) ==
    /\ pc[p] = "start" /\ kind[p] = "trigger"
    /\ Create(Fresh)
    /\ eng' = [eng EXCEPT ![p] = Fresh]
    /\ Goto(p, "enter")
    /\ UNCHANGED <<row, running, canceller, status, kind, copy, ctxDone, rootDone>>

Handler(p) == \/ Load(p) \/ Halt(p) \/ Forget(p) \/ Store(p) \/ Remove(p)
              \/ LoadCommand(p) \/ OpenFails(p) \/ OneShot(p)
              \/ LookForLoop(p) \/ FindEngine(p) \/ ReadPair(p)
              \/ StartLoop(p) \/ UseEngine(p) \/ Call(p)

-----------------------------------------------------------------------------

Terminate ==
    /\ ~rootDone
    /\ rootDone' = TRUE
    /\ UNCHANGED <<row, engines, pc, locals, ctxDone>>

AllEnded == \A p \in Processes : pc[p] \in {"none", "ended", "done", "unsent"}

Rest == AllEnded /\ UNCHANGED vars

Next == \/ \E l \in Engines : Loop(l)
        \/ \E p \in Requests : Begin(p) \/ Handler(p)
        \/ Terminate \/ Rest

Spec == Init /\ [][Next]_vars

(* Runs end within five minutes and timers fire; no client need send       *)
(* anything, no handler need go on and SIGTERM need not come.              *)

FairSpec == Spec /\ \A l \in Engines : WF_vars(Loop(l))

-----------------------------------------------------------------------------
(* Properties.                                                             *)

InRun(p) == pc[p] \in {"install", "work", "leave"}

TypeOK ==
    /\ row \in Row \cup {NoRow}
    /\ registered \in Engines \cup {0} /\ created \in Engines \cup {0}
    /\ registered <= created
    /\ running \in [Engines -> BOOLEAN]
    /\ canceller \in [Engines -> Processes \cup {Nobody}]
    /\ status \in [Engines -> Statuses]
    /\ pc \in [Processes ->
              {"none", "enter", "install", "work", "leave", "read",
               "write", "after", "tick", "unregister", "stop", "ended", "unsent", "load",
               "halt", "forget", "open", "store", "remove", "loop", "engine", "create",
               "start", "done"}]
    /\ kind \in [Requests -> Kinds]
    /\ eng \in [Processes -> Engines \cup {0}]
    /\ copy \in [Processes -> Row \cup {NoRow}]
    /\ ctxDone \in [Processes -> BOOLEAN]
    /\ rootDone \in BOOLEAN
    /\ \A e \in Engines : pc[e] = "none" \/ e <= created

(* The row counts errors exactly while it says "error", however the        *)
(* read-modify-writes of loops, triggers, edits and resets interleave: the *)
(* condition recoverCrashedPairs repairs (no status but errors) and the    *)
(* status "running" that serve resets never occur.                         *)

ErrorsAgree ==
    row # NoRow => (row.errors > 0 <=> row.status = "error")

(* An engine that says it is running is: whoever stops, restarts or        *)
(* overlaps runs on it, the flag never outlives the last of them, so the   *)
(* pair cannot refuse every later run with "sync already running".         *)

RunningMeansRunning ==
    \A e \in Engines : running[e] => \E p \in Processes : eng[p] = e /\ InRun(p)

(* The function Stop calls belongs to a run of that engine that has not    *)
(* ended: Stop never cancels a finished run, nor another engine's.         *)

CancelsOwnRun ==
    \A e \in Engines : canceller[e] # Nobody =>
        eng[canceller[e]] = e /\ pc[canceller[e]] \in {"work", "leave"}

(* The loops of a deleted pair end, and so do all loops after SIGTERM,     *)
(* even those a request in progress still starts.                          *)

NoLoopLeft == \A l \in Engines : pc[l] \in {"none", "ended"}

LoopsEnd == (row = NoRow \/ rootDone) ~> []NoLoopLeft

(* Pause and Resume toggle the loop (README.md:139): only a toggle, a      *)
(* reset or pair update changes whether the pair is enabled.               *)

EnabledOnlyByRequest ==
    [][row # NoRow /\ row' # NoRow /\ row'.enabled # row.enabled =>
         \E p \in Requests : /\ pc[p] = "store" /\ pc'[p] # "store"
                             /\ kind[p] \in {"toggle", "reset", "update"}]_vars

(* A single engine works on a pair (the streaming design, line 115): two   *)
(* runs that nobody cancelled are never in progress together.              *)

SingleRun ==
    \A p, q \in Processes :
        pc[p] = "work" /\ pc[q] = "work" /\ ~ctxDone[p] /\ ~ctxDone[q] => p = q

=============================================================================
