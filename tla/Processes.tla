------------------------------ MODULE Processes ------------------------------
(***************************************************************************)
(* The processes of the program over one configuration directory: a server *)
(* (cmd/serve.go), one-shot syncs (internal/sync/run.go) and commands that *)
(* edit a bucket.  They share the cache file, which bbolt locks for one    *)
(* process at a time, the configuration database, and the target bucket.   *)
(* They start, are told to stop, are killed, and start again.              *)
(*                                                                         *)
(* An engine is what a process runs cycles with, one per pair: two pairs   *)
(* of the server may have the same target.  What a cycle does is SyncRun's *)
(* subject, and requests about pairs PairServer's: here a cycle is its     *)
(* setup (TargetSetup), its cache cursor, a transfer that takes a while,   *)
(* and the records it leaves.                                              *)
(***************************************************************************)
EXTENDS TargetSetup, BucketTable

CONSTANTS
    Servers, OneShots,   \* processes
    EnginesOf,           \* the engines of each
    Clients,             \* users of the API
    Owners,              \* others of the target's account
    NoProcess,           \* the file is not locked
    Casts                \* bound: who takes part, sets of all of these

Processes == Servers \cup OneShots

ASSUME ProcessesAssumption ==
    /\ Servers \cap OneShots = {} /\ NoProcess \notin Processes
    /\ EnginesOf \in [Processes -> SUBSET Engines]
    /\ \A e \in Engines : \E p \in Processes : e \in EnginesOf[p]
    /\ \A p, q \in Processes : p # q => EnginesOf[p] \cap EnginesOf[q] = {}
ASSUME CastsAssumption ==
    Casts \subseteq SUBSET (Processes \cup Editors \cup Clients \cup Owners)

Host(e) == CHOOSE p \in Processes : e \in EnginesOf[p]

VARIABLES
    cast,        \* who takes part
    main,        \* per process: where its main goroutine is
    cycle,       \* per engine: where its cycle is
    rootDone,    \* per process: the root context is cancelled
    fileLock     \* the process that has cache.db open

processVars == <<cast, main, cycle, rootDone, fileLock>>
vars == <<setupVars, tableVars, processVars>>

Init ==
    /\ SetupInit /\ TableInit
    /\ cast \in Casts
    /\ main = [p \in Processes |-> "off"]
    /\ cycle = [e \in Engines |-> "none"]
    /\ rootDone = [p \in Processes |-> FALSE]
    /\ fileLock = NoProcess

MainGoto(p, place)  == main' = [main EXCEPT ![p] = place]
CycleGoto(e, place) == cycle' = [cycle EXCEPT ![e] = place]

-----------------------------------------------------------------------------
(* Starting.  A one-shot sync reads the rows of its buckets first, a       *)
(* server when it makes an engine.                                         *)

Start(p) ==
    /\ p \in cast /\ main[p] = "off"
    /\ IF p \in OneShots /\ bucketRow = NoBucket THEN UNCHANGED main
       ELSE MainGoto(p, "opening")
    /\ UNCHANGED <<setupVars, tableVars, cast, cycle, rootDone, fileLock>>

(* cache.Open: waits 5 s for the lock of the file.                         *)

OpenCacheUnlocked(p) ==   \* seeded: opened although another process has it
    /\ main[p] = "opening"
    /\ fileLock' = p
    /\ MainGoto(p, "up")
    /\ UNCHANGED <<setupVars, tableVars, cast, cycle, rootDone>>

OpenCache(p) ==
    /\ main[p] = "opening" /\ fileLock = NoProcess
    /\ fileLock' = p
    /\ MainGoto(p, "up")
    /\ UNCHANGED <<setupVars, tableVars, cast, cycle, rootDone>>

OpenTimesOut(p) ==
    /\ main[p] = "opening" /\ fileLock # NoProcess
    /\ MainGoto(p, "off")
    /\ UNCHANGED <<setupVars, tableVars, cast, cycle, rootDone, fileLock>>

(* createEngine and the loop's goroutine, or NewEngine of a one-shot; then *)
(* RunOnce sets the target up.  Without the bucket's row there is no loop. *)

StartEngine(e) ==
    /\ main[Host(e)] = "up" /\ cycle[e] = "none"
    /\ IF Host(e) \in Servers /\ bucketRow = NoBucket
       THEN CycleGoto(e, "ended") /\ UNCHANGED setupVars
       ELSE CycleGoto(e, "setup") /\ BeginSetup(e)
    /\ UNCHANGED <<tableVars, cast, main, rootDone, fileLock>>

SetUp(e) ==
    /\ cycle[e] = "setup"
    /\ SetupStep(e)
    /\ cycle' = IF setupPc'[e] = "done" THEN [cycle EXCEPT ![e] = "cursor"] ELSE cycle
    /\ UNCHANGED <<tableVars, cast, main, rootDone, fileLock>>

-----------------------------------------------------------------------------
(* A cycle.  bbolt's Close holds the locks that the beginning of a         *)
(* transaction takes: one that comes during Close waits until it is over,  *)
(* and then fails.                                                         *)

Pause(e) == IF Host(e) \in Servers THEN "wait" ELSE "ended"

NewCursor(e) ==
    /\ cycle[e] = "cursor" /\ main[Host(e)] # "closing"
    /\ CycleGoto(e, IF main[Host(e)] = "up" THEN "transfer" ELSE Pause(e))
    /\ UNCHANGED <<setupVars, tableVars, cast, main, rootDone, fileLock>>

EndTransfer(e) ==       \* the results of pool and differ have been received
    /\ cycle[e] = "transfer"
    /\ CycleGoto(e, "release")
    /\ UNCHANGED <<setupVars, tableVars, cast, main, rootDone, fileLock>>

CloseCursor(e) ==       \* and then RunOnce returns, if the differ failed
    /\ cycle[e] = "release"
    /\ \E next \in {"record", Pause(e)} : CycleGoto(e, next)
    /\ UNCHANGED <<setupVars, tableVars, cast, main, rootDone, fileLock>>

PutMany(e) ==           \* its error is only logged
    /\ cycle[e] = "record" /\ main[Host(e)] # "closing"
    /\ CycleGoto(e, Pause(e))
    /\ UNCHANGED <<setupVars, tableVars, cast, main, rootDone, fileLock>>

NextCycle(e) ==         \* the timer; the pair is paused; the root context
    /\ cycle[e] = "wait"
    /\ \E next \in {"cursor", "ended"} : CycleGoto(e, next)
    /\ UNCHANGED <<setupVars, tableVars, cast, main, rootDone, fileLock>>

(* Resume of the pair: another engine, which has not set the target up     *)

Resume(e) ==
    /\ Host(e) \in Servers /\ main[Host(e)] = "up" /\ cycle[e] = "ended"
    /\ CycleGoto(e, "none")
    /\ KillSetups({e})
    /\ UNCHANGED <<tableVars, cast, main, rootDone, fileLock>>

Cycle(e) == \/ StartEngine(e) \/ SetUp(e) \/ NewCursor(e) \/ EndTransfer(e)
            \/ CloseCursor(e) \/ PutMany(e) \/ NextCycle(e)

-----------------------------------------------------------------------------
(* Stopping.  SIGTERM cancels the server's root context and ends its       *)
(* ListenAndServe; nobody waits for the loops, but Close of the cache      *)
(* waits for open cursors.  A signal is the end of a one-shot sync.        *)

CursorOpenUntilReturn(e) ==       \* seeded: closeCur is deferred
    cycle[e] \in {"transfer", "release", "record"}

CursorClosedEarly(e) ==           \* seeded: closed without waiting for the pool
    cycle[e] = "release"

CursorOpen(e) == cycle[e] \in {"transfer", "release"}

Terminate(p) ==
    /\ p \in Servers /\ main[p] = "up" /\ ~rootDone[p]
    /\ rootDone' = [rootDone EXCEPT ![p] = TRUE]
    /\ UNCHANGED <<setupVars, tableVars, cast, main, cycle, fileLock>>

BeginClose(p) ==
    /\ main[p] = "up"
    /\ rootDone[p] \/ (p \in OneShots /\ \A e \in EnginesOf[p] : cycle[e] = "ended")
    /\ MainGoto(p, "closing")
    /\ UNCHANGED <<setupVars, tableVars, cast, cycle, rootDone, fileLock>>

EndClose(p) ==
    /\ main[p] = "closing"
    /\ \A e \in EnginesOf[p] : ~CursorOpen(e)
    /\ fileLock' = NoProcess
    /\ MainGoto(p, "closed")
    /\ UNCHANGED <<setupVars, tableVars, cast, cycle, rootDone>>

EndProcess(p) ==
    /\ MainGoto(p, "off")
    /\ KillSetups(EnginesOf[p])
    /\ cycle' = [e \in Engines |-> IF e \in EnginesOf[p] THEN "none" ELSE cycle[e]]
    /\ rootDone' = [rootDone EXCEPT ![p] = FALSE]
    /\ fileLock' = IF fileLock = p THEN NoProcess ELSE fileLock
    /\ UNCHANGED <<tableVars, cast>>

Exit(p)  == main[p] = "closed" /\ EndProcess(p)
Crash(p) == main[p] # "off" /\ EndProcess(p)

Main(p) == OpenCache(p) \/ OpenTimesOut(p) \/ BeginClose(p) \/ EndClose(p) \/ Exit(p)

(* Editors and clients of the API.                                         *)

Served == \E s \in Servers : main[s] = "up"

Edit ==
    /\ \/ \E d \in Editors \cap cast : ReadBucket(d) \/ WriteBucket(d)
       \/ (Editors \cap cast # {} \/ (Clients \cap cast # {} /\ Served)) /\ DeleteBucket
       \/ Clients \cap cast # {} /\ Served /\ PutBucket
    /\ UNCHANGED <<setupVars, processVars>>

Foreigner == /\ Owners \cap cast # {}
             /\ ForeignCreate
             /\ UNCHANGED <<tableVars, processVars>>

Next == \/ \E p \in Processes : Start(p) \/ Main(p) \/ Terminate(p) \/ Crash(p)
        \/ \E e \in Engines : Cycle(e) \/ Resume(e)
        \/ Edit \/ Foreigner

Spec == Init /\ [][Next]_vars

(* Goroutines go on, requests of a setup have a context of 30 s and a      *)
(* cycle one of five minutes.  Nobody need start, stop or edit anything.   *)

FairSpec == /\ Spec
            /\ \A p \in Processes : WF_vars(Main(p))
            /\ \A e \in Engines : WF_vars(Cycle(e))

-----------------------------------------------------------------------------
(* Properties.                                                             *)

(* Types; and the process that has the file locked is the one that has     *)
(* opened the cache and not yet closed it.                                 *)

TypeOK ==
    /\ SetupTypeOK /\ TableTypeOK
    /\ cast \in Casts
    /\ main \in [Processes -> {"off", "opening", "up", "closing", "closed"}]
    /\ cycle \in [Engines -> {"none", "setup", "cursor", "transfer", "release",
                              "record", "wait", "ended"}]
    /\ rootDone \in [Processes -> BOOLEAN]
    /\ \A p \in Processes : fileLock = p <=> main[p] \in {"up", "closing"}

(* Two processes never sync at the same time over one cache, although a    *)
(* server that stops does not wait for its loops: what a one-shot sync     *)
(* compares the listing with is complete.                                  *)

TransfersExclusive ==
    \A e, f \in Engines :
        cycle[e] = "transfer" /\ cycle[f] = "transfer" => Host(e) = Host(f)

(* A server told to stop does stop, and a one-shot sync ends: the Close    *)
(* that waits for cursors and the transactions that wait for Close do not  *)
(* wait for each other.                                                    *)

CommandsEnd ==
    \A p \in Processes :
        (main[p] # "off" /\ (p \in OneShots \/ rootDone[p])) ~> main[p] = "off"

=============================================================================
