------------------------------ MODULE SyncRun --------------------------------
(***************************************************************************)
(* Engine.RunOnce of internal/sync/engine.go, cycle after cycle: the       *)
(* differ fills a channel, the worker pool (or the dry-run loop) drains    *)
(* it, and what succeeded is put in the cache the next cycle compares the  *)
(* listing with.  Clients write to the source all the time, a run may be   *)
(* cancelled and the process may crash.                                    *)
(*                                                                         *)
(* The differ is its contract (DiffContract, which StreamingDiff           *)
(* implements when no LIST fails), and may meet a LIST that fails before   *)
(* it emits anything; what it does after a later failure is a finding of   *)
(* StreamingDiff and not part of it.  The pool is WorkerPool itself.  A    *)
(* run is alone on its engine here (PairServer says when it is not).       *)
(*                                                                         *)
(* Metas are the versions 1, 2, ... clients write: a PUT gives an object a *)
(* LastModified it never had before.                                       *)
(***************************************************************************)
EXTENDS WorkerPool

CONSTANTS
    Foreign,          \* the ETag of an object the target had before
    MaxVersion,       \* bound: versions clients write
    MaxDisturbances   \* bound: cancellations, crashes and failed cache writes

ASSUME VersionsAssumption == Metas = 1 .. MaxVersion
ASSUME ForeignAssumption == Foreign \in ETags
ASSUME MetasAssumption == {Absent, Blank} \cap Metas = {}

(* the versions the keys hold at first                                     *)
ASSUME FirstVersionsAssumption ==
    MaxVersion \in Nat /\ \E n \in 0 .. MaxVersion : Keys = 1 .. n

VARIABLES
    history, records, outcome,       \* of DiffContract
    dryRun, deletePropagation,       \* the pair's settings
    cache,                           \* the pair's bbolt bucket
    epc,                             \* "idle", "running"
    nextVersion, disturbances        \* bounds

diffVars   == <<history, records, outcome>>
pair       == <<dryRun, deletePropagation>>
engineVars == <<cache, epc>>
bounds     == <<nextVersion, disturbances>>
svars == <<pvars, diffVars, pair, engineVars, bounds>>

Diff == INSTANCE DiffContract WITH deletes   <- deletePropagation,
                                   cancelled <- poolCtxDone,
                                   emitted   <- queue

NoHistory == [k \in Keys |-> {}]
NoRecords == [k \in Keys |-> Absent]

SInit ==
    /\ source = [k \in Keys |-> k] /\ nextVersion = Cardinality(Keys) + 1
    /\ target \in [Keys -> {Foreign, Absent}]
    /\ dryRun \in BOOLEAN /\ deletePropagation \in BOOLEAN
    /\ cache = NoRecords
    /\ epc = "idle" /\ disturbances = 0
    /\ history = NoHistory /\ records = NoRecords /\ outcome = "complete"
    /\ queue = <<>> /\ closed = FALSE /\ poolCtxDone = FALSE
    /\ StartPool

-----------------------------------------------------------------------------
(* The beginning of RunOnce: a new context, a read transaction on the      *)
(* cache, the channels, the differ's goroutine and the pool.               *)

StartRun ==
    /\ epc = "idle"
    /\ epc' = "running"
    /\ records' = cache
    /\ history' = [k \in Keys |-> {source[k]}]
    /\ outcome' = "running"
    /\ queue' = <<>> /\ closed' = FALSE /\ poolCtxDone' = FALSE
    /\ ResetPool
    /\ UNCHANGED <<source, target, pair, cache, bounds>>

(* The differ's goroutine                                                  *)

DiffEmits ==
    /\ epc = "running"
    /\ \E a \in PoolAction : Diff!EmitAction(a)
    /\ UNCHANGED <<source, target, taken, closed, workerState, collector,
                   progress, returned, pair, engineVars, bounds>>

(* The look at errCh before the first page is merged: the run ends with    *)
(* the error of a LIST it finds there.                                     *)

ListFails == "serviceError" \in PoolFaults /\ queue = <<>>

DiffReturns ==
    /\ epc = "running"
    /\ Diff!Complete \/ (Diff!Fail /\ (poolCtxDone \/ ListFails))
    /\ closed' = TRUE
    /\ UNCHANGED <<source, target, taken, workerState, collector, progress,
                   returned, pair, engineVars, bounds>>

(* The pool, or the dry-run loop in its place                              *)

PoolRunsAnyway ==   \* seeded: the pool also runs when the pair is a dry run
    /\ epc = "running"
    /\ PoolStep
    /\ UNCHANGED <<diffVars, pair, engineVars, bounds>>

PoolRuns ==
    /\ epc = "running" /\ ~dryRun
    /\ PoolStep
    /\ UNCHANGED <<diffVars, pair, engineVars, bounds>>

DryRunLoop ==
    /\ epc = "running" /\ dryRun /\ ~returned
    /\ \/ /\ taken < Len(queue)
          /\ taken' = taken + 1
          /\ succeeded' = Append(succeeded, queue[taken + 1])
          /\ UNCHANGED returned
       \/ /\ closed /\ taken = Len(queue)
          /\ returned' = TRUE
          /\ UNCHANGED <<taken, succeeded>>
    /\ UNCHANGED <<source, target, poolCtxDone, queue, closed, workerState,
                   failed, progress, diffVars, pair, engineVars, bounds>>

-----------------------------------------------------------------------------
(* The end of RunOnce, once the pool has returned and the differ's error   *)
(* has been received.                                                      *)

Recorded(a) == IF a.type = "copy" THEN a.meta ELSE Blank

PutManyAll(acts, before) ==   \* seeded: every action of the run is recorded
    [k \in Keys |->
        IF \E a \in Elements(queue) : a.key = k
        THEN Recorded(CHOOSE a \in Elements(queue) : a.key = k)
        ELSE before[k]]

PutMany(acts, before) ==
    [k \in Keys |->
        IF \E a \in Elements(acts) : a.key = k
        THEN Recorded(CHOOSE a \in Elements(acts) : a.key = k)
        ELSE before[k]]

EndRun ==
    /\ epc' = "idle"
    /\ history' = NoHistory /\ records' = NoRecords /\ outcome' = "complete"
    /\ queue' = <<>> /\ closed' = FALSE /\ poolCtxDone' = FALSE
    /\ ResetPool

RunFails ==
    /\ epc = "running" /\ returned /\ outcome = "failed"
    /\ EndRun
    /\ UNCHANGED <<source, target, pair, cache, bounds>>

RunCompletes ==
    /\ epc = "running" /\ returned /\ outcome = "complete"
    /\ \/ /\ cache' = PutMany(succeeded, cache)
          /\ UNCHANGED disturbances
       \/ /\ disturbances < MaxDisturbances      \* PutMany's error is logged
          /\ disturbances' = disturbances + 1
          /\ UNCHANGED cache
    /\ EndRun
    /\ UNCHANGED <<source, target, pair, nextVersion>>

-----------------------------------------------------------------------------
(* The environment.                                                        *)

Cancel ==
    /\ epc = "running" /\ ~poolCtxDone /\ disturbances < MaxDisturbances
    /\ Diff!CancelRun
    /\ disturbances' = disturbances + 1
    /\ UNCHANGED <<source, target, taken, closed, workerState, collector,
                   progress, returned, pair, engineVars, nextVersion>>

(* Reset of the pair clears its cache.  It has stopped the run before, but *)
(* the run may still be there, and even go on (PairServer).                *)

Clear ==
    /\ cache' = NoRecords
    /\ UNCHANGED <<pvars, diffVars, pair, epc, bounds>>

(* The process dies; S3 still performs some of the requests it received.   *)

Crash ==
    /\ epc = "running" /\ disturbances < MaxDisturbances
    /\ disturbances' = disturbances + 1
    /\ \E done \in SUBSET calling :
         target' = [k \in Keys |->
                      IF \E w \in done : cur[w].key = k
                      THEN Performed(CHOOSE w \in done : cur[w].key = k)[k]
                      ELSE target[k]]
    /\ EndRun
    /\ UNCHANGED <<source, pair, cache, nextVersion>>

SourceBecomes(k, v) ==
    /\ source' = [source EXCEPT ![k] = v]
    /\ history' = IF epc = "running" THEN [history EXCEPT ![k] = @ \cup {v}]
                  ELSE history
    /\ UNCHANGED <<target, poolCtxDone, poolVars, records, outcome, pair,
                   engineVars, disturbances>>

ClientPuts(k) ==
    /\ nextVersion <= MaxVersion
    /\ nextVersion' = nextVersion + 1
    /\ SourceBecomes(k, nextVersion)

ClientRemoves(k) ==
    /\ source[k] # Absent
    /\ SourceBecomes(k, Absent)
    /\ UNCHANGED nextVersion

DifferStep == DiffEmits \/ DiffReturns
Drainer == PoolRuns \/ DryRunLoop
Engine == StartRun \/ RunFails \/ RunCompletes

SNext == \/ Engine \/ DifferStep \/ Drainer \/ Cancel \/ Clear \/ Crash
         \/ \E k \in Keys : ClientPuts(k) \/ ClientRemoves(k)

SSpec == SInit /\ [][SNext]_svars

(* The loop's timer starts a run again and again (PairServer); within a    *)
(* run each goroutine proceeds.                                            *)

SFairSpec == SSpec /\ WF_svars(Engine) /\ WF_svars(DifferStep) /\ WF_svars(Drainer)

-----------------------------------------------------------------------------
(* Properties.                                                             *)

(* What a later run will skip is in place: while cache and source agree on *)
(* a key, the target holds that object.  (README.md:204, "Only             *)
(* successfully transferred objects are cached.")                          *)

CachedMeansTransferred ==
    \A k \in Keys : cache[k] \in Metas /\ cache[k] = source[k]
                      => target[k] = ETagOf[source[k]]

SkipIsSafe == ~dryRun => CachedMeansTransferred

(* If S3 eventually stops failing calls, then - clients having stopped -   *)
(* every object the target has under a listed key is the source's, and     *)
(* every key that was synced and is gone from the source is gone from the  *)
(* target: failed actions are tried again in a later cycle.                *)

ServiceFailure ==
    \/ \E w \in Workers : /\ failing[w]
                          /\ target[cur[w].key] # Absent
                          /\ cur[w].type = "copy" => source[cur[w].key] # Absent
    \/ outcome = "failed" /\ ~poolCtxDone      \* a LIST

Mirrored ==
    \A k \in Keys :
        /\ source[k] # Absent /\ target[k] # Absent
             => target[k] = ETagOf[source[k]]
        /\ source[k] = Absent /\ cache[k] # Absent /\ deletePropagation
             => target[k] = Absent

EventuallyMirrored == <>[]~ServiceFailure => <>[](dryRun \/ Mirrored)

(* Every step of every cycle is one Mirror allows: the target only changes *)
(* towards what the source holds when S3 performs the request, for a       *)
(* reason the cycle has seen, and the cache learns only of what was seen   *)
(* and is in place.                                                        *)

M == INSTANCE Mirror WITH working  <- epc = "running",
                          seen     <- history,
                          snapshot <- records,
                          dry      <- dryRun,
                          deletes  <- deletePropagation

ImplementsMirror == M!MSpec

=============================================================================
