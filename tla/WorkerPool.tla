----------------------------- MODULE WorkerPool ------------------------------
(***************************************************************************)
(* WorkerPool.Run of internal/sync/worker.go: workers take SyncActions     *)
(* from the channel the differ fills, call S3 with retries and hand one    *)
(* result per action to the collector over an unbuffered channel; a closer *)
(* goroutine ends the collector once every worker has returned.            *)
(*                                                                         *)
(* The channel of actions is the sequence queue, of which `taken` have     *)
(* been received.  The target bucket holds an ETag per key: CopyObject     *)
(* copies whatever the source holds when S3 performs it.                   *)
(***************************************************************************)
EXTENDS Integers, Sequences, FiniteSets

CONSTANTS
    Workers,       \* the goroutines of the pool (WorkerCount of the pair)
    Keys, Metas,   \* as in StreamingDiff
    ETags, ETagOf, \* the ETags, and the ETag of each (ETag, LastModified)
    Absent, Blank,
    NoAction,      \* a worker that holds no action
    MaxAttempts,   \* the last argument of the retryS3 calls (3)
    PoolFaults     \* a subset of PoolFaultKinds

PoolFaultKinds ==
    {"serviceError",  \* a call fails, after S3 performed it or not
     "slow",          \* the 30 s of an action's context run out
     "cancel",        \* the run's context is cancelled
     "sourceChange"}  \* clients write to the source meanwhile

ASSUME WorkersAssumption == IsFiniteSet(Workers)
ASSUME PoolKeysAssumption == Keys \subseteq Nat \ {0}
ASSUME ETagAssumption == ETagOf \in [Metas -> ETags] /\ Absent \notin ETags
ASSUME AttemptsAssumption == MaxAttempts \in Nat \ {0}
ASSUME PoolFaultsAssumption == PoolFaults \subseteq PoolFaultKinds

VARIABLES
    source, target,   \* the two buckets
    queue, taken,     \* the actions channel
    closed,           \* the differ has closed it
    poolCtxDone,
    wpc, cur, attempt, failing,   \* per worker
    calling,                      \* the workers with a request at S3
    succeeded, failed,            \* what the collector has
    completed, failures,          \* Progress.Completed and Progress.Failed
    returned                      \* Run has returned

workerState == <<wpc, cur, attempt, failing, calling>>
collector   == <<succeeded, failed>>
progress    == <<completed, failures>>
poolVars    == <<queue, taken, closed, workerState, collector, progress, returned>>
pvars       == <<source, target, poolCtxDone, poolVars>>

Elements(s) == {s[i] : i \in DOMAIN s}

PoolAction == [type : {"copy"}, key : Keys, meta : Metas]
                \cup [type : {"delete"}, key : Keys, meta : {Blank}]

Idle == [w \in Workers |-> "idle"]

StartPool ==
    /\ taken = 0
    /\ wpc = Idle
    /\ cur = [w \in Workers |-> NoAction]
    /\ attempt = [w \in Workers |-> 0]
    /\ failing = [w \in Workers |-> FALSE]
    /\ calling = {}
    /\ succeeded = <<>> /\ failed = 0
    /\ completed = 0 /\ failures = 0
    /\ returned = FALSE

ResetPool ==   \* StartPool for the next call of Run
    /\ taken' = 0
    /\ wpc' = Idle
    /\ cur' = [w \in Workers |-> NoAction]
    /\ attempt' = [w \in Workers |-> 0]
    /\ failing' = [w \in Workers |-> FALSE]
    /\ calling' = {}
    /\ succeeded' = <<>> /\ failed' = 0
    /\ completed' = 0 /\ failures' = 0
    /\ returned' = FALSE

-----------------------------------------------------------------------------
(* A worker receives an action, or finds the channel closed and drained.   *)

Take(w) ==
    /\ wpc[w] = "idle"
    /\ taken < Len(queue)
    /\ taken' = taken + 1
    /\ LET a == queue[taken + 1] IN
         /\ cur' = [cur EXCEPT ![w] = a]
         /\ wpc' = [wpc EXCEPT ![w] = IF a.type = "copy" THEN "head" ELSE "delete"]
    /\ attempt' = [attempt EXCEPT ![w] = 1]
    /\ UNCHANGED <<source, target, poolCtxDone, queue, closed, failing,
                   calling, collector, progress, returned>>

ExitOnlyIfEmpty(w) ==   \* seeded: waits for an action that never comes
    /\ wpc[w] = "idle"
    /\ closed /\ queue = <<>>
    /\ wpc' = [wpc EXCEPT ![w] = "exited"]
    /\ UNCHANGED <<source, target, poolCtxDone, queue, taken, closed, cur,
                   attempt, failing, calling, collector, progress, returned>>

Exit(w) ==
    /\ wpc[w] = "idle"
    /\ closed /\ taken = Len(queue)
    /\ wpc' = [wpc EXCEPT ![w] = "exited"]
    /\ UNCHANGED <<source, target, poolCtxDone, queue, taken, closed, cur,
                   attempt, failing, calling, collector, progress, returned>>

-----------------------------------------------------------------------------
(* The S3 calls.  What S3 does for a worker in each phase: a HEAD changes  *)
(* nothing, a COPY needs the source object, a DELETE always works.         *)

Performed(w) ==
    LET k == cur[w].key IN
    CASE wpc[w] = "copy"   -> [target EXCEPT ![k] = IF source[k] = Absent THEN @
                                                    ELSE ETagOf[source[k]]]
      [] wpc[w] = "delete" -> [target EXCEPT ![k] = Absent]
      [] OTHER             -> target

InAction(w) == wpc[w] \in {"head", "copy", "delete"}

(* fn(ctx): with a cancelled context neither WaitLog nor the SDK begins    *)

BeginCall(w) ==
    /\ InAction(w)
    /\ w \notin calling
    /\ ~poolCtxDone
    /\ calling' = calling \cup {w}
    /\ UNCHANGED <<source, target, poolCtxDone, queue, taken, closed, wpc, cur,
                   attempt, failing, collector, progress, returned>>

EndCall(w) == calling' = calling \ {w}

(* HeadObject and CopyObject answer with an error for a missing object     *)

RefusedSilently(w) == FALSE   \* seeded: a missing object taken for an answer

Refused(w) == \/ wpc[w] = "head" /\ target[cur[w].key] = Absent
              \/ wpc[w] = "copy" /\ source[cur[w].key] = Absent

Report(w, bad) ==
    /\ wpc' = [wpc EXCEPT ![w] = "report"]
    /\ failing' = [failing EXCEPT ![w] = bad]

(* retryS3: an error that is not the context's is tried again until the    *)
(* attempts are used up, the delay between them ending early with the      *)
(* context (Aborts).                                                       *)

AttemptFailsForever(w) ==   \* seeded: the attempt is not compared in time
    /\ w \in calling /\ EndCall(w)
    /\ Refused(w) /\ UNCHANGED target
    /\ attempt' = [attempt EXCEPT ![w] = @ + 1]
    /\ IF attempt[w] <= MaxAttempts THEN UNCHANGED <<wpc, failing>> ELSE Report(w, TRUE)
    /\ UNCHANGED <<source, poolCtxDone, queue, taken, closed, cur, collector,
                   progress, returned>>

AttemptFails(w) ==
    /\ w \in calling /\ EndCall(w)
    /\ \/ Refused(w) /\ UNCHANGED target
       \/ "serviceError" \in PoolFaults /\ target' \in {target, Performed(w)}
    /\ \/ /\ attempt[w] < MaxAttempts
          /\ attempt' = [attempt EXCEPT ![w] = @ + 1]
          /\ UNCHANGED <<wpc, failing>>
       \/ /\ attempt[w] = MaxAttempts
          /\ Report(w, TRUE)
          /\ UNCHANGED attempt
    /\ UNCHANGED <<source, poolCtxDone, queue, taken, closed, cur, collector,
                   progress, returned>>

AbortsSilently(w) ==   \* seeded: a cancelled worker returns without a result
    /\ InAction(w) /\ EndCall(w)
    /\ poolCtxDone
    /\ wpc' = [wpc EXCEPT ![w] = "exited"]
    /\ UNCHANGED <<source, target, poolCtxDone, queue, taken, closed, cur,
                   attempt, failing, collector, progress, returned>>

Aborts(w) ==
    /\ InAction(w) /\ EndCall(w)
    /\ poolCtxDone \/ "slow" \in PoolFaults
    /\ target' \in IF w \in calling THEN {target, Performed(w)} ELSE {target}
    /\ Report(w, TRUE)
    /\ UNCHANGED <<source, poolCtxDone, queue, taken, closed, cur, attempt,
                   collector, progress, returned>>

(* copyObject goes on to the COPY unless the ETags agree                   *)

HeadAnswersAnyETag(w) ==   \* seeded: any object found counts as up to date
    /\ wpc[w] = "head" /\ w \in calling /\ EndCall(w)
    /\ ~Refused(w)
    /\ Report(w, FALSE)
    /\ UNCHANGED <<source, target, poolCtxDone, queue, taken, closed, cur,
                   attempt, collector, progress, returned>>

HeadAnswers(w) ==
    /\ wpc[w] = "head" /\ w \in calling /\ EndCall(w)
    /\ ~Refused(w)
    /\ IF target[cur[w].key] = ETagOf[cur[w].meta]
       THEN Report(w, FALSE) /\ UNCHANGED attempt
       ELSE /\ wpc' = [wpc EXCEPT ![w] = "copy"]
            /\ attempt' = [attempt EXCEPT ![w] = 1]
            /\ UNCHANGED failing
    /\ UNCHANGED <<source, target, poolCtxDone, queue, taken, closed, cur,
                   collector, progress, returned>>

CallSucceeds(w) ==
    /\ wpc[w] \in {"copy", "delete"} /\ w \in calling /\ EndCall(w)
    /\ ~Refused(w)
    /\ target' = Performed(w)
    /\ Report(w, FALSE)
    /\ UNCHANGED <<source, poolCtxDone, queue, taken, closed, cur, attempt,
                   collector, progress, returned>>

-----------------------------------------------------------------------------
(* results <- result{...} meets the collector's receive in one step, then  *)
(* the worker counts the action in Progress and returns to its loop.       *)

SendResult(w) ==
    /\ wpc[w] = "report"
    /\ IF failing[w]
       THEN failed' = failed + 1 /\ UNCHANGED succeeded
       ELSE succeeded' = Append(succeeded, cur[w]) /\ UNCHANGED failed
    /\ wpc' = [wpc EXCEPT ![w] = "count"]
    /\ UNCHANGED <<source, target, poolCtxDone, queue, taken, closed, cur,
                   attempt, failing, calling, progress, returned>>

AddProgress(w) ==
    /\ wpc[w] = "count"
    /\ completed' = completed + 1
    /\ failures' = IF failing[w] THEN failures + 1 ELSE failures
    /\ wpc' = [wpc EXCEPT ![w] = "idle"]
    /\ cur' = [cur EXCEPT ![w] = NoAction]
    /\ attempt' = [attempt EXCEPT ![w] = 0]
    /\ failing' = [failing EXCEPT ![w] = FALSE]
    /\ UNCHANGED <<source, target, poolCtxDone, queue, taken, closed,
                   calling, collector, returned>>

(* wg.Wait, close(results), the end of the collector's range, Run's return *)

ReturnBeforeCount ==   \* seeded: wg.Done() before Progress.Add
    /\ ~returned
    /\ closed /\ taken = Len(queue)
    /\ \A w \in Workers : wpc[w] \in {"exited", "count"}
    /\ returned' = TRUE
    /\ UNCHANGED <<source, target, poolCtxDone, queue, taken, closed,
                   workerState, collector, progress>>

Return ==
    /\ ~returned
    /\ \A w \in Workers : wpc[w] = "exited"
    /\ returned' = TRUE
    /\ UNCHANGED <<source, target, poolCtxDone, queue, taken, closed,
                   workerState, collector, progress>>

Worker(w) == \/ Take(w) \/ Exit(w) \/ BeginCall(w) \/ AttemptFails(w) \/ Aborts(w)
             \/ HeadAnswers(w) \/ CallSucceeds(w) \/ SendResult(w) \/ AddProgress(w)

PoolStep == Return \/ \E w \in Workers : Worker(w)

-----------------------------------------------------------------------------
(* The pool on its own: the differ's channel is filled and closed by the   *)
(* environment, in key order and with one action per key (OneActionPerKey  *)
(* of StreamingDiff).                                                      *)

PInit ==
    /\ source \in [Keys -> Metas \cup {Absent}]
    /\ target \in [Keys -> ETags \cup {Absent}]
    /\ queue = <<>> /\ closed = FALSE /\ poolCtxDone = FALSE
    /\ StartPool

Produce ==
    /\ ~closed
    /\ \E a \in PoolAction :
         /\ \A b \in Elements(queue) : b.key < a.key
         /\ queue' = Append(queue, a)
    /\ UNCHANGED <<source, target, poolCtxDone, taken, closed, workerState,
                   collector, progress, returned>>

CloseQueue ==
    /\ ~closed
    /\ closed' = TRUE
    /\ UNCHANGED <<source, target, poolCtxDone, queue, taken, workerState,
                   collector, progress, returned>>

CancelPool ==
    /\ "cancel" \in PoolFaults /\ ~poolCtxDone
    /\ poolCtxDone' = TRUE
    /\ UNCHANGED <<source, target, poolVars>>

ClientWrites ==
    /\ "sourceChange" \in PoolFaults
    /\ \E k \in Keys, v \in Metas \cup {Absent} :
          source' = [source EXCEPT ![k] = v]
    /\ UNCHANGED <<target, poolCtxDone, poolVars>>

PoolFinished == returned /\ UNCHANGED pvars

PNext == PoolStep \/ Produce \/ CloseQueue \/ CancelPool
         \/ ClientWrites \/ PoolFinished

PSpec == PInit /\ [][PNext]_pvars

(* Each call is bounded by its 30 s context and each delay by a timer; the *)
(* differ closes the channel (StreamingDiff!Terminates).                   *)

PFairSpec == /\ PSpec
             /\ \A w \in Workers : WF_pvars(Worker(w))
             /\ WF_pvars(Return) /\ WF_pvars(CloseQueue)

-----------------------------------------------------------------------------
(* Properties.                                                             *)

Holding == {w \in Workers : wpc[w] \notin {"idle", "exited", "count"}}
Uncounted == {w \in Workers : wpc[w] = "count"}

PoolTypeOK ==
    /\ source \in [Keys -> Metas \cup {Absent}]
    /\ target \in [Keys -> ETags \cup {Absent}]
    /\ queue \in Seq(PoolAction) /\ taken \in 0 .. Len(queue)
    /\ closed \in BOOLEAN /\ poolCtxDone \in BOOLEAN /\ returned \in BOOLEAN
    /\ wpc \in [Workers -> {"idle", "head", "copy", "delete", "report",
                            "count", "exited"}]
    /\ cur \in [Workers -> PoolAction \cup {NoAction}]
    /\ attempt \in [Workers -> 0 .. MaxAttempts]
    /\ failing \in [Workers -> BOOLEAN]
    /\ calling \subseteq {w \in Workers : InAction(w)}
    /\ succeeded \in Seq(PoolAction)
    /\ failed \in Nat /\ completed \in Nat /\ failures \in Nat

(* Every action a worker received is with exactly one worker or has been   *)
(* reported exactly once: retries, cancellation and a failing neighbour    *)
(* neither lose a result nor report one twice.                             *)

EveryActionReportedOnce ==
    taken = Len(succeeded) + failed + Cardinality(Holding)

(* Progress never runs ahead of the results, and is exact once Run has     *)
(* returned: RunOnce sets Total to the number of results and the API then  *)
(* shows Completed = Total.                                                *)

ProgressAgrees ==
    /\ completed + Cardinality(Uncounted) = Len(succeeded) + failed
    /\ failures <= failed
    /\ returned => completed = Len(queue) /\ failures = failed

(* What a worker reports as done is done: the target then holds, or after  *)
(* a DELETE lacks, the object.  RunOnce caches these actions, and the next *)
(* run skips what the cache and the listing agree about.                   *)

SuccessMeansDone ==
    \A i \in DOMAIN succeeded :
        LET a == succeeded[i] IN
        IF a.type = "copy" THEN target[a.key] # Absent ELSE target[a.key] = Absent

(* Run returns, whatever the calls do, once the channel is closed.         *)

PoolReturns == <>returned

(* "Not in cache -> COPY" (README.md:214): without any fault a copy of an  *)
(* object the source holds does not fail.                                  *)

CopiesSucceedWithoutFaults ==
    \A w \in Workers :
        wpc[w] = "report" /\ cur[w].type = "copy" /\ source[cur[w].key] = cur[w].meta
          => ~failing[w]

=============================================================================
