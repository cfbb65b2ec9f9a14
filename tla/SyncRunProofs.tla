---------------------------- MODULE SyncRunProofs ----------------------------
(***************************************************************************)
(* What the cache lets a later cycle skip is in place (SkipIsSafe), and    *)
(* every cycle is one of Mirror's: for any keys, versions, workers and     *)
(* attempts, however calls fail, whenever clients write, and wherever a    *)
(* cancellation, a crash, a failed PutMany or a reset falls.               *)
(***************************************************************************)
EXTENDS SyncRun, WorkerPoolProofs

(* A version that was taken away never comes back: what clients write next *)
(* is greater than all the run has seen.                                   *)

Known(v) == v \in Metas => v < nextVersion

KnownInv ==
    /\ \A k \in Keys : /\ Known(source[k]) /\ Known(cache[k]) /\ Known(records[k])
                       /\ \A v \in history[k] : Known(v)
    /\ \A i \in DOMAIN queue : Known(queue[i].meta)
    /\ \A i \in DOMAIN succeeded : Known(succeeded[i].meta)
    /\ \A w \in Holding : Known(cur[w].meta)

SyncTypes ==
    /\ nextVersion \in Nat \ {0}
    /\ cache \in [Keys -> Metas \cup {Absent, Blank}]
    /\ records \in [Keys -> Metas \cup {Absent, Blank}]
    /\ history \in [Keys -> SUBSET (Metas \cup {Absent})]

(* While the snapshot and the source agree on a key the run has seen       *)
(* nothing else there, and does nothing to it.                             *)

Agrees(record, k) == record[k] \in Metas /\ record[k] = source[k]

RunInv ==
    /\ \A k \in Keys : Agrees(records, k) => history[k] \subseteq {source[k]}
    /\ \A i \in DOMAIN queue : ~ Agrees(records, queue[i].key)
    /\ epc = "running" => \A k \in Keys : cache[k] \in {records[k], Absent}
    /\ outcome = "running" => ~closed

(* What is reported as copied is what the target holds, as long as it is   *)
(* what the source holds.                                                  *)

Current(a) == a.type = "copy" /\ source[a.key] = a.meta => target[a.key] = ETagOf[a.meta]

CopiesInv ==
    /\ \A w \in Workers : wpc[w] = "report" /\ ~failing[w] => Current(cur[w])
    /\ \A i \in DOMAIN succeeded : Current(succeeded[i])

CycleInv == SyncTypes /\ KnownInv /\ RunInv /\ CopiesInv /\ CachedMeansTransferred

SInv == dryRun \/ (IInv /\ CycleInv)

-----------------------------------------------------------------------------
(* Actions that are in a sequence, a worker's hands or the totals.         *)

LEMMA ActionTypes ==
    ASSUME IInv
    PROVE  /\ \A i \in DOMAIN queue : queue[i] \in PoolAction
           /\ \A i \in DOMAIN succeeded : succeeded[i] \in PoolAction
           /\ \A w \in Holding : cur[w] \in PoolAction
           /\ \A w \in Workers : InAction(w) \/ wpc[w] = "report" => w \in Holding
<1>1. queue \in Seq(PoolAction) /\ succeeded \in Seq(PoolAction)
  BY DEF IInv, TypeInv, PoolTypeOK
<1>2. /\ \A w \in Holding : cur[w] \in PoolAction
      /\ \A w \in Workers : InAction(w) \/ wpc[w] = "report" => w \in Holding
  BY DEF IInv, TypeInv, Equipped, Holding, InAction
<1> QED  BY <1>1, <1>2

(* No worker calls S3 for a key on which cache and source agree.           *)

LEMMA HandsOff ==
    ASSUME IInv, CycleInv, epc = "running", NEW w \in Workers, InAction(w)
    PROVE  cur[w].key \in Keys /\ ~ Agrees(cache, cur[w].key)
<1>1. w \in Holding /\ cur[w] \in PoolAction
  BY ActionTypes
<1>2. cur[w].key \in Keys
  BY <1>1, ActionParts
<1>3. PICK i \in 1 .. taken : queue[i].key = cur[w].key
  BY <1>1 DEF IInv, DoneInv, OwnKeys, TakenKey
<1>4. i \in DOMAIN queue
  BY DEF IInv, TypeInv, PoolTypeOK
<1>5. ~ Agrees(records, cur[w].key)
  BY <1>3, <1>4 DEF CycleInv, RunInv
<1> QED  BY <1>2, <1>5, MetasAssumption DEF CycleInv, RunInv, Agrees

-----------------------------------------------------------------------------
(* A step of the pool: a worker's call, or a result that changes hands.    *)

(* The copy of a version that is still there is what the target holds.     *)

LEMMA CallIsCurrent ==
    ASSUME IInv, NEW w \in Workers, CallStep(w), wpc'[w] = "report", ~failing'[w]
    PROVE  Current(cur[w])'
<1>1. MovedOn(w)
  BY CallShape DEF IInv
<1>2. /\ cur[w] \in PoolAction /\ cur[w].key \in Keys
      /\ wpc \in [Workers -> {"idle", "head", "copy", "delete", "report", "count", "exited"}]
      /\ failing \in [Workers -> BOOLEAN] /\ target \in [Keys -> ETags \cup {Absent}]
  BY <1>1, ActionParts DEF MovedOn, IInv, TypeInv, Equipped, InAction, PoolTypeOK
<1>3. source' = source /\ cur' = cur /\ wpc[w] # "report"
  BY <1>1 DEF MovedOn, InAction
<1>4. CASE BeginCall(w)
  BY <1>3, <1>4 DEF BeginCall
<1>5. CASE AttemptFails(w)
  BY <1>2, <1>3, <1>5 DEF AttemptFails, Report
<1>6. CASE Aborts(w)
  BY <1>2, <1>6 DEF Aborts, Report
<1>7. CASE HeadAnswers(w)
  <2>1. target' = target /\ target[cur[w].key] = ETagOf[cur[w].meta]
    BY <1>2, <1>3, <1>7 DEF HeadAnswers
  <2> QED  BY <1>3, <2>1 DEF Current
<1>8. CASE CallSucceeds(w)
  <2>1. CASE wpc[w] = "delete"
    <3>1. cur[w].type = "delete"
      BY <2>1 DEF IInv, TypeInv, Equipped
    <3> QED  BY <1>3, <3>1 DEF Current
  <2>2. CASE wpc[w] = "copy"
    <3>1. target' = [target EXCEPT ![cur[w].key] = ETagOf[source[cur[w].key]]]
      BY <1>8, <2>2 DEF CallSucceeds, Refused, Performed
    <3> QED  BY <1>2, <1>3, <3>1 DEF Current
  <2> QED  BY <1>8, <2>1, <2>2 DEF CallSucceeds
<1> QED  BY <1>4, <1>5, <1>6, <1>7, <1>8 DEF CallStep

(* A call changes only its worker's key, which cache and source do not     *)
(* agree on and nobody else has done anything about.                       *)

LEMMA CallKeeps ==
    ASSUME IInv, CycleInv, epc = "running", NEW w \in Workers, CallStep(w),
           UNCHANGED <<diffVars, engineVars, bounds>>
    PROVE  CycleInv'
<1>1. MovedOn(w)
  BY CallShape DEF IInv
<1>2. /\ UNCHANGED <<source, queue, taken, closed, cur, succeeded, history, records,
                     outcome, cache, epc, nextVersion>>
      /\ InAction(w) /\ w \in Holding
      /\ \A v \in Workers : v # w => wpc'[v] = wpc[v] /\ failing'[v] = failing[v]
      /\ Holding' = Holding
  BY <1>1, ActionTypes
     DEF MovedOn, diffVars, engineVars, bounds, collector, Holding, InAction
<1>3. \A k \in Keys : k # cur[w].key => target'[k] = target[k]
  BY <1>1, <1>2, PerformedType DEF MovedOn, IInv
<1>4. SyncTypes' /\ KnownInv' /\ RunInv'
  BY <1>2 DEF CycleInv, SyncTypes, KnownInv, Known, RunInv, Agrees
<1>5. CachedMeansTransferred'
  BY <1>2, <1>3, HandsOff DEF CycleInv, CachedMeansTransferred, Agrees
<1>6. \A v \in Workers : (wpc[v] = "report" /\ ~failing[v])' => Current(cur[v])'
  <2> SUFFICES ASSUME NEW v \in Workers, wpc'[v] = "report", ~failing'[v]
               PROVE  Current(cur[v])'
    OBVIOUS
  <2>1. CASE v = w
    BY <2>1, CallIsCurrent
  <2>2. CASE v # w
    <3>1. wpc[v] = "report" /\ ~failing[v] /\ v \in Holding
      BY <1>2, <2>2, ActionTypes
    <3>2. cur[v].key \in Keys /\ cur[v].key # cur[w].key
      BY <1>2, <2>2, <3>1, ActionTypes, ActionParts DEF IInv, DoneInv, OwnKeys
    <3> QED  BY <1>2, <1>3, <3>1, <3>2 DEF CycleInv, CopiesInv, Current
  <2> QED  BY <2>1, <2>2
<1>7. \A i \in DOMAIN succeeded' : Current(succeeded[i])'
  <2> SUFFICES ASSUME NEW i \in DOMAIN succeeded PROVE Current(succeeded[i])'
    BY <1>2
  <2>1. succeeded[i].key \in Keys /\ succeeded[i].key # cur[w].key
    BY <1>2, ActionTypes, ActionParts DEF IInv, DoneInv, OwnKeys
  <2> QED  BY <1>2, <1>3, <2>1 DEF CycleInv, CopiesInv, Current
<1> QED  BY <1>4, <1>5, <1>6, <1>7 DEF CycleInv, CopiesInv

(* The steps that change no bucket.                                        *)

LEMMA PoolKeeps ==
    ASSUME IInv, CycleInv, epc = "running", PoolStep,
           UNCHANGED <<diffVars, engineVars, bounds>>
    PROVE  CycleInv'
<1>1. UNCHANGED <<history, records, outcome, cache, epc, nextVersion>>
  BY DEF diffVars, engineVars, bounds
<1>2. ASSUME UNCHANGED <<source, target, queue, closed>>, KnownInv', CopiesInv'
      PROVE  CycleInv'
  BY <1>1, <1>2 DEF CycleInv, SyncTypes, RunInv, Agrees, CachedMeansTransferred
<1>3. \A i \in DOMAIN queue : queue[i] \in PoolAction
  BY ActionTypes
<1>4. wpc \in [Workers -> {"idle", "head", "copy", "delete", "report", "count", "exited"}]
      /\ cur \in [Workers -> PoolAction \cup {NoAction}]
      /\ failing \in [Workers -> BOOLEAN]
  BY DEF IInv, TypeInv, PoolTypeOK
<1>5. ASSUME NEW w \in Workers, Take(w)
      PROVE  CycleInv'
  <2>1. /\ UNCHANGED <<source, target, queue, closed, failing, succeeded>>
        /\ cur' = [cur EXCEPT ![w] = queue[taken + 1]]
        /\ wpc[w] = "idle"
        /\ wpc'[w] \in {"head", "delete"}
        /\ \A v \in Workers : v # w => wpc'[v] = wpc[v] /\ cur'[v] = cur[v]
        /\ taken + 1 \in DOMAIN queue
    BY <1>4, <1>5 DEF Take, collector, IInv, TypeInv, PoolTypeOK
  <2>2. \A v \in Workers : v # w /\ v \in Holding' => v \in Holding
    BY <2>1 DEF Holding
  <2>3. KnownInv'
    BY <1>1, <1>4, <2>1, <2>2 DEF CycleInv, KnownInv, Known, Holding
  <2>4. CopiesInv'
    BY <2>1 DEF CycleInv, CopiesInv, Current
  <2> QED  BY <1>2, <2>1, <2>3, <2>4
<1>6. ASSUME NEW w \in Workers, Exit(w)
      PROVE  CycleInv'
  <2>1. /\ UNCHANGED <<source, target, queue, closed, failing, succeeded, cur>>
        /\ wpc' = [wpc EXCEPT ![w] = "exited"]
    BY <1>6 DEF Exit, collector
  <2>2. KnownInv' /\ CopiesInv'
    BY <1>1, <1>4, <2>1 DEF CycleInv, KnownInv, Known, Holding, CopiesInv, Current
  <2> QED  BY <1>2, <2>1, <2>2
<1>7. ASSUME NEW w \in Workers, SendResult(w)
      PROVE  CycleInv'
  <2>1. /\ UNCHANGED <<source, target, queue, closed, failing, cur>>
        /\ wpc' = [wpc EXCEPT ![w] = "count"] /\ wpc[w] = "report"
        /\ \/ UNCHANGED succeeded
           \/ ~failing[w] /\ succeeded' = Append(succeeded, cur[w])
    BY <1>7 DEF SendResult
  <2>2. w \in Holding /\ cur[w] \in PoolAction /\ succeeded \in Seq(PoolAction)
    BY <2>1, ActionTypes DEF IInv, TypeInv, PoolTypeOK
  <2>3. \A i \in DOMAIN succeeded' :
           \/ i \in DOMAIN succeeded /\ succeeded'[i] = succeeded[i]
           \/ succeeded'[i] = cur[w] /\ ~failing[w]
    BY <2>1, <2>2
  <2>4. Holding' \subseteq Holding
    BY <1>4, <2>1 DEF Holding
  <2>5. KnownInv'
    BY <1>1, <2>1, <2>2, <2>3, <2>4 DEF CycleInv, KnownInv, Known
  <2>6. CopiesInv'
    BY <1>4, <2>1, <2>3 DEF CycleInv, CopiesInv, Current
  <2> QED  BY <1>2, <2>1, <2>5, <2>6
<1>8. ASSUME NEW w \in Workers, AddProgress(w)
      PROVE  CycleInv'
  <2>1. /\ UNCHANGED <<source, target, queue, closed, succeeded>>
        /\ wpc'[w] = "idle"
        /\ \A v \in Workers : v # w => wpc'[v] = wpc[v] /\ cur'[v] = cur[v]
                                         /\ failing'[v] = failing[v]
    BY <1>4, <1>8 DEF AddProgress, collector
  <2>2. KnownInv' /\ CopiesInv'
    BY <1>1, <2>1 DEF CycleInv, KnownInv, Known, Holding, CopiesInv, Current
  <2> QED  BY <1>2, <2>1, <2>2
<1>9. CASE Return
  <2>1. UNCHANGED <<source, target, queue, closed, failing, succeeded, cur, wpc>>
    BY <1>9 DEF Return, collector, workerState
  <2>2. KnownInv' /\ CopiesInv'
    BY <1>1, <2>1 DEF CycleInv, KnownInv, Known, Holding, CopiesInv, Current
  <2> QED  BY <1>2, <2>1, <2>2
<1> QED  BY <1>5, <1>6, <1>7, <1>8, <1>9, CallKeeps DEF PoolStep, Worker, CallStep

-----------------------------------------------------------------------------
(* A cycle begins or ends: an empty channel and a pool at rest.            *)

LEMMA RestInv ==
    ASSUME IInv, ResetPool, queue' = <<>>, closed' = FALSE, poolCtxDone' = FALSE,
           UNCHANGED source, target' \in [Keys -> ETags \cup {Absent}]
    PROVE  /\ IInv' /\ Holding' = {} /\ DOMAIN queue' = {} /\ DOMAIN succeeded' = {}
           /\ \A w \in Workers : wpc'[w] = "idle"
<1>1. (PInit => IInv)'
  BY InitInv, PTL
<1>2. PInit'
  BY DEF PInit, StartPool, ResetPool, Idle, IInv, TypeInv, PoolTypeOK
<1>3. \A w \in Workers : wpc'[w] = "idle"
  BY DEF ResetPool, Idle
<1> QED  BY <1>1, <1>2, <1>3 DEF Holding, ResetPool

(* The differ's snapshot is the cache, and what it has seen the source.    *)

LEMMA StartKeeps ==
    ASSUME IInv, CycleInv, StartRun
    PROVE  IInv' /\ CycleInv'
<1>1. /\ ResetPool /\ queue' = <<>> /\ closed' = FALSE /\ poolCtxDone' = FALSE
      /\ UNCHANGED <<source, target, cache, nextVersion>>
      /\ records' = cache /\ history' = [k \in Keys |-> {source[k]}]
  BY DEF StartRun, bounds
<1>2. /\ IInv' /\ Holding' = {} /\ DOMAIN queue' = {} /\ DOMAIN succeeded' = {}
      /\ \A w \in Workers : wpc'[w] = "idle"
  BY <1>1, RestInv DEF IInv, TypeInv, PoolTypeOK
<1>3. SyncTypes'
  BY <1>1 DEF CycleInv, SyncTypes, IInv, TypeInv, PoolTypeOK
<1>4. KnownInv'
  BY <1>1, <1>2 DEF CycleInv, KnownInv, Known
<1>5. RunInv' /\ CopiesInv' /\ CachedMeansTransferred'
  BY <1>1, <1>2 DEF CycleInv, RunInv, CopiesInv, CachedMeansTransferred
<1> QED  BY <1>2, <1>3, <1>4, <1>5 DEF CycleInv

(* A cycle ends in a state whose cache is safe.                            *)

LEMMA EndKeeps ==
    ASSUME IInv, CycleInv, EndRun, UNCHANGED <<source, nextVersion>>,
           target' \in [Keys -> ETags \cup {Absent}],
           cache' \in [Keys -> Metas \cup {Absent, Blank}],
           \A k \in Keys : Known(cache'[k]),
           CachedMeansTransferred'
    PROVE  IInv' /\ CycleInv'
<1>1. /\ ResetPool /\ queue' = <<>> /\ closed' = FALSE /\ poolCtxDone' = FALSE
      /\ records' = NoRecords /\ history' = NoHistory
      /\ epc' = "idle" /\ outcome' = "complete"
  BY DEF EndRun
<1>2. /\ IInv' /\ Holding' = {} /\ DOMAIN queue' = {} /\ DOMAIN succeeded' = {}
      /\ \A w \in Workers : wpc'[w] = "idle"
  BY <1>1, RestInv
<1>3. SyncTypes' /\ \A k \in Keys : records'[k] = Absent /\ history'[k] = {}
  BY <1>1 DEF CycleInv, SyncTypes, NoRecords, NoHistory
<1>4. KnownInv'
  BY <1>2, <1>3, MetasAssumption DEF CycleInv, KnownInv, Known
<1>5. RunInv' /\ CopiesInv'
  BY <1>1, <1>2, <1>3, MetasAssumption DEF RunInv, CopiesInv, Agrees
<1> QED  BY <1>2, <1>3, <1>4, <1>5 DEF CycleInv

(* What PutMany records was reported, so it is in place.                   *)

LEMMA CompleteKeeps ==
    ASSUME IInv, CycleInv, RunCompletes \/ RunFails
    PROVE  IInv' /\ CycleInv'
<1>1. EndRun /\ UNCHANGED <<source, target, nextVersion>>
  BY DEF RunCompletes, RunFails, bounds
<1>2. target' \in [Keys -> ETags \cup {Absent}]
  BY <1>1 DEF IInv, TypeInv, PoolTypeOK
<1>3. CASE UNCHANGED cache
  BY <1>1, <1>2, <1>3, EndKeeps
     DEF CycleInv, SyncTypes, KnownInv, CachedMeansTransferred
<1>4. CASE cache' = PutMany(succeeded, cache)
  <2>1. ASSUME NEW k \in Keys
        PROVE  \/ cache'[k] = cache[k]
               \/ \E a \in PoolAction : /\ cache'[k] = Recorded(a) /\ a.key = k
                                        /\ Known(a.meta) /\ Current(a)
    <3>1. CASE \E a \in Elements(succeeded) : a.key = k
      <4> DEFINE c == CHOOSE a \in Elements(succeeded) : a.key = k
      <4>1. c \in Elements(succeeded) /\ c.key = k
        BY <3>1
      <4>2. cache'[k] = Recorded(c)
        BY <1>4, <3>1 DEF PutMany
      <4> HIDE DEF c
      <4>3. PICK i \in DOMAIN succeeded : c = succeeded[i]
        BY <4>1 DEF Elements
      <4>4. c \in PoolAction /\ Known(c.meta) /\ Current(c)
        BY <4>3, ActionTypes DEF CycleInv, KnownInv, CopiesInv
      <4> QED  BY <4>1, <4>2, <4>4
    <3>2. CASE ~ \E a \in Elements(succeeded) : a.key = k
      BY <1>4, <3>2 DEF PutMany
    <3> QED  BY <3>1, <3>2
  <2>2. ASSUME NEW k \in Keys
        PROVE  /\ cache'[k] \in Metas \cup {Absent, Blank} /\ Known(cache'[k])
               /\ cache'[k] \in Metas /\ cache'[k] = source[k]
                    => target[k] = ETagOf[source[k]]
    <3>1. CASE cache'[k] = cache[k]
      BY <3>1 DEF CycleInv, SyncTypes, KnownInv, CachedMeansTransferred
    <3>2. CASE cache'[k] # cache[k]
      <4>1. PICK a \in PoolAction : /\ cache'[k] = Recorded(a) /\ a.key = k
                                    /\ Known(a.meta) /\ Current(a)
        BY <2>1, <3>2
      <4>2. CASE a.type = "copy"
        BY <4>1, <4>2, ActionParts DEF Recorded, Current
      <4>3. CASE a.type # "copy"
        BY <4>1, <4>3, MetasAssumption DEF Recorded, Known
      <4> QED  BY <4>2, <4>3
    <3> QED  BY <3>1, <3>2
  <2>3. cache' = [k \in Keys |-> cache'[k]]
    BY <1>4 DEF PutMany
  <2>4. cache' \in [Keys -> Metas \cup {Absent, Blank}]
    BY <2>2, <2>3
  <2>5. CachedMeansTransferred'
    BY <1>1, <2>2 DEF CachedMeansTransferred
  <2> QED  BY <1>1, <1>2, <2>2, <2>4, <2>5, EndKeeps
<1> QED  BY <1>3, <1>4 DEF RunCompletes, RunFails

(* A crash leaves S3 with requests of keys cache and source do not agree   *)
(* about.                                                                  *)

LEMMA CrashKeeps ==
    ASSUME IInv, CycleInv, Crash
    PROVE  IInv' /\ CycleInv'
<1>1. epc = "running" /\ EndRun /\ UNCHANGED <<source, cache, nextVersion>>
  BY DEF Crash
<1>2. PICK done \in SUBSET calling :
         target' = [k \in Keys |-> IF \E w \in done : cur[w].key = k
                                   THEN Performed(CHOOSE w \in done : cur[w].key = k)[k]
                                   ELSE target[k]]
  BY DEF Crash
<1>3. \A w \in done : w \in Workers /\ InAction(w)
  BY DEF IInv, TypeInv, PoolTypeOK
<1>4. target \in [Keys -> ETags \cup {Absent}]
  BY DEF IInv, TypeInv, PoolTypeOK
<1>5. ASSUME NEW k \in Keys
      PROVE  /\ target'[k] \in ETags \cup {Absent}
             /\ Agrees(cache, k) => target'[k] = target[k]
  <2>1. CASE \E w \in done : cur[w].key = k
    <3> DEFINE c == CHOOSE w \in done : cur[w].key = k
    <3>1. c \in done /\ cur[c].key = k
      BY <2>1
    <3>2. target'[k] = Performed(c)[k]
      BY <1>2, <2>1
    <3> HIDE DEF c
    <3>3. Performed(c) \in [Keys -> ETags \cup {Absent}]
      BY <1>3, <3>1, PerformedType DEF IInv
    <3>4. ~ Agrees(cache, k)
      BY <1>1, <1>3, <3>1, HandsOff
    <3> QED  BY <3>2, <3>3, <3>4
  <2>2. CASE ~ \E w \in done : cur[w].key = k
    BY <1>2, <1>4, <2>2
  <2> QED  BY <2>1, <2>2
<1>6. target' = [k \in Keys |-> target'[k]]
  BY <1>2
<1>7. target' \in [Keys -> ETags \cup {Absent}]
  BY <1>5, <1>6
<1>8. CachedMeansTransferred'
  BY <1>1, <1>5 DEF CycleInv, CachedMeansTransferred, Agrees
<1> QED  BY <1>1, <1>7, <1>8, EndKeeps DEF CycleInv, SyncTypes, KnownInv

-----------------------------------------------------------------------------
(* The differ, the clients, a cancellation and a reset.                    *)

(* What the differ emits is about a key the snapshot and the source do not *)
(* agree on: else it would have seen nothing else there.                   *)

LEMMA EmitsDisagreement ==
    ASSUME IInv, CycleInv, NEW a \in PoolAction, Diff!Justified(a)
    PROVE  ~ Agrees(records, a.key) /\ Known(a.meta)
<1>1. a.key \in Keys /\ a.type \in {"copy", "delete"}
  BY ActionParts
<1>2. CASE a.type = "copy"
  BY <1>1, <1>2 DEF Diff!Justified, CycleInv, RunInv, KnownInv, Agrees
<1>3. CASE a.type = "delete"
  <2>1. a.meta = Blank
    BY <1>3 DEF PoolAction
  <2> QED  BY <1>1, <1>3, <2>1, MetasAssumption
           DEF Diff!Justified, CycleInv, RunInv, Known, Agrees
<1> QED  BY <1>1, <1>2, <1>3

(* An action is emitted, for the first time for its key.                   *)

LEMMA EmitKeeps ==
    ASSUME IInv, CycleInv, DiffEmits
    PROVE  IInv' /\ CycleInv'
<1>1. PICK a \in PoolAction : Diff!EmitAction(a)
  BY DEF DiffEmits
<1>2. /\ outcome = "running" /\ queue' = Append(queue, a) /\ Diff!Justified(a)
      /\ \A i \in DOMAIN queue : queue[i].key < a.key
      /\ UNCHANGED <<history, records, poolCtxDone, outcome>>
  BY <1>1 DEF Diff!EmitAction
<1>3. /\ UNCHANGED <<source, target, taken, closed, wpc, cur, attempt, failing, calling,
                     succeeded, failed, completed, failures, returned, cache, epc,
                     nextVersion>>
  BY DEF DiffEmits, workerState, collector, progress, engineVars, bounds
<1>4. Produce
  <2>1. ~closed
    BY <1>2 DEF CycleInv, RunInv
  <2> QED  BY <1>2, <1>3, <2>1 DEF Produce, Elements, workerState, collector, progress
<1>5. IInv'
  BY <1>4, ProduceInv
<1>6. \A i \in DOMAIN queue' : queue'[i] = a \/ (i \in DOMAIN queue /\ queue'[i] = queue[i])
  BY <1>2 DEF IInv, TypeInv, PoolTypeOK
<1>7. ~ Agrees(records, a.key) /\ Known(a.meta)
  BY <1>2, EmitsDisagreement
<1>8. Holding' = Holding
  BY <1>3 DEF Holding
<1>9. SyncTypes' /\ KnownInv'
  BY <1>2, <1>3, <1>6, <1>7, <1>8 DEF CycleInv, SyncTypes, KnownInv, Known
<1>10. RunInv'
  BY <1>2, <1>3, <1>6, <1>7 DEF CycleInv, RunInv, Agrees
<1>11. CopiesInv' /\ CachedMeansTransferred'
  BY <1>3 DEF CycleInv, CopiesInv, Current, CachedMeansTransferred
<1> QED  BY <1>5, <1>9, <1>10, <1>11 DEF CycleInv

(* These change no bucket, and the cache only to forget.                   *)

LEMMA OutsideKeeps ==
    ASSUME IInv, CycleInv, DiffReturns \/ Cancel \/ Clear \/ UNCHANGED svars
    PROVE  IInv' /\ CycleInv'
<1>1. /\ UNCHANGED <<source, target, queue, taken, wpc, cur, attempt, failing, calling,
                     succeeded, failed, completed, failures, returned, history, records,
                     epc, nextVersion>>
      /\ closed' \in BOOLEAN /\ (closed => closed') /\ poolCtxDone' \in BOOLEAN
      /\ cache' \in {cache, NoRecords}
      /\ outcome' = "running" => outcome = "running" /\ closed' = closed
  BY DEF DiffReturns, Cancel, Clear, svars, pvars, poolVars, workerState, collector,
         progress, engineVars, diffVars, bounds, Diff!Complete, Diff!Fail, Diff!CancelRun,
         IInv, TypeInv, PoolTypeOK
<1>2. IInv'
  BY <1>1, AroundInv DEF IInv, TypeInv, PoolTypeOK
<1>3. \A k \in Keys : cache'[k] \in {cache[k], Absent}
  BY <1>1 DEF NoRecords
<1>4. SyncTypes'
  BY <1>1 DEF CycleInv, SyncTypes, NoRecords
<1>5. KnownInv'
  BY <1>1, <1>3, MetasAssumption DEF CycleInv, KnownInv, Known, Holding
<1>6. RunInv'
  BY <1>1, <1>3 DEF CycleInv, RunInv, Agrees
<1>7. CopiesInv' /\ CachedMeansTransferred'
  BY <1>1, <1>3, MetasAssumption
     DEF CycleInv, CopiesInv, Current, CachedMeansTransferred
<1> QED  BY <1>2, <1>4, <1>5, <1>6, <1>7 DEF CycleInv

(* What a client writes is new to the run, the cache and the workers.      *)

LEMMA ClientKeeps ==
    ASSUME IInv, CycleInv, NEW k \in Keys, ClientPuts(k) \/ ClientRemoves(k)
    PROVE  IInv' /\ CycleInv'
<1>1. PICK v \in Metas \cup {Absent} :
         /\ SourceBecomes(k, v)
         /\ v = Absent \/ v = nextVersion
         /\ nextVersion' = IF v = Absent THEN nextVersion ELSE nextVersion + 1
  <2>1. nextVersion <= MaxVersion => nextVersion \in Metas
    BY VersionsAssumption, FirstVersionsAssumption DEF CycleInv, SyncTypes
  <2> QED  BY <2>1, MetasAssumption DEF ClientPuts, ClientRemoves
<1>2. /\ source' = [source EXCEPT ![k] = v]
      /\ history' \in {history, [history EXCEPT ![k] = history[k] \cup {v}]}
      /\ UNCHANGED <<target, poolCtxDone, queue, taken, closed, wpc, cur, attempt, failing,
                     calling, succeeded, failed, completed, failures, returned,
                     records, outcome, cache, epc>>
  BY <1>1 DEF SourceBecomes, poolVars, workerState, collector, progress, engineVars
<1>3. source \in [Keys -> Metas \cup {Absent}] /\ closed \in BOOLEAN /\ poolCtxDone \in BOOLEAN
  BY DEF IInv, TypeInv, PoolTypeOK
<1>4. /\ source'[k] = v /\ \A j \in Keys : j # k => source'[j] = source[j]
      /\ \A j \in Keys : j # k => history'[j] = history[j]
      /\ history'[k] \in {history[k], history[k] \cup {v}}
  BY <1>2, <1>3 DEF CycleInv, SyncTypes
<1>5. IInv'
  BY <1>2, <1>3, AroundInv
<1>6. SyncTypes'
  <2>1. nextVersion' \in Nat \ {0}
    BY <1>1 DEF CycleInv, SyncTypes
  <2> QED  BY <1>2, <2>1 DEF CycleInv, SyncTypes
<1>7. \A u : Known(u) => Known(u)'
  <2>1. nextVersion \in Nat /\ nextVersion' \in Nat /\ nextVersion' >= nextVersion
    BY <1>1 DEF CycleInv, SyncTypes
  <2>2. Metas \subseteq Nat
    BY VersionsAssumption, FirstVersionsAssumption
  <2> QED  BY <2>1, <2>2 DEF Known
<1>8. Known(v)'
  BY <1>1, MetasAssumption DEF Known, CycleInv, SyncTypes
<1>9. \A u : Known(u) /\ u \in Metas => u # v
  BY <1>1, MetasAssumption, VersionsAssumption DEF Known, CycleInv, SyncTypes
<1>10. KnownInv'
  BY <1>2, <1>4, <1>7, <1>8 DEF CycleInv, KnownInv, Holding
<1>11. \A j \in Keys : Agrees(records, j)' => j # k /\ Agrees(records, j)
  BY <1>2, <1>4, <1>9 DEF CycleInv, KnownInv, Agrees
<1>12. RunInv'
  <2>1. \A i \in DOMAIN queue : queue[i].key \in Keys
    BY ActionTypes, ActionParts
  <2> QED  BY <1>2, <1>4, <1>11, <2>1 DEF CycleInv, RunInv
<1>13. \A a \in PoolAction : Known(a.meta) /\ Current(a) => Current(a)'
  <2> SUFFICES ASSUME NEW a \in PoolAction, Known(a.meta), Current(a), a.type = "copy",
                      source'[a.key] = a.meta
               PROVE  target'[a.key] = ETagOf[a.meta]
    BY DEF Current
  <2>1. a.key \in Keys /\ a.key # k
    BY <1>4, <1>9, ActionParts
  <2> QED  BY <1>2, <1>4, <2>1 DEF Current
<1>14. CopiesInv'
  <2>1. ASSUME NEW i \in DOMAIN succeeded
        PROVE  Current(succeeded[i])'
    <3>1. PICK a \in PoolAction : a = succeeded[i]
      BY ActionTypes
    <3>2. Current(a)'
      BY <1>13, <3>1 DEF CycleInv, CopiesInv, KnownInv
    <3> QED  BY <1>2, <3>1, <3>2 DEF Current
  <2>2. ASSUME NEW w \in Workers, wpc[w] = "report", ~failing[w]
        PROVE  Current(cur[w])'
    <3>1. w \in Holding
      BY <2>2, ActionTypes
    <3>2. PICK a \in PoolAction : a = cur[w]
      BY <3>1, ActionTypes
    <3>3. Current(a)'
      BY <1>13, <2>2, <3>1, <3>2 DEF CycleInv, CopiesInv, KnownInv
    <3> QED  BY <1>2, <3>2, <3>3 DEF Current
  <2> QED  BY <1>2, <2>1, <2>2 DEF CopiesInv
<1>15. CachedMeansTransferred'
  BY <1>2, <1>4, <1>9 DEF CycleInv, KnownInv, CachedMeansTransferred
<1> QED  BY <1>5, <1>6, <1>10, <1>12, <1>14, <1>15 DEF CycleInv

-----------------------------------------------------------------------------
(* The invariant holds at first and is preserved by every step.            *)

LEMMA SyncInit == SInit => SInv
<1> SUFFICES ASSUME SInit, ~dryRun PROVE IInv /\ CycleInv
  BY DEF SInv
<1>1. PICK n \in 0 .. MaxVersion : Keys = 1 .. n
  BY FirstVersionsAssumption
<1>2. Cardinality(Keys) = n /\ n \in Nat
  BY <1>1, FirstVersionsAssumption, FS_Interval
<1>3. /\ source = [k \in Keys |-> k] /\ nextVersion = n + 1
      /\ cache = NoRecords /\ records = NoRecords /\ history = NoHistory
      /\ epc = "idle" /\ outcome = "complete"
  BY <1>2 DEF SInit
<1>4. Keys \subseteq Metas
  BY <1>1, VersionsAssumption, FirstVersionsAssumption
<1>5. IInv
  <2>1. source \in [Keys -> Metas \cup {Absent}] /\ target \in [Keys -> ETags \cup {Absent}]
    BY <1>3, <1>4, ForeignAssumption DEF SInit
  <2> QED  BY <2>1, InitInv DEF PInit, SInit
<1>6. Holding = {} /\ DOMAIN queue = {} /\ DOMAIN succeeded = {}
      /\ \A w \in Workers : wpc[w] = "idle"
  BY DEF SInit, StartPool, Idle, Holding
<1>7. \A k \in Keys : /\ source[k] = k /\ k < nextVersion /\ cache[k] = Absent
                      /\ records[k] = Absent /\ history[k] = {}
  BY <1>1, <1>2, <1>3 DEF NoRecords, NoHistory
<1>8. SyncTypes
  BY <1>2, <1>3 DEF SyncTypes, NoRecords, NoHistory
<1>9. KnownInv /\ RunInv /\ CopiesInv /\ CachedMeansTransferred
  BY <1>3, <1>6, <1>7, MetasAssumption
     DEF KnownInv, Known, RunInv, Agrees, CopiesInv, CachedMeansTransferred
<1> QED  BY <1>5, <1>8, <1>9 DEF CycleInv

(* Every step of every cycle preserves it.                                 *)

LEMMA SyncNext == SInv /\ [SNext]_svars => SInv'
<1> SUFFICES ASSUME SInv, [SNext]_svars PROVE SInv'
  OBVIOUS
<1>1. UNCHANGED dryRun
  BY DEF SNext, Engine, StartRun, RunFails, RunCompletes, DifferStep, DiffEmits, DiffReturns,
         Drainer, PoolRuns, DryRunLoop, Cancel, Clear, Crash, ClientPuts, ClientRemoves,
         SourceBecomes, pair, svars
<1>2. CASE dryRun
  BY <1>1, <1>2 DEF SInv
<1>3. CASE ~dryRun
  <2>1. IInv /\ CycleInv
    BY <1>3 DEF SInv
  <2>2. CASE Engine
    BY <2>1, <2>2, StartKeeps, CompleteKeeps DEF Engine, SInv
  <2>3. CASE DifferStep
    BY <2>1, <2>3, EmitKeeps, OutsideKeeps DEF DifferStep, SInv
  <2>4. CASE Drainer
    <3>1. PoolRuns
      BY <1>3, <2>4 DEF Drainer, DryRunLoop
    <3>2. IInv'
      BY <2>1, <3>1, NextInv DEF PoolRuns, PNext
    <3> QED  BY <2>1, <3>1, <3>2, PoolKeeps DEF PoolRuns, SInv
  <2>5. CASE Crash
    BY <2>1, <2>5, CrashKeeps DEF SInv
  <2>6. CASE Cancel \/ Clear \/ UNCHANGED svars
    BY <2>1, <2>6, OutsideKeeps DEF SInv
  <2>7. CASE \E k \in Keys : ClientPuts(k) \/ ClientRemoves(k)
    BY <2>1, <2>7, ClientKeeps DEF SInv
  <2> QED  BY <2>2, <2>3, <2>4, <2>5, <2>6, <2>7 DEF SNext
<1> QED  BY <1>2, <1>3

(* It holds in every state of every cycle.                                 *)

THEOREM CyclesInvariance == SSpec => []SInv
<1> QED  BY SyncInit, SyncNext, PTL DEF SSpec

(* RunOnce caches only what is in place: while cache and source agree on a *)
(* key, the target holds that object, so skipping it is right.             *)

THEOREM SkipsAreSafe == SSpec => []SkipIsSafe
<1>1. SInv => SkipIsSafe
  BY DEF SInv, CycleInv, SkipIsSafe
<1> QED  BY <1>1, CyclesInvariance, PTL

-----------------------------------------------------------------------------
(* The refinement of Mirror.  In both modes every action that is queued,   *)
(* in a worker's hands or reported has a reason the cycle has seen; a dry  *)
(* run leaves the workers idle.                                            *)

CycleTypes ==
    /\ source \in [Keys -> Metas \cup {Absent}]
    /\ target \in [Keys -> ETags \cup {Absent}]
    /\ cache \in [Keys -> Metas \cup {Absent, Blank}]
    /\ records \in [Keys -> Metas \cup {Absent, Blank}]
    /\ history \in [Keys -> SUBSET (Metas \cup {Absent})]
    /\ queue \in Seq(PoolAction) /\ succeeded \in Seq(PoolAction) /\ taken \in Nat
    /\ nextVersion \in Nat \ {0}

DryInv == dryRun => CycleTypes /\ Holding = {} /\ calling = {}

ReasonsInv ==
    /\ \A i \in DOMAIN queue : Diff!Justified(queue[i])
    /\ \A i \in DOMAIN succeeded : Diff!Justified(succeeded[i])
    /\ \A w \in Holding : Diff!Justified(cur[w])

(* Who goes on to a COPY found the object in the target.                   *)

PresentInv == \A w \in Workers : wpc[w] = "copy" => target[cur[w].key] # Absent

MirrorInv == SInv /\ DryInv /\ ReasonsInv /\ PresentInv

(* The types hold in both modes.                                           *)

LEMMA BothTypes == SInv /\ DryInv => CycleTypes
BY DEF SInv, DryInv, CycleTypes, IInv, TypeInv, PoolTypeOK, CycleInv, SyncTypes

(* A reason stays one while the cycle goes on.                             *)

LEMMA ReasonsStay ==
    ASSUME NEW a \in PoolAction, Diff!Justified(a), UNCHANGED <<records, deletePropagation>>,
           \A k \in Keys : history[k] \subseteq history'[k]
    PROVE  Diff!Justified(a)'
BY ActionParts DEF Diff!Justified

(* Actions are handed on from the channel to a worker to the totals.       *)

LEMMA HandedOn ==
    ASSUME IInv, PoolStep
    PROVE  /\ queue' = queue
           /\ \A w \in Holding' : \/ w \in Holding /\ cur'[w] = cur[w]
                                  \/ \E i \in DOMAIN queue : cur'[w] = queue[i]
           /\ \A i \in DOMAIN succeeded' :
                 \/ i \in DOMAIN succeeded /\ succeeded'[i] = succeeded[i]
                 \/ \E w \in Holding : succeeded'[i] = cur[w]
<1>1. /\ wpc \in [Workers -> {"idle", "head", "copy", "delete", "report", "count", "exited"}]
      /\ cur \in [Workers -> PoolAction \cup {NoAction}] /\ succeeded \in Seq(PoolAction)
      /\ queue \in Seq(PoolAction) /\ taken \in 0 .. Len(queue)
  BY DEF IInv, TypeInv, PoolTypeOK
<1>2. ASSUME NEW w \in Workers, CallStep(w)
      PROVE  UNCHANGED <<queue, cur, succeeded>> /\ Holding' = Holding
  <2>1. MovedOn(w)
    BY <1>2, CallShape DEF IInv
  <2> QED  BY <2>1 DEF MovedOn, collector, Holding, InAction
<1>3. ASSUME NEW w \in Workers, Take(w)
      PROVE  /\ UNCHANGED <<queue, succeeded>> /\ taken + 1 \in DOMAIN queue
             /\ cur'[w] = queue[taken + 1]
             /\ \A v \in Workers : v # w => cur'[v] = cur[v] /\ wpc'[v] = wpc[v]
  BY <1>1, <1>3 DEF Take, collector
<1>4. ASSUME NEW w \in Workers, SendResult(w)
      PROVE  /\ UNCHANGED <<queue, cur>> /\ w \in Holding /\ Holding' \subseteq Holding
             /\ succeeded' \in {succeeded, Append(succeeded, cur[w])}
  <2>1. /\ UNCHANGED <<queue, cur>> /\ wpc[w] = "report" /\ wpc' = [wpc EXCEPT ![w] = "count"]
        /\ succeeded' \in {succeeded, Append(succeeded, cur[w])}
    BY <1>4 DEF SendResult
  <2> QED  BY <1>1, <2>1 DEF Holding
<1>5. ASSUME NEW w \in Workers, Exit(w) \/ AddProgress(w)
      PROVE  /\ UNCHANGED <<queue, succeeded>> /\ Holding' \subseteq Holding
             /\ \A v \in Holding' : cur'[v] = cur[v]
  <2>1. /\ UNCHANGED <<queue, succeeded>> /\ wpc'[w] \in {"idle", "exited"}
        /\ \A v \in Workers : v # w => cur'[v] = cur[v] /\ wpc'[v] = wpc[v]
    BY <1>1, <1>5 DEF Exit, AddProgress, collector
  <2> QED  BY <2>1 DEF Holding
<1>6. CASE Return
  BY <1>6 DEF Return, workerState, collector, Holding
<1>7. CASE \E w \in Workers : CallStep(w)
  BY <1>2, <1>7
<1>8. CASE \E w \in Workers : Take(w)
  <2>1. PICK w \in Workers : Take(w)
    BY <1>8
  <2>2. \A v \in Holding' : v # w => v \in Holding
    BY <1>3, <2>1 DEF Holding
  <2>3. \A v \in Holding' : v \in Workers
    BY DEF Holding
  <2> QED  BY <1>3, <2>1, <2>2, <2>3
<1>9. CASE \E w \in Workers : SendResult(w)
  <2>1. PICK w \in Workers : SendResult(w)
    BY <1>9
  <2>2. cur[w] \in PoolAction
    BY <1>4, <2>1, ActionTypes
  <2>3. \A i \in DOMAIN succeeded' :
           \/ i \in DOMAIN succeeded /\ succeeded'[i] = succeeded[i]
           \/ succeeded'[i] = cur[w]
    <3>1. CASE succeeded' = succeeded
      BY <3>1
    <3>2. CASE succeeded' = Append(succeeded, cur[w])
      BY <1>1, <2>2, <3>2
    <3> QED  BY <1>4, <2>1, <3>1, <3>2
  <2> QED  BY <1>4, <2>1, <2>3
<1>10. CASE \E w \in Workers : Exit(w) \/ AddProgress(w)
  BY <1>5, <1>10
<1> QED  BY <1>6, <1>7, <1>8, <1>9, <1>10 DEF PoolStep, Worker, CallStep

(* What a request may make of a key.                                       *)

Explained(k, v) ==
    \/ v = target[k]
    \/ M!News(k) # {} /\ source[k] # Absent /\ v = ETagOf[source[k]]
    \/ M!Gone(k) /\ v = Absent

(* What S3 makes of the key of a worker's action has a reason the cycle    *)
(* has seen, and is no new key.                                            *)

LEMMA RequestsExplained ==
    ASSUME IInv, ReasonsInv, PresentInv, NEW w \in Workers, InAction(w), NEW k \in Keys
    PROVE  /\ Explained(k, Performed(w)[k])
           /\ target[k] = Absent => Performed(w)[k] = Absent
<1>1. w \in Holding /\ cur[w] \in PoolAction
  BY ActionTypes
<1>2. PICK a \in PoolAction : a = cur[w]
  BY <1>1
<1>3. /\ a.key \in Keys /\ Diff!Justified(a)
      /\ a.type = "copy" => a.meta \in Metas
  BY <1>1, <1>2, ActionParts DEF ReasonsInv
<1>4. target \in [Keys -> ETags \cup {Absent}]
  BY DEF IInv, TypeInv, PoolTypeOK
<1>5. CASE k # a.key
  BY <1>2, <1>5, PerformedType DEF IInv, Explained
<1>6. CASE k = a.key /\ wpc[w] = "head"
  <2>1. Performed(w) = target
    BY <1>6 DEF Performed
  <2> QED  BY <2>1 DEF Explained
<1>7. CASE k = a.key /\ wpc[w] = "copy"
  <2>1. a.type = "copy" /\ target[k] # Absent
    BY <1>1, <1>2, <1>7 DEF IInv, TypeInv, Equipped, PresentInv
  <2>2. Performed(w)[k] = IF source[k] = Absent THEN target[k] ELSE ETagOf[source[k]]
    BY <1>2, <1>3, <1>4, <1>7 DEF Performed
  <2>3. a.meta \in M!News(k)
    BY <1>3, <1>7, <2>1, MetasAssumption DEF M!News, Diff!Justified
  <2> QED  BY <2>1, <2>2, <2>3 DEF Explained
<1>8. CASE k = a.key /\ wpc[w] = "delete"
  <2>1. a.type = "delete"
    BY <1>1, <1>2, <1>8 DEF IInv, TypeInv, Equipped
  <2>2. Performed(w)[k] = Absent
    BY <1>2, <1>3, <1>4, <1>8 DEF Performed
  <2>3. M!Gone(k)
    BY <1>3, <1>8, <2>1 DEF M!Gone, Diff!Justified
  <2> QED  BY <2>2, <2>3 DEF Explained
<1> QED  BY <1>5, <1>6, <1>7, <1>8 DEF InAction

(* The requests of a step: at most a worker's, or in a crash some of those *)
(* that are at S3.                                                         *)

LEMMA TargetSteps ==
    ASSUME IInv, PoolStep \/ Crash, NEW k \in Keys
    PROVE  \/ target'[k] = target[k]
           \/ \E w \in Workers : InAction(w) /\ target'[k] = Performed(w)[k]
<1>1. CASE Crash
  <2>1. PICK done \in SUBSET calling :
           target' = [j \in Keys |-> IF \E w \in done : cur[w].key = j
                                     THEN Performed(CHOOSE w \in done : cur[w].key = j)[j]
                                     ELSE target[j]]
    BY <1>1 DEF Crash
  <2>2. \A w \in done : w \in Workers /\ InAction(w)
    BY DEF IInv, TypeInv, PoolTypeOK
  <2>3. CASE \E w \in done : cur[w].key = k
    <3> DEFINE c == CHOOSE w \in done : cur[w].key = k
    <3>1. c \in done
      BY <2>3
    <3>2. target'[k] = Performed(c)[k]
      BY <2>1, <2>3
    <3> HIDE DEF c
    <3> QED  BY <2>2, <3>1, <3>2
  <2> QED  BY <2>1, <2>3
<1>2. CASE \E w \in Workers : CallStep(w)
  BY <1>2, CallShape DEF IInv, MovedOn
<1>3. CASE target' = target
  BY <1>3
<1> QED  BY <1>1, <1>2, <1>3
         DEF PoolStep, Worker, CallStep, Return, Take, Exit, SendResult, AddProgress

(* A worker goes on to the COPY of an object it found, and no other takes  *)
(* it away meanwhile.                                                      *)

LEMMA PresentStays ==
    ASSUME IInv, PresentInv, PoolStep
    PROVE  PresentInv'
<1>1. wpc \in [Workers -> {"idle", "head", "copy", "delete", "report", "count", "exited"}]
      /\ target \in [Keys -> ETags \cup {Absent}]
  BY DEF IInv, TypeInv, PoolTypeOK
<1>2. ASSUME NEW w \in Workers, CallStep(w), NEW v \in Workers, wpc'[v] = "copy"
      PROVE  target'[cur[v].key] # Absent /\ cur'[v] = cur[v]
  <2>1. MovedOn(w)
    BY <1>2, CallShape DEF IInv
  <2>2. CASE v # w
    <3>1. wpc[v] = "copy" /\ v \in Holding /\ w \in Holding
      BY <1>2, <2>1, <2>2, ActionTypes DEF MovedOn, InAction
    <3>2. cur[v].key \in Keys /\ cur[v].key # cur[w].key
      BY <2>2, <3>1, ActionTypes, ActionParts DEF IInv, DoneInv, OwnKeys
    <3> QED  BY <2>1, <3>1, <3>2, PerformedType DEF MovedOn, PresentInv, IInv
  <2>3. CASE v = w /\ wpc[w] = "copy"
    <3>1. target[cur[w].key] # Absent /\ cur[w] \in PoolAction
      BY <2>1, <2>3, ActionTypes DEF PresentInv, MovedOn
    <3>2. source[cur[w].key] # Absent => ETagOf[source[cur[w].key]] # Absent
      BY <3>1, ActionParts, ETagAssumption DEF IInv, TypeInv, PoolTypeOK
    <3>3. Performed(w)[cur[w].key] # Absent
      BY <1>1, <2>3, <3>1, <3>2, ActionParts DEF Performed
    <3> QED  BY <2>1, <2>3, <3>1, <3>3 DEF MovedOn
  <2>4. CASE v = w /\ wpc[w] = "head"
    <3>1. HeadAnswers(w)
      BY <1>1, <1>2, <2>4 DEF CallStep, BeginCall, AttemptFails, Aborts, CallSucceeds, Report
    <3> QED  BY <2>4, <3>1 DEF HeadAnswers, Refused
  <2> QED  BY <1>2, <2>1, <2>2, <2>3, <2>4 DEF MovedOn
<1>3. CASE \E w \in Workers : CallStep(w)
  BY <1>2, <1>3 DEF PresentInv
<1>4. CASE \E w \in Workers : Take(w) \/ Exit(w) \/ SendResult(w) \/ AddProgress(w)
  <2>1. PICK w \in Workers : Take(w) \/ Exit(w) \/ SendResult(w) \/ AddProgress(w)
    BY <1>4
  <2>2. target' = target /\ wpc'[w] # "copy"
    BY <1>1, <2>1 DEF Take, Exit, SendResult, AddProgress
  <2>3. \A v \in Workers : v # w => wpc'[v] = wpc[v] /\ cur'[v] = cur[v]
    <3>1. cur \in [Workers -> PoolAction \cup {NoAction}]
      BY DEF IInv, TypeInv, PoolTypeOK
    <3> QED  BY <1>1, <2>1, <3>1 DEF Take, Exit, SendResult, AddProgress
  <2> QED  BY <2>2, <2>3 DEF PresentInv
<1>5. CASE Return
  BY <1>5 DEF Return, workerState, PresentInv
<1> QED  BY <1>3, <1>4, <1>5 DEF PoolStep, Worker, CallStep

(* What PutMany leaves of a key is what was there, or a reported action's. *)

LEMMA PutManyParts ==
    ASSUME CycleTypes, NEW k \in Keys
    PROVE  \/ PutMany(succeeded, cache)[k] = cache[k]
           \/ \E i \in DOMAIN succeeded :
                 succeeded[i].key = k /\ PutMany(succeeded, cache)[k] = Recorded(succeeded[i])
<1>1. CASE \E a \in Elements(succeeded) : a.key = k
  <2> DEFINE c == CHOOSE a \in Elements(succeeded) : a.key = k
  <2>1. c \in Elements(succeeded) /\ c.key = k
    BY <1>1
  <2>2. PutMany(succeeded, cache)[k] = Recorded(c)
    BY <1>1 DEF PutMany
  <2> HIDE DEF c
  <2> QED  BY <2>1, <2>2 DEF Elements
<1>2. CASE ~ \E a \in Elements(succeeded) : a.key = k
  BY <1>2 DEF PutMany
<1> QED  BY <1>1, <1>2

(* Dry or not, the settings stay.                                          *)

LEMMA SettingsStay == [SNext]_svars => UNCHANGED pair
BY DEF SNext, Engine, StartRun, RunFails, RunCompletes, DifferStep, DiffEmits, DiffReturns,
       Drainer, PoolRuns, DryRunLoop, Cancel, Clear, Crash, ClientPuts, ClientRemoves,
       SourceBecomes, pair, svars

(* What a client writes.                                                   *)

LEMMA ClientWrote ==
    ASSUME CycleTypes, NEW k \in Keys, ClientPuts(k) \/ ClientRemoves(k)
    PROVE  \E v \in Metas \cup {Absent} : SourceBecomes(k, v) /\ nextVersion' \in Nat \ {0}
<1>1. nextVersion <= MaxVersion => nextVersion \in Metas
  BY VersionsAssumption, FirstVersionsAssumption DEF CycleTypes
<1> QED  BY <1>1 DEF ClientPuts, ClientRemoves, CycleTypes

(* A dry run keeps to the types and away from the workers.                 *)

LEMMA DryNext ==
    ASSUME MirrorInv, [SNext]_svars
    PROVE  DryInv'
<1> SUFFICES ASSUME dryRun PROVE (CycleTypes /\ Holding = {} /\ calling = {})'
  BY SettingsStay DEF DryInv, pair
<1>1. CycleTypes /\ Holding = {} /\ calling = {}
  BY DEF MirrorInv, DryInv
<1>2. ASSUME EndRun, UNCHANGED <<source, target, nextVersion>>,
             cache' \in [Keys -> Metas \cup {Absent, Blank}]
      PROVE  (CycleTypes /\ Holding = {} /\ calling = {})'
  BY <1>1, <1>2 DEF EndRun, ResetPool, Idle, Holding, CycleTypes, NoHistory, NoRecords
<1>3. ASSUME UNCHANGED <<wpc, calling>>, CycleTypes'
      PROVE  (CycleTypes /\ Holding = {} /\ calling = {})'
  BY <1>1, <1>3 DEF Holding
<1>4. CASE StartRun
  BY <1>1, <1>4 DEF StartRun, ResetPool, Idle, Holding, CycleTypes, bounds
<1>5. CASE RunFails
  BY <1>1, <1>2, <1>5 DEF RunFails, CycleTypes, bounds
<1>6. CASE RunCompletes
  <2>1. \A k \in Keys : PutMany(succeeded, cache)[k] \in Metas \cup {Absent, Blank}
    <3>1. \A i \in DOMAIN succeeded : Recorded(succeeded[i]) \in Metas \cup {Blank}
      <4> SUFFICES ASSUME NEW i \in DOMAIN succeeded
                   PROVE  Recorded(succeeded[i]) \in Metas \cup {Blank}
        OBVIOUS
      <4>1. succeeded[i] \in PoolAction
        BY <1>1 DEF CycleTypes
      <4> QED  BY <4>1, ActionParts DEF Recorded
    <3> QED  BY <1>1, <3>1, PutManyParts DEF CycleTypes
  <2>2. PutMany(succeeded, cache) \in [Keys -> Metas \cup {Absent, Blank}]
    BY <2>1 DEF PutMany
  <2> QED  BY <1>1, <1>2, <1>6, <2>2 DEF RunCompletes, CycleTypes
<1>7. CASE DiffEmits
  <2>1. PICK a \in PoolAction : Diff!EmitAction(a)
    BY <1>7 DEF DiffEmits
  <2> QED  BY <1>1, <1>3, <1>7, <2>1
           DEF DiffEmits, Diff!EmitAction, CycleTypes, workerState, collector, engineVars,
               bounds
<1>8. CASE DryRunLoop
  <2>1. succeeded' \in Seq(PoolAction) /\ taken' \in Nat
    <3>1. CASE taken < Len(queue) /\ taken' = taken + 1
               /\ succeeded' = Append(succeeded, queue[taken + 1])
      <4>1. queue[taken + 1] \in PoolAction
        BY <1>1, <3>1 DEF CycleTypes
      <4> QED  BY <1>1, <3>1, <4>1 DEF CycleTypes
    <3>2. CASE UNCHANGED <<taken, succeeded>>
      BY <1>1, <3>2 DEF CycleTypes
    <3> QED  BY <1>8, <3>1, <3>2 DEF DryRunLoop
  <2> QED  BY <1>1, <1>3, <1>8, <2>1
           DEF DryRunLoop, CycleTypes, workerState, engineVars, bounds, diffVars
<1>9. CASE Crash
  <2>1. PICK done \in SUBSET calling :
           target' = [j \in Keys |-> IF \E w \in done : cur[w].key = j
                                     THEN Performed(CHOOSE w \in done : cur[w].key = j)[j]
                                     ELSE target[j]]
    BY <1>9 DEF Crash
  <2>2. \A j \in Keys : target'[j] = target[j]
    BY <1>1, <2>1
  <2>3. target' = target
    BY <1>1, <2>1, <2>2 DEF CycleTypes
  <2> QED  BY <1>1, <1>2, <1>9, <2>3 DEF Crash, CycleTypes
<1>10. CASE \E k \in Keys : ClientPuts(k) \/ ClientRemoves(k)
  <2>1. PICK k \in Keys, v \in Metas \cup {Absent} :
           SourceBecomes(k, v) /\ nextVersion' \in Nat \ {0}
    BY <1>1, <1>10, ClientWrote
  <2>2. source' \in [Keys -> Metas \cup {Absent}]
        /\ history' \in [Keys -> SUBSET (Metas \cup {Absent})]
    BY <1>1, <2>1 DEF SourceBecomes, CycleTypes
  <2> QED  BY <1>1, <1>3, <2>1, <2>2
           DEF SourceBecomes, CycleTypes, poolVars, workerState, collector, engineVars
<1>11. CASE Clear
  BY <1>1, <1>3, <1>11
     DEF Clear, CycleTypes, NoRecords, pvars, poolVars, workerState, collector, diffVars, bounds
<1>12. CASE DiffReturns \/ Cancel \/ UNCHANGED svars
  <2>1. UNCHANGED <<source, target, queue, taken, wpc, calling, succeeded, history, records,
                    cache, nextVersion>>
    BY <1>12 DEF DiffReturns, Cancel, svars, pvars, poolVars, workerState, collector,
         engineVars, diffVars, bounds, Diff!Complete, Diff!Fail, Diff!CancelRun
  <2> QED  BY <1>1, <1>3, <2>1 DEF CycleTypes
<1> QED  BY <1>4, <1>5, <1>6, <1>7, <1>8, <1>9, <1>10, <1>11, <1>12
         DEF SNext, Engine, DifferStep, Drainer, PoolRuns

(* Whatever is queued, held or reported after a step has a reason: it was  *)
(* somewhere before, or the differ has just found it.                      *)

LEMMA ReasonsNext ==
    ASSUME MirrorInv, [SNext]_svars
    PROVE  ReasonsInv'
<1> DEFINE Reason(a) == a \in PoolAction /\ Diff!Justified(a)
<1>1. CycleTypes /\ ReasonsInv
  BY BothTypes DEF MirrorInv
<1>2. /\ \A i \in DOMAIN queue : Reason(queue[i])
      /\ \A i \in DOMAIN succeeded : Reason(succeeded[i])
      /\ \A w \in Holding : Reason(cur[w])
  <2>1. \A w \in Holding : cur[w] \in PoolAction
    BY ActionTypes DEF MirrorInv, SInv, DryInv
  <2> QED  BY <1>1, <2>1 DEF CycleTypes, ReasonsInv
<1>3. ASSUME EndRun \/ StartRun
      PROVE  ReasonsInv'
  BY <1>3 DEF EndRun, StartRun, ResetPool, Idle, Holding, ReasonsInv
<1>4. ASSUME UNCHANGED <<records, deletePropagation>>,
             \A k \in Keys : history[k] \subseteq history'[k],
             \A i \in DOMAIN queue' : Reason(queue'[i]),
             \A i \in DOMAIN succeeded' : Reason(succeeded'[i]),
             \A w \in Holding' : Reason(cur'[w])
      PROVE  ReasonsInv'
  <2>1. \A a : Reason(a) => Diff!Justified(a)'
    BY <1>4, ReasonsStay
  <2> HIDE DEF Reason
  <2>2. ASSUME NEW i \in DOMAIN queue'  PROVE Diff!Justified(queue[i])'
    <3>1. PICK a : a = queue'[i]
      OBVIOUS
    <3>2. Diff!Justified(a)'
      BY <1>4, <2>1, <3>1
    <3> QED  BY <3>1, <3>2 DEF Diff!Justified
  <2>3. ASSUME NEW i \in DOMAIN succeeded'  PROVE Diff!Justified(succeeded[i])'
    <3>1. PICK a : a = succeeded'[i]
      OBVIOUS
    <3>2. Diff!Justified(a)'
      BY <1>4, <2>1, <3>1
    <3> QED  BY <3>1, <3>2 DEF Diff!Justified
  <2>4. ASSUME NEW w \in Holding'  PROVE Diff!Justified(cur[w])'
    <3>1. PICK a : a = cur'[w]
      OBVIOUS
    <3>2. Diff!Justified(a)'
      BY <1>4, <2>1, <3>1
    <3> QED  BY <3>1, <3>2 DEF Diff!Justified
  <2> QED  BY <2>2, <2>3, <2>4 DEF ReasonsInv
<1> HIDE DEF Reason
<1>5. CASE DiffEmits
  <2>1. PICK a \in PoolAction : Diff!EmitAction(a)
    BY <1>5 DEF DiffEmits
  <2>2. /\ queue' = Append(queue, a) /\ Reason(a)
        /\ UNCHANGED <<history, records, deletePropagation, succeeded, cur, wpc>>
    BY <1>5, <2>1 DEF DiffEmits, Diff!EmitAction, Reason, workerState, collector
  <2>3. \A i \in DOMAIN queue' : queue'[i] = a \/ (i \in DOMAIN queue /\ queue'[i] = queue[i])
    BY <1>1, <2>2 DEF CycleTypes
  <2> QED  BY <1>2, <1>4, <2>2, <2>3 DEF Holding
<1>6. CASE DryRunLoop
  <2>1. UNCHANGED <<history, records, deletePropagation, queue, cur, wpc>>
    BY <1>6 DEF DryRunLoop, workerState, diffVars, pair
  <2>2. ASSUME NEW i \in DOMAIN succeeded'  PROVE Reason(succeeded'[i])
    <3>1. CASE succeeded' = succeeded
      BY <1>2, <3>1
    <3>2. CASE taken < Len(queue) /\ succeeded' = Append(succeeded, queue[taken + 1])
      <4>1. taken + 1 \in DOMAIN queue
        BY <1>1, <3>2 DEF CycleTypes
      <4>2. PICK a \in PoolAction : a = queue[taken + 1]
        BY <1>1, <4>1 DEF CycleTypes
      <4>3. succeeded'[i] = a \/ (i \in DOMAIN succeeded /\ succeeded'[i] = succeeded[i])
        BY <1>1, <3>2, <4>2 DEF CycleTypes
      <4> QED  BY <1>2, <4>1, <4>2, <4>3
    <3> QED  BY <1>6, <3>1, <3>2 DEF DryRunLoop
  <2> QED  BY <1>2, <1>4, <2>1, <2>2 DEF Holding
<1>7. CASE PoolRuns
  <2>1. IInv /\ PoolStep /\ UNCHANGED <<history, records, deletePropagation>>
    BY <1>7 DEF PoolRuns, MirrorInv, SInv, diffVars, pair
  <2>2. /\ \A w \in Holding' : Reason(cur'[w])
        /\ \A i \in DOMAIN succeeded' : Reason(succeeded'[i])
        /\ queue' = queue
    BY <1>2, <2>1, HandedOn
  <2> QED  BY <1>2, <1>4, <2>1, <2>2
<1>8. CASE \E k \in Keys : ClientPuts(k) \/ ClientRemoves(k)
  <2>1. PICK k \in Keys, v \in Metas \cup {Absent} : SourceBecomes(k, v)
    BY <1>1, <1>8, ClientWrote
  <2>2. UNCHANGED <<records, deletePropagation, queue, succeeded, cur, wpc>>
    BY <2>1 DEF SourceBecomes, poolVars, workerState, collector, pair
  <2>3. \A j \in Keys : history[j] \subseteq history'[j]
    BY <1>1, <2>1 DEF SourceBecomes, CycleTypes
  <2> QED  BY <1>2, <1>4, <2>2, <2>3 DEF Holding
<1>9. CASE DiffReturns \/ Cancel \/ Clear \/ UNCHANGED svars
  <2>1. UNCHANGED <<history, records, deletePropagation, queue, succeeded, cur, wpc>>
    BY <1>9 DEF DiffReturns, Cancel, Clear, svars, pvars, poolVars, workerState, collector,
         engineVars, diffVars, pair, Diff!Complete, Diff!Fail, Diff!CancelRun
  <2> QED  BY <1>2, <1>4, <2>1 DEF Holding
<1> QED  BY <1>3, <1>5, <1>6, <1>7, <1>8, <1>9
         DEF SNext, Engine, DifferStep, Drainer, RunFails, RunCompletes, Crash

(* The invariant of the refinement.                                        *)

LEMMA MirrorInitially == SInit => MirrorInv
<1> SUFFICES ASSUME SInit PROVE MirrorInv
  OBVIOUS
<1>1. PICK n \in 0 .. MaxVersion : Keys = 1 .. n
  BY FirstVersionsAssumption
<1>2. Cardinality(Keys) = n /\ n \in Nat /\ Keys \subseteq Metas
  BY <1>1, FirstVersionsAssumption, VersionsAssumption, FS_Interval
<1>3. Holding = {} /\ \A w \in Workers : wpc[w] = "idle"
  BY DEF SInit, StartPool, Idle, Holding
<1>4. CycleTypes
  BY <1>2, ForeignAssumption DEF SInit, StartPool, CycleTypes, NoHistory, NoRecords
<1>5. calling = {} /\ DOMAIN queue = {} /\ DOMAIN succeeded = {}
  BY DEF SInit, StartPool
<1> QED  BY <1>3, <1>4, <1>5, SyncInit DEF MirrorInv, DryInv, ReasonsInv, PresentInv

(* Every step preserves it.                                                *)

LEMMA MirrorNext == MirrorInv /\ [SNext]_svars => MirrorInv'
<1> SUFFICES ASSUME MirrorInv, [SNext]_svars PROVE PresentInv'
  BY SyncNext, DryNext, ReasonsNext DEF MirrorInv
<1>1. CASE PoolRuns
  BY <1>1, PresentStays DEF PoolRuns, MirrorInv, SInv
<1>2. CASE StartRun \/ EndRun
  BY <1>2 DEF StartRun, EndRun, ResetPool, Idle, PresentInv
<1>3. CASE UNCHANGED <<target, wpc, cur>>
  BY <1>3 DEF MirrorInv, PresentInv
<1> QED  BY <1>1, <1>2, <1>3
         DEF SNext, Engine, RunFails, RunCompletes, DifferStep, DiffEmits, DiffReturns, Drainer,
             DryRunLoop, Cancel, Clear, Crash, ClientPuts, ClientRemoves, SourceBecomes,
             svars, pvars, poolVars, workerState

(* The requests of a step have their reasons.                              *)

LEMMA StepRequests ==
    ASSUME MirrorInv, ~dryRun, epc = "running", PoolStep \/ Crash
    PROVE  M!Requests
<1>1. IInv /\ ReasonsInv /\ PresentInv
  BY DEF MirrorInv, SInv
<1>2. ASSUME NEW k \in Keys  PROVE Explained(k, target'[k])
  <2>1. CASE target'[k] = target[k]
    BY <2>1 DEF Explained
  <2>2. CASE \E w \in Workers : InAction(w) /\ target'[k] = Performed(w)[k]
    BY <1>1, <2>2, RequestsExplained
  <2> QED  BY <1>1, <2>1, <2>2, TargetSteps
<1> QED  BY <1>2 DEF M!Requests, Explained

(* What a complete cycle puts in the cache was seen and is in place.       *)

LEMMA CompleteRemembers ==
    ASSUME MirrorInv, RunCompletes
    PROVE  M!Remember
<1>1. CycleTypes
  BY BothTypes DEF MirrorInv
<1>2. CASE UNCHANGED cache
  BY <1>2 DEF M!Remember
<1>3. CASE cache' = PutMany(succeeded, cache)
  <2> SUFFICES ASSUME NEW k \in Keys, cache'[k] # cache[k]
               PROVE  \/ /\ cache'[k] \in M!News(k)
                         /\ \/ dryRun
                            \/ /\ target[k] # Absent
                               /\ cache'[k] = source[k] => target[k] = ETagOf[source[k]]
                      \/ /\ cache'[k] = Blank /\ M!Gone(k)
                         /\ dryRun \/ target[k] = Absent
    BY DEF M!Remember
  <2>1. PICK i \in DOMAIN succeeded :
           succeeded[i].key = k /\ cache'[k] = Recorded(succeeded[i])
    BY <1>1, <1>3, PutManyParts
  <2>2. PICK a \in PoolAction : a = succeeded[i]
    BY <1>1 DEF CycleTypes
  <2>3. a.key = k /\ cache'[k] = Recorded(a) /\ Diff!Justified(a)
    BY <2>1, <2>2 DEF MirrorInv, ReasonsInv
  <2>4. ~dryRun => /\ a.type = "copy" => target[k] # Absent
                   /\ a.type = "delete" => target[k] = Absent
                   /\ Current(a)
    BY <2>2, <2>3
       DEF MirrorInv, SInv, IInv, DoneInv, SuccessMeansDone, CycleInv, CopiesInv
  <2>5. CASE a.type = "copy"
    <3>1. cache'[k] = a.meta /\ a.meta \in M!News(k)
      BY <2>3, <2>5, ActionParts, MetasAssumption DEF Recorded, M!News, Diff!Justified
    <3> QED  BY <2>3, <2>4, <2>5, <3>1 DEF Current
  <2>6. CASE a.type = "delete"
    <3>1. cache'[k] = Blank /\ M!Gone(k)
      BY <2>3, <2>6 DEF Recorded, M!Gone, Diff!Justified
    <3> QED  BY <2>4, <2>6, <3>1
  <2> QED  BY <2>5, <2>6, ActionParts
<1> QED  BY <1>2, <1>3 DEF RunCompletes

(* Every step of the cycles is a step of Mirror.                           *)

LEMMA MirrorStep == MirrorInv /\ [SNext]_svars => [M!MNext]_(M!mvars)
<1> SUFFICES ASSUME MirrorInv, [SNext]_svars PROVE [M!MNext]_(M!mvars)
  OBVIOUS
<1>1. CycleTypes
  BY BothTypes DEF MirrorInv
<1>2. ASSUME UNCHANGED <<source, target, cache, epc, history, records, pair>>
      PROVE  UNCHANGED M!mvars
  BY <1>2 DEF M!mvars, pair
<1>3. ASSUME EndRun, epc = "running", UNCHANGED <<source, pair>>,
             \/ M!Remember /\ UNCHANGED target
             \/ M!Requests /\ UNCHANGED cache
      PROVE  M!End
  BY <1>3 DEF EndRun, M!End, NoHistory, NoRecords, M!Nothing, M!Forgotten, pair
<1>4. CASE StartRun
  BY <1>4 DEF StartRun, M!MNext, M!Begin, pair
<1>5. CASE RunFails
  BY <1>3, <1>5 DEF RunFails, M!Remember, M!MNext
<1>6. CASE RunCompletes
  BY <1>3, <1>6, CompleteRemembers DEF RunCompletes, M!MNext
<1>7. CASE DifferStep \/ DryRunLoop \/ Cancel \/ UNCHANGED svars
  BY <1>2, <1>7
     DEF DifferStep, DiffEmits, DiffReturns, DryRunLoop, Cancel, svars, pvars, engineVars,
         diffVars, Diff!EmitAction, Diff!Complete, Diff!Fail, Diff!CancelRun
<1>8. CASE PoolRuns
  <2>1. M!Requests
    BY <1>8, StepRequests DEF PoolRuns
  <2>2. source' = source
    BY <1>8, CallShape
       DEF PoolRuns, PoolStep, Worker, CallStep, Return, Take, Exit, SendResult, AddProgress,
           MovedOn, MirrorInv, SInv, IInv
  <2> QED  BY <1>8, <2>1, <2>2
           DEF PoolRuns, M!MNext, M!Transfer, diffVars, engineVars, pair
<1>9. CASE Crash
  <2>1. CASE ~dryRun
    BY <1>3, <1>9, <2>1, StepRequests DEF Crash, M!MNext
  <2>2. CASE dryRun
    <3>1. PICK done \in SUBSET calling :
             target' = [j \in Keys |-> IF \E w \in done : cur[w].key = j
                                       THEN Performed(CHOOSE w \in done : cur[w].key = j)[j]
                                       ELSE target[j]]
      BY <1>9 DEF Crash
    <3>2. \A j \in Keys : target'[j] = target[j]
      BY <2>2, <3>1 DEF MirrorInv, DryInv
    <3>3. target' = target
      BY <1>1, <3>1, <3>2 DEF CycleTypes
    <3> QED  BY <1>3, <1>9, <3>3 DEF Crash, M!Remember, M!MNext
  <2> QED  BY <2>1, <2>2
<1>10. CASE Clear
  BY <1>10 DEF Clear, M!MNext, M!Forget, NoRecords, M!Forgotten, pvars, diffVars, pair
<1>11. CASE \E k \in Keys : ClientPuts(k) \/ ClientRemoves(k)
  <2>1. PICK k \in Keys, v \in Metas \cup {Absent} : SourceBecomes(k, v)
    BY <1>1, <1>11, ClientWrote
  <2>2. M!Write(k, v)
    BY <2>1 DEF SourceBecomes, M!Write, engineVars, pair
  <2> QED  BY <2>2 DEF M!MNext
<1> QED  BY <1>4, <1>5, <1>6, <1>7, <1>8, <1>9, <1>10, <1>11
         DEF SNext, Engine, Drainer

(* The invariant of the refinement holds in every state.                   *)

LEMMA MirrorInvariance == SSpec => []MirrorInv
<1> QED  BY MirrorInitially, MirrorNext, PTL DEF SSpec

(* Over all its cycles the engine is an implementation of Mirror: whatever *)
(* is listed, queued, retried, cancelled or lost in a crash, the target    *)
(* changes only towards what the source holds at that moment, for a reason *)
(* the cycle has seen, and the cache learns only of what is in place.      *)

THEOREM CyclesMirror == SSpec => ImplementsMirror
<1>1. MirrorInv => CycleTypes
  BY BothTypes DEF MirrorInv
<1>2. SInit => M!MInit
  <2> SUFFICES ASSUME SInit PROVE M!MInit
    OBVIOUS
  <2>1. CycleTypes
    BY <1>1, MirrorInitially
  <2> QED  BY <2>1
           DEF SInit, M!MInit, CycleTypes, NoHistory, NoRecords, M!Nothing, M!Forgotten
<1> QED  BY <1>2, MirrorStep, MirrorInvariance, PTL DEF SSpec, ImplementsMirror, M!MSpec

-----------------------------------------------------------------------------
(* The extent of the finding at worker.go:103.                             *)

GainsNoKey == \A k \in Keys : target[k] = Absent => target'[k] = Absent

(* The COPY of a new key is never sent, whatever keys, workers and faults: *)
(* copyObject's HEAD lets through only what the target has, so that no     *)
(* cycle ever adds a key to it, against README.md:214.                     *)

THEOREM NoKeyIsGained == SSpec => [][GainsNoKey]_svars
<1>1. MirrorInv /\ [SNext]_svars => [GainsNoKey]_svars
  <2> SUFFICES ASSUME MirrorInv, [SNext]_svars, NEW k \in Keys, target[k] = Absent
               PROVE  target'[k] = Absent
    BY DEF GainsNoKey
  <2>1. CASE ~dryRun /\ (PoolStep \/ Crash)
    BY <2>1, TargetSteps, RequestsExplained DEF MirrorInv, SInv
  <2>2. CASE dryRun /\ Crash
    BY <2>2 DEF Crash, MirrorInv, DryInv
  <2>3. CASE target' = target
    BY <2>3
  <2> QED  BY <2>1, <2>2, <2>3
           DEF SNext, Engine, StartRun, RunFails, RunCompletes, DifferStep, DiffEmits,
               DiffReturns, Drainer, PoolRuns, DryRunLoop, Cancel, Clear, ClientPuts,
               ClientRemoves, SourceBecomes, svars, pvars
<1> QED  BY <1>1, MirrorInvariance, PTL DEF SSpec

(* So a target that is empty stays empty, whatever the source holds and    *)
(* how many cycles run.                                                    *)

THEOREM EmptyStaysEmpty ==
    SSpec /\ (\A k \in Keys : target[k] = Absent) => [](\A k \in Keys : target[k] = Absent)
<1> DEFINE Empty == \A k \in Keys : target[k] = Absent
<1>1. Empty /\ [GainsNoKey]_svars => Empty'
  BY DEF svars, pvars, GainsNoKey
<1> HIDE DEF Empty
<1>2. SSpec /\ Empty => []Empty
  BY <1>1, NoKeyIsGained, PTL
<1> QED  BY <1>2 DEF Empty

-----------------------------------------------------------------------------
(* The differ fills the channel as the pool expects of it - in key order,  *)
(* one action per key - in every cycle, so what was proved of the pool on  *)
(* its own is true of each: one report per action, Progress that agrees    *)
(* with the totals, and reported successes that are true.                  *)

THEOREM CyclesReport ==
    ASSUME Workers # {}
    PROVE  SSpec => [](~dryRun => /\ EveryActionReportedOnce
                                  /\ ProgressAgrees
                                  /\ SuccessMeansDone)
<1>1. SInv => (~dryRun => EveryActionReportedOnce /\ ProgressAgrees /\ SuccessMeansDone)
  BY ProgressExact DEF SInv, IInv, CountInv, DoneInv
<1> QED  BY <1>1, CyclesInvariance, PTL
=============================================================================
