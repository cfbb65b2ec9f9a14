-------------------------- MODULE WorkerPoolProofs ---------------------------
(***************************************************************************)
(* Proofs about WorkerPool, for any finite number of workers, any keys,    *)
(* any number of attempts and under every fault: types, one report per     *)
(* action, the agreement of Progress, and that a reported success is true. *)
(***************************************************************************)
EXTENDS WorkerPool, FiniteSetTheorems, TLAPS

(* A worker that has an action has one of the right type for its phase.    *)

Equipped(w) ==
    /\ wpc[w] \notin {"idle", "exited"} => cur[w] \in PoolAction
    /\ wpc[w] \in {"head", "copy"} => cur[w].type = "copy"
    /\ wpc[w] = "delete" => cur[w].type = "delete"

TypeInv == PoolTypeOK /\ \A w \in Workers : Equipped(w)

(* The actions received so far are those counted, Progress and the totals  *)
(* differ by the results not yet counted.                                  *)

FailedUncounted == {w \in Workers : wpc[w] = "count" /\ failing[w]}

CountInv ==
    /\ EveryActionReportedOnce
    /\ completed + Cardinality(Uncounted) = Len(succeeded) + failed
    /\ failures + Cardinality(FailedUncounted) = failed

(* A worker exits, and Run returns, when everything has been received.     *)

ExitInv ==
    /\ \A w \in Workers : wpc[w] = "exited" => closed /\ taken = Len(queue)
    /\ returned => \A w \in Workers : wpc[w] = "exited"

(* The channel has one action per key, so two workers never have the same  *)
(* key in hand, nor one that has been reported done.                       *)

QueueOrdered ==
    \A i, j \in 1 .. Len(queue) : i < j => queue[i].key < queue[j].key

TakenKey(k) == \E i \in 1 .. taken : queue[i].key = k

OwnKeys ==
    /\ \A w \in Holding : TakenKey(cur[w].key)
    /\ \A i \in DOMAIN succeeded : TakenKey(succeeded[i].key)
    /\ \A v, w \in Holding : v # w => cur[v].key # cur[w].key
    /\ \A w \in Holding, i \in DOMAIN succeeded : succeeded[i].key # cur[w].key

(* What is about to be reported done is done, and stays so.                *)

Achieved(a) == IF a.type = "copy" THEN target[a.key] # Absent ELSE target[a.key] = Absent

ReportsAreTrue == \A w \in Workers : wpc[w] = "report" /\ ~failing[w] => Achieved(cur[w])

DoneInv == QueueOrdered /\ OwnKeys /\ ReportsAreTrue /\ SuccessMeansDone

IInv == TypeInv /\ CountInv /\ ExitInv /\ DoneInv

-----------------------------------------------------------------------------
(* An action has a key, and a copy a version.                              *)

LEMMA ActionParts ==
    ASSUME NEW a \in PoolAction
    PROVE  /\ a.key \in Keys /\ a.key \in Nat /\ a.type \in {"copy", "delete"}
           /\ a.type = "copy" => a.meta \in Metas
BY PoolKeysAssumption DEF PoolAction

(* What S3 does for a worker is a bucket again, and changes one key.       *)

LEMMA PerformedType ==
    ASSUME TypeInv, NEW w \in Workers, InAction(w)
    PROVE  /\ Performed(w) \in [Keys -> ETags \cup {Absent}]
           /\ \A k \in Keys : k # cur[w].key => Performed(w)[k] = target[k]
           /\ wpc[w] = "copy" /\ ~Refused(w) => Performed(w)[cur[w].key] # Absent
           /\ wpc[w] = "delete" => Performed(w)[cur[w].key] = Absent
<1>1. cur[w] \in PoolAction /\ cur[w].key \in Keys
  BY ActionParts DEF TypeInv, Equipped, InAction
<1>2. CASE wpc[w] = "copy"
  <2>1. Performed(w) = [target EXCEPT ![cur[w].key] =
                          IF source[cur[w].key] = Absent THEN target[cur[w].key]
                          ELSE ETagOf[source[cur[w].key]]]
    BY <1>2 DEF Performed
  <2>2. source[cur[w].key] # Absent => ETagOf[source[cur[w].key]] \in ETags
    BY <1>1, ETagAssumption DEF TypeInv, PoolTypeOK
  <2> QED  BY <1>1, <1>2, <2>1, <2>2, ETagAssumption DEF TypeInv, PoolTypeOK, Refused
<1>3. CASE wpc[w] = "delete"
  <2>1. Performed(w) = [target EXCEPT ![cur[w].key] = Absent]
    BY <1>3 DEF Performed
  <2> QED  BY <1>1, <1>3, <2>1 DEF TypeInv, PoolTypeOK
<1>4. CASE wpc[w] = "head"
  <2>1. Performed(w) = target
    BY <1>4 DEF Performed
  <2> QED  BY <1>4, <2>1 DEF TypeInv, PoolTypeOK
<1> QED  BY <1>2, <1>3, <1>4 DEF InAction

-----------------------------------------------------------------------------
(* What the steps of a call have in common: they move one worker on, leave *)
(* the channels and the totals alone, and change the target as S3 does or  *)
(* not at all; a worker that goes on to report a success has achieved it.  *)

CallStep(w) == BeginCall(w) \/ AttemptFails(w) \/ Aborts(w)
                 \/ HeadAnswers(w) \/ CallSucceeds(w)

MovedOn(w) ==
    /\ UNCHANGED <<source, poolCtxDone, queue, taken, closed, cur, collector,
                   progress, returned>>
    /\ InAction(w)
    /\ wpc' \in [Workers -> {"idle", "head", "copy", "delete", "report",
                             "count", "exited"}]
    /\ \A v \in Workers : v # w => wpc'[v] = wpc[v] /\ failing'[v] = failing[v]
    /\ wpc'[w] \in {"head", "copy", "delete", "report"}
    /\ wpc'[w] \in {"head", "copy"} => wpc[w] \in {"head", "copy"}
    /\ wpc'[w] = "delete" => wpc[w] = "delete"
    /\ failing' \in [Workers -> BOOLEAN]
    /\ attempt' \in [Workers -> 0 .. MaxAttempts]
    /\ calling' \subseteq calling \cup {w}
    /\ w \in calling' => wpc'[w] # "report"
    /\ target' \in {target, Performed(w)}
    /\ wpc'[w] = "report" /\ ~failing'[w] => Achieved(cur[w])'

(* Every step of a call has that shape.                                    *)

LEMMA CallShape ==
    ASSUME TypeInv, NEW w \in Workers, CallStep(w)
    PROVE  MovedOn(w)
<1> USE DEF TypeInv, PoolTypeOK
<1>a. 1 \in 0 .. MaxAttempts
  BY AttemptsAssumption
<1>b. \A v \in calling : InAction(v)
  OBVIOUS
<1>1. CASE BeginCall(w)
  BY <1>1 DEF BeginCall, MovedOn, InAction
<1>2. CASE AttemptFails(w)
  <2>1. InAction(w)
    BY <1>2, <1>b DEF AttemptFails
  <2>2. target' \in {target, Performed(w)}
    BY <1>2 DEF AttemptFails
  <2>3. CASE attempt[w] < MaxAttempts /\ attempt' = [attempt EXCEPT ![w] = attempt[w] + 1]
             /\ UNCHANGED <<wpc, failing>>
    <3>1. attempt' \in [Workers -> 0 .. MaxAttempts]
      BY <2>3, AttemptsAssumption
    <3> QED  BY <1>2, <2>1, <2>2, <2>3, <3>1 DEF AttemptFails, EndCall, MovedOn, InAction
  <2>4. CASE Report(w, TRUE) /\ UNCHANGED attempt
    BY <1>2, <2>1, <2>2, <2>4 DEF AttemptFails, Report, EndCall, MovedOn, InAction
  <2> QED  BY <1>2, <2>3, <2>4 DEF AttemptFails
<1>3. CASE Aborts(w)
  <2>1. target' \in {target, Performed(w)}
    BY <1>3 DEF Aborts
  <2> QED  BY <1>3, <2>1 DEF Aborts, Report, EndCall, MovedOn, InAction
<1>4. CASE HeadAnswers(w)
  <2>1. InAction(w) /\ cur[w] \in PoolAction /\ cur[w].type = "copy"
    BY <1>4 DEF HeadAnswers, InAction, Equipped
  <2>2. CASE target[cur[w].key] = ETagOf[cur[w].meta] /\ Report(w, FALSE) /\ UNCHANGED attempt
    <3>1. target[cur[w].key] # Absent
      BY <2>1, <2>2, ActionParts, ETagAssumption
    <3>2. Achieved(cur[w])'
      BY <1>4, <2>1, <3>1 DEF HeadAnswers, Achieved
    <3> QED  BY <1>4, <2>1, <2>2, <3>2 DEF HeadAnswers, Report, EndCall, MovedOn, InAction
  <2>3. CASE /\ wpc' = [wpc EXCEPT ![w] = "copy"]
             /\ attempt' = [attempt EXCEPT ![w] = 1]
             /\ UNCHANGED failing
    BY <1>4, <1>a, <2>1, <2>3 DEF HeadAnswers, EndCall, MovedOn, InAction
  <2> QED  BY <1>4, <2>2, <2>3 DEF HeadAnswers
<1>5. CASE CallSucceeds(w)
  <2>1. InAction(w) /\ cur[w] \in PoolAction
    BY <1>5 DEF CallSucceeds, InAction, Equipped
  <2>2. Achieved(cur[w])'
    BY <1>5, <2>1, PerformedType DEF CallSucceeds, Achieved, Equipped
  <2> QED  BY <1>5, <2>1, <2>2 DEF CallSucceeds, Report, EndCall, MovedOn, InAction
<1> QED  BY <1>1, <1>2, <1>3, <1>4, <1>5 DEF CallStep

(* A step of a call keeps the types.                                       *)

LEMMA CallTypes ==
    ASSUME TypeInv, NEW w \in Workers, MovedOn(w)
    PROVE  TypeInv'
<1>1. target' \in [Keys -> ETags \cup {Absent}]
  BY PerformedType DEF MovedOn, TypeInv, PoolTypeOK
<1>2. calling' \subseteq {v \in Workers : InAction(v)'}
  <2>1. ASSUME NEW v \in calling'  PROVE v \in Workers /\ InAction(v)'
    <3>1. CASE v = w
      BY <2>1, <3>1 DEF MovedOn, InAction
    <3>2. CASE v # w
      BY <2>1, <3>2 DEF MovedOn, TypeInv, PoolTypeOK, InAction
    <3> QED  BY <3>1, <3>2
  <2> QED  BY <2>1
<1>3. PoolTypeOK'
  BY <1>1, <1>2 DEF MovedOn, TypeInv, PoolTypeOK, collector, progress
<1>4. ASSUME NEW v \in Workers  PROVE Equipped(v)'
  <2>1. CASE v = w
    BY <2>1 DEF MovedOn, TypeInv, Equipped, InAction
  <2>2. CASE v # w
    BY <2>2 DEF MovedOn, TypeInv, Equipped
  <2> QED  BY <2>1, <2>2
<1> QED  BY <1>3, <1>4 DEF TypeInv

(* A step of a call preserves the invariant: its worker keeps its action,  *)
(* and the key it changes is nobody else's.                                *)

LEMMA CallInv ==
    ASSUME IInv, NEW w \in Workers, MovedOn(w)
    PROVE  IInv'
<1> USE DEF IInv
<1>1. TypeInv'
  BY CallTypes
<1>2. Holding' = Holding /\ Uncounted' = Uncounted /\ FailedUncounted' = FailedUncounted
  BY DEF MovedOn, InAction, Holding, Uncounted, FailedUncounted
<1>3. CountInv'
  BY <1>2 DEF MovedOn, CountInv, EveryActionReportedOnce, collector, progress
<1>4. ExitInv'
  BY DEF MovedOn, InAction, ExitInv
<1>5. w \in Holding
  BY DEF MovedOn, InAction, Holding
<1>6. QueueOrdered'
  BY DEF MovedOn, DoneInv, QueueOrdered
<1>7. OwnKeys'
  BY <1>2 DEF MovedOn, DoneInv, OwnKeys, TakenKey, collector
<1>8. ASSUME NEW a \in PoolAction, a.key # cur[w].key, Achieved(a)
      PROVE  Achieved(a)'
  <2>1. target'[a.key] = target[a.key]
    BY <1>8, ActionParts, PerformedType DEF MovedOn
  <2> QED  BY <1>8, <2>1 DEF Achieved
<1>9. ReportsAreTrue'
  <2> SUFFICES ASSUME NEW v \in Workers, wpc'[v] = "report", ~failing'[v]
               PROVE  Achieved(cur[v])'
    BY DEF ReportsAreTrue, Achieved
  <2>1. CASE v = w
    BY <2>1 DEF MovedOn
  <2>2. CASE v # w
    <3>1. wpc[v] = "report" /\ ~failing[v] /\ v \in Holding
      BY <2>2 DEF MovedOn, Holding
    <3>2. cur[v] \in PoolAction /\ cur[v].key # cur[w].key /\ Achieved(cur[v])
      BY <1>5, <2>2, <3>1 DEF DoneInv, OwnKeys, ReportsAreTrue, TypeInv, Equipped
    <3> QED  BY <1>8, <3>2 DEF MovedOn, Achieved
  <2> QED  BY <2>1, <2>2
<1>10. SuccessMeansDone'
  <2>1. ASSUME NEW i \in DOMAIN succeeded  PROVE Achieved(succeeded[i])'
    <3>1. succeeded[i] \in PoolAction
      BY DEF TypeInv, PoolTypeOK
    <3>2. succeeded[i].key # cur[w].key /\ Achieved(succeeded[i])
      BY <1>5 DEF DoneInv, OwnKeys, SuccessMeansDone, Achieved
    <3> QED  BY <1>8, <3>1, <3>2 DEF MovedOn, Achieved, collector
  <2> QED  BY <2>1 DEF MovedOn, SuccessMeansDone, Achieved, collector
<1> QED  BY <1>1, <1>3, <1>4, <1>6, <1>7, <1>9, <1>10 DEF DoneInv

-----------------------------------------------------------------------------
(* A set of workers is counted, and the count follows a worker that enters *)
(* or leaves it.                                                           *)

LEMMA Counting ==
    /\ \A S \in SUBSET Workers : Cardinality(S) \in Nat
    /\ \A S \in SUBSET Workers : \A w \in Workers \ S :
          Cardinality(S \cup {w}) = Cardinality(S) + 1
    /\ \A S \in SUBSET Workers : \A w \in S :
          Cardinality(S \ {w}) = Cardinality(S) - 1
    /\ Cardinality({}) = 0
<1>1. \A S \in SUBSET Workers : IsFiniteSet(S)
  BY WorkersAssumption, FS_Subset
<1> QED  BY <1>1, FS_CardinalityType, FS_AddElement, FS_RemoveElement, FS_EmptySet

(* A received action is one more in a worker's hands, and its key is new.  *)

LEMMA TakeInv ==
    ASSUME IInv, NEW w \in Workers, Take(w)
    PROVE  IInv'
<1> USE DEF IInv
<1> DEFINE a == queue[taken + 1]
<1>1. /\ a \in PoolAction /\ a = queue[taken + 1]
      /\ taken \in Nat /\ Len(queue) \in Nat /\ taken + 1 \in 1 .. Len(queue)
  BY DEF Take, TypeInv, PoolTypeOK
<1>2. /\ taken' = taken + 1
      /\ cur' = [cur EXCEPT ![w] = a]
      /\ wpc' = [wpc EXCEPT ![w] = IF a.type = "copy" THEN "head" ELSE "delete"]
      /\ UNCHANGED <<source, target, poolCtxDone, queue, closed, failing,
                     calling, succeeded, failed, completed, failures, returned>>
      /\ wpc[w] = "idle" /\ taken < Len(queue)
  BY DEF Take, collector, progress
<1>3. attempt' \in [Workers -> 0 .. MaxAttempts]
  BY AttemptsAssumption DEF Take, TypeInv, PoolTypeOK
<1>a. calling' \subseteq {v \in Workers : InAction(v)'}
  BY <1>2 DEF TypeInv, PoolTypeOK, InAction
<1> DEFINE NowTaken(k) == \E i \in 1 .. taken + 1 : queue[i].key = k
<1> HIDE DEF a
<1>4. PoolTypeOK'
  <2>1. taken' \in 0 .. Len(queue')
    BY <1>1, <1>2
  <2>2. cur' \in [Workers -> PoolAction \cup {NoAction}]
    BY <1>1, <1>2 DEF TypeInv, PoolTypeOK
  <2>3. wpc' \in [Workers -> {"idle", "head", "copy", "delete", "report",
                             "count", "exited"}]
    BY <1>2 DEF TypeInv, PoolTypeOK
  <2> QED  BY <1>2, <1>3, <1>a, <2>1, <2>2, <2>3 DEF TypeInv, PoolTypeOK
<1>5. \A v \in Workers : Equipped(v)'
  BY <1>1, <1>2, ActionParts DEF TypeInv, PoolTypeOK, Equipped
<1>6. /\ Holding' = Holding \cup {w} /\ w \notin Holding
      /\ Uncounted' = Uncounted /\ FailedUncounted' = FailedUncounted
  BY <1>2 DEF TypeInv, PoolTypeOK, Holding, Uncounted, FailedUncounted
<1>7. Holding \in SUBSET Workers
  BY DEF Holding
<1>8. CountInv'
  <2>1. /\ Cardinality(Holding') = Cardinality(Holding) + 1
        /\ Cardinality(Holding) \in Nat
    BY <1>6, <1>7, Counting
  <2> QED  BY <1>1, <1>2, <1>6, <2>1
           DEF CountInv, EveryActionReportedOnce, TypeInv, PoolTypeOK
<1>9. ExitInv'
  BY <1>2 DEF ExitInv, TypeInv, PoolTypeOK
<1>10. QueueOrdered' /\ SuccessMeansDone'
  BY <1>2 DEF DoneInv, QueueOrdered, SuccessMeansDone
<1>11. ReportsAreTrue'
  BY <1>2 DEF DoneInv, ReportsAreTrue, Achieved, TypeInv, PoolTypeOK
<1>12. \A k : TakenKey(k) => NowTaken(k) /\ k # a.key
  <2>1. \A i \in 1 .. taken : queue[i].key < a.key /\ i \in 1 .. taken + 1
    BY <1>1 DEF DoneInv, QueueOrdered
  <2>2. \A i \in 1 .. taken : i \in 1 .. Len(queue) /\ queue[i].key \in Nat
    BY <1>1, ActionParts DEF TypeInv, PoolTypeOK
  <2>3. a.key \in Nat
    BY <1>1, ActionParts
  <2> QED  BY <1>2, <2>1, <2>2, <2>3 DEF TakenKey
<1>13. NowTaken(a.key)
  BY <1>1
<1> HIDE DEF NowTaken
<1>14. /\ cur'[w] = a
       /\ \A v \in Holding : v # w /\ cur'[v] = cur[v]
  BY <1>2, <1>6 DEF TypeInv, PoolTypeOK, Holding
<1>15. OwnKeys'
  <2>1. \A v \in Holding' : NowTaken(cur'[v].key)
    BY <1>6, <1>12, <1>13, <1>14 DEF DoneInv, OwnKeys
  <2>2. \A i \in DOMAIN succeeded : NowTaken(succeeded[i].key)
    BY <1>12 DEF DoneInv, OwnKeys
  <2>3. \A u, v \in Holding' : u # v => cur'[u].key # cur'[v].key
    BY <1>6, <1>12, <1>14 DEF DoneInv, OwnKeys
  <2>4. \A v \in Holding', i \in DOMAIN succeeded : succeeded[i].key # cur'[v].key
    BY <1>6, <1>12, <1>14 DEF DoneInv, OwnKeys
  <2> QED  BY <1>2, <2>1, <2>2, <2>3, <2>4 DEF OwnKeys, TakenKey, NowTaken
<1> QED  BY <1>4, <1>5, <1>8, <1>9, <1>10, <1>11, <1>15 DEF TypeInv, DoneInv

(* A worker exits when the channel is closed and drained.                  *)

LEMMA ExitStepInv ==
    ASSUME IInv, NEW w \in Workers, Exit(w)
    PROVE  IInv'
<1> USE DEF IInv
<1>1. /\ wpc' = [wpc EXCEPT ![w] = "exited"] /\ wpc[w] = "idle"
      /\ closed /\ taken = Len(queue)
      /\ UNCHANGED <<source, target, poolCtxDone, queue, taken, closed, cur, attempt,
                     failing, calling, succeeded, failed, completed, failures, returned>>
  BY DEF Exit, collector, progress
<1>2. calling' \subseteq {v \in Workers : InAction(v)'}
  BY <1>1 DEF TypeInv, PoolTypeOK, InAction
<1>3. TypeInv'
  BY <1>1, <1>2 DEF TypeInv, PoolTypeOK, Equipped
<1>4. /\ Holding' = Holding
      /\ Uncounted' = Uncounted /\ FailedUncounted' = FailedUncounted
  BY <1>1 DEF TypeInv, PoolTypeOK, Holding, Uncounted, FailedUncounted
<1>5. CountInv'
  BY <1>1, <1>4 DEF CountInv, EveryActionReportedOnce
<1>6. ExitInv'
  BY <1>1 DEF ExitInv, TypeInv, PoolTypeOK
<1>7. DoneInv'
  BY <1>1, <1>4 DEF DoneInv, QueueOrdered, OwnKeys, TakenKey, ReportsAreTrue,
                    SuccessMeansDone, Achieved, TypeInv, PoolTypeOK
<1> QED  BY <1>3, <1>5, <1>6, <1>7

(* A result changes hands: the worker no longer holds the action, and the  *)
(* total it is in is ahead of Progress by one.                             *)

LEMMA SendInv ==
    ASSUME IInv, NEW w \in Workers, SendResult(w)
    PROVE  IInv'
<1> USE DEF IInv
<1>1. /\ wpc' = [wpc EXCEPT ![w] = "count"] /\ wpc[w] = "report"
      /\ UNCHANGED <<source, target, poolCtxDone, queue, taken, closed, cur, attempt,
                     failing, calling, completed, failures, returned>>
  BY DEF SendResult, progress
<1>2. cur[w] \in PoolAction /\ w \in Holding
  BY <1>1 DEF TypeInv, Equipped, Holding
<1>3. /\ succeeded' \in Seq(PoolAction) /\ failed' \in Nat
      /\ Len(succeeded') + failed' = Len(succeeded) + failed + 1
      /\ failed' = IF failing[w] THEN failed + 1 ELSE failed
  <2>1. CASE failing[w]
    BY <1>2, <2>1 DEF SendResult, TypeInv, PoolTypeOK
  <2>2. CASE ~failing[w]
    <3>1. succeeded' = Append(succeeded, cur[w]) /\ failed' = failed
      BY <2>2 DEF SendResult
    <3>2. succeeded \in Seq(PoolAction) /\ failed \in Nat
      BY DEF TypeInv, PoolTypeOK
    <3>3. succeeded' \in Seq(PoolAction) /\ Len(succeeded') = Len(succeeded) + 1
      BY <1>2, <3>1, <3>2
    <3>4. Len(succeeded) \in Nat
      BY <3>2
    <3> QED  BY <2>2, <3>1, <3>2, <3>3, <3>4
  <2> QED  BY <2>1, <2>2
<1>4. calling' \subseteq {v \in Workers : InAction(v)'}
  BY <1>1 DEF TypeInv, PoolTypeOK, InAction
<1>5. TypeInv'
  <2>1. PoolTypeOK'
    BY <1>1, <1>3, <1>4 DEF TypeInv, PoolTypeOK
  <2>2. \A v \in Workers : Equipped(v)'
    BY <1>1, <1>2 DEF TypeInv, PoolTypeOK, Equipped
  <2> QED  BY <2>1, <2>2 DEF TypeInv
<1>6. /\ Holding' = Holding \ {w}
      /\ Uncounted' = Uncounted \cup {w} /\ w \notin Uncounted
      /\ FailedUncounted' = IF failing[w] THEN FailedUncounted \cup {w} ELSE FailedUncounted
      /\ w \notin FailedUncounted
  BY <1>1 DEF TypeInv, PoolTypeOK, Holding, Uncounted, FailedUncounted
<1>7. Holding \in SUBSET Workers /\ Uncounted \in SUBSET Workers
      /\ FailedUncounted \in SUBSET Workers
  BY DEF Holding, Uncounted, FailedUncounted
<1>8. CountInv'
  <2>1. /\ Len(succeeded) \in Nat /\ Len(succeeded') \in Nat
        /\ failed \in Nat /\ completed \in Nat /\ failures \in Nat
    BY <1>3 DEF TypeInv, PoolTypeOK
  <2>2. /\ Cardinality(Holding') = Cardinality(Holding) - 1
        /\ Cardinality(Uncounted') = Cardinality(Uncounted) + 1
        /\ Cardinality(Holding) \in Nat /\ Cardinality(Uncounted) \in Nat
        /\ Cardinality(FailedUncounted) \in Nat
    BY <1>2, <1>6, <1>7, Counting
  <2>3. taken' = taken /\ completed' = completed /\ failures' = failures
    BY <1>1
  <2>4. /\ taken = Len(succeeded) + failed + Cardinality(Holding)
        /\ completed + Cardinality(Uncounted) = Len(succeeded) + failed
        /\ failures + Cardinality(FailedUncounted) = failed
    BY DEF CountInv, EveryActionReportedOnce
  <2>5. taken' = Len(succeeded') + failed' + Cardinality(Holding')
    BY <1>3, <2>1, <2>2, <2>3, <2>4
  <2>6. completed' + Cardinality(Uncounted') = Len(succeeded') + failed'
    BY <1>3, <2>1, <2>2, <2>3, <2>4
  <2>7. failures' + Cardinality(FailedUncounted') = failed'
    <3>1. CASE failing[w]
      <4>1. Cardinality(FailedUncounted') = Cardinality(FailedUncounted) + 1
        BY <1>6, <1>7, <3>1, Counting
      <4> QED  BY <1>3, <2>1, <2>2, <2>3, <2>4, <3>1, <4>1
    <3>2. CASE ~failing[w]
      <4>1. FailedUncounted' = FailedUncounted /\ failed' = failed
        BY <1>3, <1>6, <3>2
      <4> QED  BY <2>3, <2>4, <4>1
    <3> QED  BY <3>1, <3>2
  <2> QED  BY <2>5, <2>6, <2>7 DEF CountInv, EveryActionReportedOnce
<1>9. ExitInv'
  BY <1>1 DEF ExitInv, TypeInv, PoolTypeOK
<1>10. QueueOrdered' /\ ReportsAreTrue'
  BY <1>1 DEF DoneInv, QueueOrdered, ReportsAreTrue, Achieved, TypeInv, PoolTypeOK
<1>11. CASE failing[w]
  <2>1. succeeded' = succeeded
    BY <1>11 DEF SendResult
  <2> QED  BY <1>1, <1>5, <1>6, <1>8, <1>9, <1>10, <2>1
           DEF DoneInv, OwnKeys, TakenKey, SuccessMeansDone
<1>12. CASE ~failing[w]
  <2>1. succeeded' = Append(succeeded, cur[w])
    BY <1>12 DEF SendResult
  <2>2. \A i \in DOMAIN succeeded' :
           \/ i \in DOMAIN succeeded /\ succeeded'[i] = succeeded[i]
           \/ succeeded'[i] = cur[w]
    BY <1>2, <2>1 DEF TypeInv, PoolTypeOK
  <2>3. Achieved(cur[w])
    BY <1>1, <1>12 DEF DoneInv, ReportsAreTrue
  <2>4. SuccessMeansDone'
    BY <1>1, <2>2, <2>3 DEF DoneInv, SuccessMeansDone, Achieved
  <2>5. OwnKeys'
    BY <1>1, <1>2, <1>6, <2>2 DEF DoneInv, OwnKeys, TakenKey
  <2> QED  BY <1>5, <1>8, <1>9, <1>10, <2>4, <2>5 DEF DoneInv
<1> QED  BY <1>11, <1>12

(* Progress catches up with one result, and its worker is free again.      *)

LEMMA AddInv ==
    ASSUME IInv, NEW w \in Workers, AddProgress(w)
    PROVE  IInv'
<1> USE DEF IInv
<1>1. /\ wpc' = [wpc EXCEPT ![w] = "idle"] /\ wpc[w] = "count"
      /\ cur' = [cur EXCEPT ![w] = NoAction]
      /\ attempt' = [attempt EXCEPT ![w] = 0]
      /\ failing' = [failing EXCEPT ![w] = FALSE]
      /\ completed' = completed + 1
      /\ failures' = IF failing[w] THEN failures + 1 ELSE failures
      /\ UNCHANGED <<source, target, poolCtxDone, queue, taken, closed,
                     calling, succeeded, failed, returned>>
  BY DEF AddProgress, collector
<1>2. calling' \subseteq {v \in Workers : InAction(v)'}
  BY <1>1 DEF TypeInv, PoolTypeOK, InAction
<1>3. attempt' \in [Workers -> 0 .. MaxAttempts]
  BY <1>1, AttemptsAssumption DEF TypeInv, PoolTypeOK
<1>4. TypeInv'
  BY <1>1, <1>2, <1>3 DEF TypeInv, PoolTypeOK, Equipped
<1>5. /\ Holding' = Holding /\ w \notin Holding
      /\ Uncounted' = Uncounted \ {w} /\ w \in Uncounted
      /\ FailedUncounted' = FailedUncounted \ {w}
      /\ w \in FailedUncounted <=> failing[w]
  BY <1>1 DEF TypeInv, PoolTypeOK, Holding, Uncounted, FailedUncounted
<1>6. Uncounted \in SUBSET Workers /\ FailedUncounted \in SUBSET Workers
  BY DEF Uncounted, FailedUncounted
<1>7. CountInv'
  <2>1. /\ Cardinality(Uncounted') = Cardinality(Uncounted) - 1
        /\ Cardinality(Uncounted) \in Nat /\ Cardinality(FailedUncounted) \in Nat
    BY <1>5, <1>6, Counting
  <2>2. Cardinality(FailedUncounted') = IF failing[w] THEN Cardinality(FailedUncounted) - 1
                                        ELSE Cardinality(FailedUncounted)
    <3>1. CASE failing[w]
      BY <1>5, <1>6, <3>1, Counting
    <3>2. CASE ~failing[w]
      <4>1. FailedUncounted' = FailedUncounted
        BY <1>5, <3>2
      <4> QED  BY <3>2, <4>1
    <3> QED  BY <3>1, <3>2
  <2>3. completed' + Cardinality(Uncounted') = Len(succeeded') + failed'
    BY <1>1, <2>1 DEF CountInv, TypeInv, PoolTypeOK
  <2>4. failures' + Cardinality(FailedUncounted') = failed'
    BY <1>1, <2>1, <2>2 DEF CountInv, TypeInv, PoolTypeOK
  <2> QED  BY <1>1, <1>5, <2>3, <2>4 DEF CountInv, EveryActionReportedOnce
<1>8. ExitInv'
  BY <1>1 DEF ExitInv, TypeInv, PoolTypeOK
<1>9. \A v \in Holding : cur'[v] = cur[v]
  BY <1>1, <1>5 DEF TypeInv, PoolTypeOK, Holding
<1>10. OwnKeys'
  BY <1>1, <1>5, <1>9 DEF DoneInv, OwnKeys, TakenKey
<1>11. QueueOrdered' /\ ReportsAreTrue' /\ SuccessMeansDone'
  BY <1>1 DEF DoneInv, QueueOrdered, ReportsAreTrue, SuccessMeansDone, Achieved,
              TypeInv, PoolTypeOK
<1> QED  BY <1>4, <1>7, <1>8, <1>10, <1>11 DEF DoneInv

(* Run's return.                                                           *)

LEMMA ReturnInv ==
    ASSUME IInv, Return
    PROVE  IInv'
<1> USE DEF IInv
<1>1. /\ \A w \in Workers : wpc[w] = "exited"
      /\ returned' = TRUE
      /\ UNCHANGED <<source, target, poolCtxDone, queue, taken, closed, wpc, cur,
                     attempt, failing, calling, succeeded, failed, completed, failures>>
  BY DEF Return, workerState, collector, progress
<1>2. TypeInv'
  BY <1>1 DEF TypeInv, PoolTypeOK, Equipped, InAction
<1>3. CountInv'
  BY <1>1 DEF CountInv, EveryActionReportedOnce, Holding, Uncounted, FailedUncounted
<1>4. ExitInv'
  BY <1>1 DEF ExitInv
<1>5. DoneInv'
  BY <1>1 DEF DoneInv, QueueOrdered, OwnKeys, TakenKey, ReportsAreTrue, Holding,
              SuccessMeansDone, Achieved
<1> QED  BY <1>2, <1>3, <1>4, <1>5

-----------------------------------------------------------------------------
(* The differ, which fills the channel in key order and closes it once;    *)
(* the run's context; and the clients of the source.                       *)

LEMMA ProduceInv ==
    ASSUME IInv, Produce
    PROVE  IInv'
<1> USE DEF IInv
<1>1. PICK a \in PoolAction : /\ \A b \in Elements(queue) : b.key < a.key
                              /\ queue' = Append(queue, a)
  BY DEF Produce
<1>2. /\ ~closed
      /\ UNCHANGED <<source, target, poolCtxDone, taken, closed, wpc, cur, attempt,
                     failing, calling, succeeded, failed, completed, failures, returned>>
  BY DEF Produce, workerState, collector, progress
<1>3. /\ queue \in Seq(PoolAction) /\ Len(queue) \in Nat /\ taken \in 0 .. Len(queue)
  BY DEF TypeInv, PoolTypeOK
<1>4. /\ queue' \in Seq(PoolAction) /\ Len(queue') = Len(queue) + 1
      /\ \A i \in 1 .. Len(queue) : queue'[i] = queue[i]
      /\ queue'[Len(queue) + 1] = a
  BY <1>1, <1>3
<1>5. TypeInv'
  <2>1. taken' \in 0 .. Len(queue')
    BY <1>2, <1>3, <1>4
  <2> QED  BY <1>2, <1>4, <2>1 DEF TypeInv, PoolTypeOK, Equipped, InAction
<1>6. CountInv'
  BY <1>2 DEF CountInv, EveryActionReportedOnce, Holding, Uncounted, FailedUncounted
<1>7. ExitInv'
  BY <1>2 DEF ExitInv
<1>8. QueueOrdered'
  <2>1. \A i \in 1 .. Len(queue) : queue[i].key < a.key
    BY <1>1, <1>3 DEF Elements
  <2> QED  BY <1>3, <1>4, <2>1 DEF DoneInv, QueueOrdered
<1>9. OwnKeys'
  <2>1. \A i \in 1 .. taken : i \in 1 .. taken' /\ queue'[i] = queue[i]
    BY <1>2, <1>3, <1>4
  <2>2. \A k : TakenKey(k) => \E i \in 1 .. taken' : queue'[i].key = k
    BY <2>1 DEF TakenKey
  <2> QED  BY <1>2, <2>2 DEF DoneInv, OwnKeys, TakenKey, Holding
<1>10. ReportsAreTrue' /\ SuccessMeansDone'
  BY <1>2 DEF DoneInv, ReportsAreTrue, SuccessMeansDone, Achieved
<1> QED  BY <1>5, <1>6, <1>7, <1>8, <1>9, <1>10 DEF DoneInv

(* The steps that leave the pool and the target alone.                     *)

LEMMA AroundInv ==
    ASSUME IInv, closed => closed',
           source' \in [Keys -> Metas \cup {Absent}],
           closed' \in BOOLEAN, poolCtxDone' \in BOOLEAN,
           UNCHANGED <<target, queue, taken, wpc, cur, attempt, failing, calling,
                       succeeded, failed, completed, failures, returned>>
    PROVE  IInv'
<1> USE DEF IInv
<1>1. TypeInv'
  BY DEF TypeInv, PoolTypeOK, Equipped, InAction
<1>2. CountInv'
  BY DEF CountInv, EveryActionReportedOnce, Holding, Uncounted, FailedUncounted
<1>3. ExitInv'
  BY DEF ExitInv
<1>4. DoneInv'
  BY DEF DoneInv, QueueOrdered, OwnKeys, TakenKey, ReportsAreTrue, Holding,
         SuccessMeansDone, Achieved
<1> QED  BY <1>1, <1>2, <1>3, <1>4

(* The differ's close, the context and the clients are such steps.         *)

LEMMA OutsideInv ==
    ASSUME IInv, CloseQueue \/ CancelPool \/ ClientWrites \/ UNCHANGED pvars
    PROVE  IInv'
<1>1. UNCHANGED <<target, queue, taken, wpc, cur, attempt, failing, calling,
                  succeeded, failed, completed, failures, returned>>
  BY DEF CloseQueue, CancelPool, ClientWrites, pvars, poolVars, workerState,
         collector, progress
<1>2. source' \in [Keys -> Metas \cup {Absent}] /\ closed' \in BOOLEAN
      /\ poolCtxDone' \in BOOLEAN
  BY DEF CloseQueue, CancelPool, ClientWrites, pvars, poolVars, IInv, TypeInv, PoolTypeOK
<1>3. closed => closed'
  BY DEF CloseQueue, CancelPool, ClientWrites, pvars, poolVars
<1> QED  BY <1>1, <1>2, <1>3, AroundInv

-----------------------------------------------------------------------------
(* The invariant holds at first and is preserved by every step.            *)

LEMMA InitInv == PInit => IInv
<1> SUFFICES ASSUME PInit PROVE IInv
  OBVIOUS
<1> USE DEF PInit, StartPool, Idle
<1>1. Holding = {} /\ Uncounted = {} /\ FailedUncounted = {}
  BY DEF Holding, Uncounted, FailedUncounted
<1>2. queue = <<>> /\ succeeded = <<>> /\ queue \in Seq(PoolAction)
      /\ succeeded \in Seq(PoolAction) /\ Len(queue) = 0 /\ Len(succeeded) = 0
  OBVIOUS
<1>3. 0 \in 0 .. MaxAttempts
  BY AttemptsAssumption
<1>4. TypeInv
  <2>1. taken \in 0 .. Len(queue)
    BY <1>2
  <2>2. /\ wpc \in [Workers -> {"idle", "head", "copy", "delete", "report",
                               "count", "exited"}]
        /\ cur \in [Workers -> PoolAction \cup {NoAction}]
        /\ attempt \in [Workers -> 0 .. MaxAttempts]
        /\ failing \in [Workers -> BOOLEAN]
    BY <1>3
  <2>3. PoolTypeOK
    BY <1>2, <2>1, <2>2 DEF PoolTypeOK
  <2>4. \A w \in Workers : Equipped(w)
    BY DEF Equipped
  <2> QED  BY <2>3, <2>4 DEF TypeInv
<1>5. CountInv
  BY <1>1, <1>2, Counting DEF CountInv, EveryActionReportedOnce
<1>6. ExitInv
  BY DEF ExitInv
<1>7. DoneInv
  BY <1>1, <1>2 DEF DoneInv, QueueOrdered, OwnKeys, ReportsAreTrue, SuccessMeansDone
<1> QED  BY <1>4, <1>5, <1>6, <1>7 DEF IInv

(* Every step of the pool or around it preserves the invariant.            *)

LEMMA NextInv == IInv /\ [PNext]_pvars => IInv'
<1> SUFFICES ASSUME IInv, [PNext]_pvars PROVE IInv'
  OBVIOUS
<1>1. ASSUME NEW w \in Workers, CallStep(w)
      PROVE  IInv'
  BY <1>1, CallShape, CallInv DEF IInv
<1>2. ASSUME NEW w \in Workers, Worker(w)
      PROVE  IInv'
  BY <1>1, <1>2, TakeInv, ExitStepInv, SendInv, AddInv DEF Worker, CallStep
<1>3. CASE Produce
  BY <1>3, ProduceInv
<1>4. CASE Return
  BY <1>4, ReturnInv
<1>5. CASE CloseQueue \/ CancelPool \/ ClientWrites \/ UNCHANGED pvars
  BY <1>5, OutsideInv
<1> QED  BY <1>2, <1>3, <1>4, <1>5 DEF PNext, PoolStep, PoolFinished

(* The invariant holds in every state the pool can reach.                  *)

THEOREM Invariance == PSpec => []IInv
<1>1. PInit => IInv
  BY InitInv
<1>2. IInv /\ [PNext]_pvars => IInv'
  BY NextInv
<1> QED  BY <1>1, <1>2, PTL DEF PSpec

(* The variables have their types.                                         *)

THEOREM TypesCorrect == PSpec => []PoolTypeOK
<1>1. IInv => PoolTypeOK
  BY DEF IInv, TypeInv
<1> QED  BY <1>1, Invariance, PTL

(* Every action that has left the channel is in the hands of one worker or *)
(* in the collector's totals, whatever fails and however often.            *)

THEOREM OneReportEach == PSpec => []EveryActionReportedOnce
<1>1. IInv => EveryActionReportedOnce
  BY DEF IInv, CountInv
<1> QED  BY <1>1, Invariance, PTL

(* With at least one worker, the invariant implies that Progress is exact  *)
(* when Run has returned: every worker has exited and holds nothing.       *)

LEMMA ProgressExact ==
    ASSUME Workers # {}, IInv PROVE ProgressAgrees
<1>1. /\ Cardinality(FailedUncounted) \in Nat /\ Cardinality({}) = 0
      /\ failures \in Nat /\ failed \in Nat /\ completed \in Nat
  BY Counting DEF FailedUncounted, IInv, TypeInv, PoolTypeOK
<1>2. failures <= failed
  BY <1>1 DEF IInv, CountInv
<1>3. ASSUME returned  PROVE completed = Len(queue) /\ failures = failed
  <2>1. PICK w \in Workers : TRUE
    OBVIOUS
  <2>2. Holding = {} /\ Uncounted = {} /\ FailedUncounted = {} /\ taken = Len(queue)
    BY <1>3, <2>1 DEF IInv, ExitInv, Holding, Uncounted, FailedUncounted
  <2>3. Len(succeeded) \in Nat
    BY DEF IInv, TypeInv, PoolTypeOK
  <2> QED  BY <1>1, <2>2, <2>3 DEF IInv, CountInv, EveryActionReportedOnce
<1> QED  BY <1>2, <1>3 DEF ProgressAgrees, IInv, CountInv

(* With at least one worker, Progress is exact when Run has returned.      *)

THEOREM ExactProgress ==
    ASSUME Workers # {} PROVE PSpec => []ProgressAgrees
<1> QED  BY ProgressExact, Invariance, PTL

(* A reported success is true of the target, and stays true.               *)

THEOREM SuccessIsTrue == PSpec => []SuccessMeansDone
<1>1. IInv => SuccessMeansDone
  BY DEF IInv, DoneInv
<1> QED  BY <1>1, Invariance, PTL


-----------------------------------------------------------------------------
(* What fails when S3 does not.                                            *)

(* A failed action is a copy of a key that is missing: in the target, as   *)
(* the HEAD found, or in a source that nobody changes.                     *)

Missing(w) ==
    /\ cur[w].type = "copy"
    /\ "sourceChange" \notin PoolFaults =>
         target[cur[w].key] = Absent \/ source[cur[w].key] = Absent

OnlyMissingFail == \A w \in Workers : wpc[w] = "report" /\ failing[w] => Missing(w)

FailInv == ~poolCtxDone /\ OnlyMissingFail

(* Of objects the source still holds as listed, only new keys fail.        *)

OnlyNewFail ==
    \A w \in Workers :
        wpc[w] = "report" /\ failing[w] /\ source[cur[w].key] = cur[w].meta
          => cur[w].type = "copy" /\ target[cur[w].key] = Absent

(* A call that ends its action badly was refused.                          *)

LEMMA FailingCall ==
    ASSUME PoolFaults \subseteq {"sourceChange"}, TypeInv, ~poolCtxDone,
           NEW w \in Workers, CallStep(w), wpc'[w] = "report", failing'[w]
    PROVE  Missing(w)'
<1> USE DEF TypeInv, PoolTypeOK
<1>1. InAction(w) /\ MovedOn(w)
  BY CallShape DEF MovedOn
<1>2. CASE AttemptFails(w)
  <2>1. Refused(w) /\ UNCHANGED <<source, target, cur>>
    BY <1>2 DEF AttemptFails
  <2> QED  BY <1>1, <2>1 DEF Refused, Missing, Equipped
<1>3. CASE BeginCall(w)
  BY <1>1, <1>3 DEF BeginCall, InAction
<1>4. CASE HeadAnswers(w)
  <2>1. CASE Report(w, FALSE)
    BY <2>1 DEF Report
  <2>2. CASE wpc' = [wpc EXCEPT ![w] = "copy"]
    BY <2>2
  <2> QED  BY <1>4, <2>1, <2>2 DEF HeadAnswers
<1>5. CASE CallSucceeds(w)
  BY <1>5 DEF CallSucceeds, Report
<1>6. ~Aborts(w)
  BY DEF Aborts
<1> QED  BY <1>2, <1>3, <1>4, <1>5, <1>6 DEF CallStep

(* A worker waiting to report a failure still has its reason: the key is   *)
(* its own in the target, and nobody changes the source.                   *)

LEMMA FailStep ==
    ASSUME PoolFaults \subseteq {"sourceChange"}, IInv, FailInv, [PNext]_pvars
    PROVE  FailInv'
<1> USE DEF IInv, FailInv
<1>1. ~poolCtxDone'
  BY DEF PNext, PoolStep, Worker, Take, Exit, BeginCall, AttemptFails, Aborts,
     HeadAnswers, CallSucceeds, SendResult, AddProgress, Return, Produce, CloseQueue,
     CancelPool, ClientWrites, PoolFinished, pvars
<1>2. ASSUME NEW w \in Workers, CallStep(w) PROVE OnlyMissingFail'
  <2>1. MovedOn(w)
    BY <1>2, CallShape
  <2>2. ASSUME NEW v \in Workers, wpc'[v] = "report", failing'[v], v # w
        PROVE  Missing(v)'
    <3>1. wpc[v] = "report" /\ failing[v] /\ UNCHANGED <<source, cur>>
      BY <2>1, <2>2 DEF MovedOn
    <3>2. v \in Holding /\ w \in Holding /\ cur[v] \in PoolAction
      BY <2>1, <3>1 DEF MovedOn, InAction, Holding, TypeInv, Equipped
    <3>3. cur[v].key # cur[w].key /\ cur[v].key \in Keys
      BY <2>2, <3>2, ActionParts DEF DoneInv, OwnKeys
    <3>4. target'[cur[v].key] = target[cur[v].key]
      BY <2>1, <3>3, PerformedType DEF MovedOn
    <3> QED  BY <3>1, <3>4 DEF OnlyMissingFail, Missing
  <2> QED  BY <1>2, <2>2, FailingCall DEF OnlyMissingFail
<1>3. ASSUME NEW w \in Workers,
             Take(w) \/ Exit(w) \/ SendResult(w) \/ AddProgress(w)
      PROVE  OnlyMissingFail'
  <2>1. /\ UNCHANGED <<source, target>>
        /\ \A v \in Workers : v # w => /\ wpc'[v] = wpc[v] /\ cur'[v] = cur[v]
                                       /\ failing'[v] = failing[v]
        /\ wpc'[w] # "report"
    BY <1>3 DEF Take, Exit, SendResult, AddProgress, TypeInv, PoolTypeOK
  <2> QED  BY <2>1 DEF OnlyMissingFail, Missing
<1>4. ASSUME UNCHANGED <<target, wpc, cur, failing>>,
             UNCHANGED source \/ "sourceChange" \in PoolFaults
      PROVE  OnlyMissingFail'
  BY <1>4 DEF OnlyMissingFail, Missing
<1>5. CASE Return \/ Produce \/ CloseQueue \/ CancelPool \/ ClientWrites
           \/ PoolFinished \/ UNCHANGED pvars
  BY <1>4, <1>5 DEF Return, Produce, CloseQueue, CancelPool, ClientWrites, PoolFinished,
     pvars, poolVars, workerState
<1> QED  BY <1>1, <1>2, <1>3, <1>5 DEF PNext, PoolStep, Worker, CallStep

(* While S3 answers in time and nobody cancels the run, the failures are   *)
(* exactly copies of keys that are missing; in a source nobody changes     *)
(* either, CopiesSucceedWithoutFaults is violated by keys new to the       *)
(* target and by nothing else.                                             *)

THEOREM OnlyNewKeysFail ==
    ASSUME PoolFaults \subseteq {"sourceChange"}, Absent \notin Metas
    PROVE  /\ PSpec => []OnlyMissingFail
           /\ PoolFaults = {} => (PSpec => []OnlyNewFail)
<1>1. PInit => FailInv
  BY DEF PInit, StartPool, Idle, FailInv, OnlyMissingFail
<1>2. IInv /\ FailInv /\ [PNext]_pvars => FailInv'
  BY FailStep
<1>3. PSpec => [](IInv /\ FailInv)
  BY <1>1, <1>2, Invariance, PTL DEF PSpec
<1>4. FailInv => OnlyMissingFail
  BY DEF FailInv
<1>5. PSpec => []OnlyMissingFail
  BY <1>3, <1>4, PTL
<1>6. ASSUME PoolFaults = {} PROVE PSpec => []OnlyNewFail
  <2>1. IInv /\ FailInv => OnlyNewFail
    BY <1>6, ActionParts
    DEF IInv, TypeInv, Equipped, FailInv, OnlyMissingFail, Missing, OnlyNewFail
  <2> QED  BY <1>3, <2>1, PTL
<1> QED  BY <1>5, <1>6

=============================================================================
