---------------------------- MODULE DiffContract -----------------------------
(***************************************************************************)
(* What a run of the differ promises its caller, without pages, channels   *)
(* or goroutines: while clients may change the bucket, it emits at most    *)
(* one action per key, in key order, each justified by something the       *)
(* bucket really held during the run and none before every smaller key is  *)
(* settled; and when it ends without an error and without having been      *)
(* cancelled, it has settled every key.                                    *)
(***************************************************************************)
EXTENDS Integers, Sequences

CONSTANTS Keys, Metas, Absent

VARIABLES
    history,    \* the values (objects or Absent) each key has held so far
    records,    \* what the cache snapshot says of each key
    deletes,    \* whether deletions are propagated
    cancelled,
    emitted,    \* the actions so far
    outcome     \* "running", "complete" or "failed"

cvars == <<history, records, deletes, cancelled, emitted, outcome>>

CInit ==
    /\ history \in [Keys -> {{v} : v \in Metas \cup {Absent}}]
    /\ cancelled = FALSE
    /\ emitted = <<>>
    /\ outcome = "running"

Justified(a) ==
    \/ /\ a.type = "copy"
       /\ a.meta \in history[a.key]
       /\ records[a.key] # a.meta
    \/ /\ a.type = "delete"
       /\ deletes
       /\ Absent \in history[a.key]
       /\ records[a.key] # Absent

(* Nothing is left to do for k: it was acted upon, or at some moment of    *)
(* the run the bucket and the cache agreed about it.                       *)

Settled(k) ==
    \/ \E i \in DOMAIN emitted : emitted[i].key = k
    \/ records[k] # Absent /\ records[k] \in history[k]
    \/ Absent \in history[k] /\ (records[k] = Absent \/ ~deletes)

EmitAction(a) ==
    /\ outcome = "running"
    /\ emitted' = Append(emitted, a)
    /\ Justified(a)
    /\ \A i \in DOMAIN emitted : emitted[i].key < a.key
    /\ \A k \in Keys : k < a.key => Settled(k)
    /\ UNCHANGED <<history, records, deletes, cancelled, outcome>>

Complete ==
    /\ outcome = "running"
    /\ cancelled \/ \A k \in Keys : Settled(k)
    /\ outcome' = "complete"
    /\ UNCHANGED <<history, records, deletes, cancelled, emitted>>

Fail ==
    /\ outcome = "running"
    /\ outcome' = "failed"
    /\ UNCHANGED <<history, records, deletes, cancelled, emitted>>

CancelRun ==
    /\ cancelled' = TRUE
    /\ UNCHANGED <<history, records, deletes, emitted, outcome>>

ClientsWrite ==
    /\ \A k \in Keys : history[k] \subseteq history'[k]
    /\ UNCHANGED <<records, deletes, cancelled, emitted, outcome>>

(* EmitAction for the action the step appends                              *)
EmitLast ==
    /\ emitted' # emitted
    /\ EmitAction(emitted'[Len(emitted')])

CNext == \/ EmitLast \/ Complete \/ Fail \/ CancelRun \/ ClientsWrite

CSpec == CInit /\ [][CNext]_cvars

=============================================================================
