------------------------------- MODULE Mirror ---------------------------------
(***************************************************************************)
(* What the cycles of a pair do to the target and to the cache, without    *)
(* listings, queues, workers or retries.  During a cycle a key of the      *)
(* target becomes what the source holds at that moment, or disappears, and *)
(* only for a reason the cycle has seen; when the cycle ends, the cache    *)
(* learns only of what was seen and is in place.                           *)
(*                                                                         *)
(* This is promised while a LIST that fails ends the cycle: an error the   *)
(* differ drops makes it delete without having seen a reason (the run      *)
(* diff_list_error), so those are excluded.                                *)
(***************************************************************************)
CONSTANTS Keys, Metas, ETags, ETagOf, Absent, Blank

VARIABLES
    source, target,   \* the two buckets
    cache,            \* what the pair remembers of each key
    working,          \* a cycle is in progress
    seen, snapshot,   \* what it has seen of each key, and remembered at first
    dry, deletes      \* the pair's settings

mvars == <<source, target, cache, working, seen, snapshot, dry, deletes>>

Nothing == [k \in Keys |-> {}]
Forgotten == [k \in Keys |-> Absent]

MInit ==
    /\ source \in [Keys -> Metas \cup {Absent}]
    /\ target \in [Keys -> ETags \cup {Absent}]
    /\ cache = Forgotten /\ ~working
    /\ seen = Nothing /\ snapshot = Forgotten
    /\ dry \in BOOLEAN /\ deletes \in BOOLEAN

News(k) == seen[k] \ {Absent, snapshot[k]}
Gone(k) == deletes /\ Absent \in seen[k] /\ snapshot[k] # Absent

Begin ==
    /\ ~working /\ working' = TRUE
    /\ snapshot' = cache
    /\ seen' = [k \in Keys |-> {source[k]}]
    /\ UNCHANGED <<source, target, cache, dry, deletes>>

(* S3 performs copies and deletions of the cycle, for some of the keys.  A *)
(* dry run lists the source and sets the target up, but sends none.        *)

Requests ==
    /\ working /\ ~dry
    /\ \A k \in Keys :
          \/ target'[k] = target[k]
          \/ News(k) # {} /\ source[k] # Absent /\ target'[k] = ETagOf[source[k]]
          \/ Gone(k) /\ target'[k] = Absent

Transfer == Requests /\ UNCHANGED <<source, cache, working, seen, snapshot, dry, deletes>>

Remember ==
    \A k \in Keys :
        \/ cache'[k] = cache[k]
        \/ /\ cache'[k] \in News(k)
           /\ \/ dry
              \/ /\ target[k] # Absent
                 /\ cache'[k] = source[k] => target[k] = ETagOf[source[k]]
        \/ /\ cache'[k] = Blank /\ Gone(k)
           /\ dry \/ target[k] = Absent

(* A cycle ends, or is cut short with requests still at S3.                *)

End ==
    /\ working /\ working' = FALSE
    /\ \/ Remember /\ UNCHANGED target
       \/ Requests /\ UNCHANGED cache
    /\ seen' = Nothing /\ snapshot' = Forgotten
    /\ UNCHANGED <<source, dry, deletes>>

Forget ==
    /\ cache' = Forgotten
    /\ UNCHANGED <<source, target, working, seen, snapshot, dry, deletes>>

Write(k, v) ==
    /\ source' = [source EXCEPT ![k] = v]
    /\ seen' = IF working THEN [seen EXCEPT ![k] = @ \cup {v}] ELSE seen
    /\ UNCHANGED <<target, cache, working, snapshot, dry, deletes>>

MNext == \/ Begin \/ Transfer \/ End \/ Forget
         \/ \E k \in Keys, v \in Metas \cup {Absent} : Write(k, v)

MSpec == MInit /\ [][MNext]_mvars

=============================================================================
