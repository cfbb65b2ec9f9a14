------------------------------- MODULE Catalog --------------------------------
(***************************************************************************)
(* What the setup wizard does to the tables of buckets and pairs, without  *)
(* tabs, sessions or steps, while buckets are deleted: rows are added one  *)
(* at a time; no id is used twice, not even after a deletion, and no name  *)
(* at the same time; a pair joins two buckets that are or were stored, and *)
(* is named after them when it was left without a name.                    *)
(***************************************************************************)
CONSTANTS Ids, Names, PairNames

VARIABLES buckets, removed, pairs

EverStored == buckets \cup removed

AddBucket(id, name) ==
    /\ \A b \in EverStored : b.id # id
    /\ \A b \in buckets : b.name # name
    /\ buckets' = buckets \cup {[id |-> id, name |-> name]}
    /\ UNCHANGED <<removed, pairs>>

RemoveBucket(b) ==
    /\ buckets' = buckets \ {b}
    /\ removed' = removed \cup {b}
    /\ UNCHANGED pairs

AddPair(source, target, name) ==
    /\ \A p \in pairs : p.name # name
    /\ pairs' = pairs \cup {[name |-> name, source |-> source.id, target |-> target.id]}
    /\ UNCHANGED <<buckets, removed>>

CInit == buckets = {} /\ removed = {} /\ pairs = {}

CNext == \/ \E id \in Ids, name \in Names : AddBucket(id, name)
         \/ \E b \in buckets : RemoveBucket(b)
         \/ \E b, c \in EverStored :
               \E name \in PairNames \cup {<<b.name, c.name>>} : AddPair(b, c, name)

CSpec == CInit /\ [][CNext]_<<buckets, removed, pairs>>

=============================================================================
