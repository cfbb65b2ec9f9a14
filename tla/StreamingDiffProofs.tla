------------------------- MODULE StreamingDiffProofs -------------------------
(***************************************************************************)
(* Proofs about StreamingDiff for every set of keys, page size, channel    *)
(* capacity and cache content.                                             *)
(***************************************************************************)
EXTENDS StreamingDiff, TLAPS, WellFoundedInduction, FiniteSetTheorems,
        SequenceTheorems

(* The smallest and the greatest key of a page.                            *)

(* Min picks the least element of a set of naturals.                       *)

LEMMA MinInSet ==
    ASSUME NEW S \in SUBSET Nat, S # {}
    PROVE  Min(S) \in S /\ \A j \in S : Min(S) <= j
<1> DEFINE Below == {p \in Nat \X Nat : p[1] < p[2]}
<1>1. IsWellFoundedOn(Below, Nat)
  BY NatLessThanWellFounded DEF OpToRel
<1>2. PICK k \in S : \A j \in S : <<j, k>> \notin Below
  BY <1>1, WFMin
<1>3. ASSUME NEW j \in S PROVE k <= j
  <2>1. j < k => <<j, k>> \in Below
    BY SMT
  <2> QED  BY <1>2, <2>1
<1> QED  BY <1>3 DEF Min

(* Max picks the greatest element of a finite set of naturals: a smallest  *)
(* subset without one would, without one of its elements, have one.        *)

LEMMA MaxInSet ==
    ASSUME NEW S \in SUBSET Nat, IsFiniteSet(S), S # {}
    PROVE  Max(S) \in S /\ \A j \in S : j <= Max(S)
<1> DEFINE HasMax(T) == \E k \in T : \A j \in T : j <= k
           Bad == {T \in SUBSET S : T # {} /\ ~ HasMax(T)}
           Sizes == {Cardinality(T) : T \in Bad}
<1>1. Sizes \subseteq Nat
  BY FS_Subset, FS_CardinalityType
<1>2. SUFFICES ASSUME Bad # {} PROVE FALSE
  BY DEF Max
<1>3. PICK T \in Bad : \A U \in Bad : Cardinality(T) <= Cardinality(U)
  <2>1. Sizes # {}
    BY <1>2
  <2>2. Min(Sizes) \in Sizes /\ \A n \in Sizes : Min(Sizes) <= n
    BY <1>1, <2>1, MinInSet
  <2>3. PICK T \in Bad : Cardinality(T) = Min(Sizes)
    BY <2>2
  <2> QED  BY <2>2, <2>3
<1>4. PICK x \in T : TRUE
  OBVIOUS
<1>5. IsFiniteSet(T) /\ Cardinality(T) \in Nat
  BY FS_Subset, FS_CardinalityType
<1>6. Cardinality(T \ {x}) = Cardinality(T) - 1
  BY <1>4, <1>5, FS_RemoveElement
<1>7. T \ {x} \notin Bad
  <2>1. SUFFICES ASSUME T \ {x} \in Bad PROVE FALSE
    OBVIOUS
  <2>2. Cardinality(T) <= Cardinality(T \ {x})
    BY <1>3, <2>1
  <2> QED  BY <1>5, <1>6, <2>2
<1>8. CASE T \ {x} = {}
  BY <1>4, <1>8
<1>9. CASE T \ {x} # {}
  <2>1. PICK y \in T \ {x} : \A j \in T \ {x} : j <= y
    BY <1>7, <1>9
  <2>2. \A j \in T : j <= (IF x <= y THEN y ELSE x)
    BY <2>1
  <2> QED  BY <2>1, <2>2
<1> QED  BY <1>8, <1>9

(* Keys are positive numbers; 0 stands for none.                           *)

LEMMA KeyNumbers ==
    /\ \A k \in Keys : k \in Nat \ {0} /\ k \in KeyOrNone
    /\ \A k \in KeyOrNone : k \in Nat /\ (k # 0 => k \in Keys)
<1> QED  BY KeysAssumption DEF KeyOrNone

(* A non-empty set of keys has a smallest and a greatest key.              *)

LEMMA KeyBounds ==
    ASSUME NEW S \in SUBSET Keys, S # {}
    PROVE  /\ Min(S) \in S /\ \A j \in S : Min(S) <= j
           /\ Max(S) \in S /\ \A j \in S : j <= Max(S)
<1>1. S \in SUBSET Nat /\ IsFiniteSet(S)
  BY KeysAssumption, FS_Subset
<1> QED  BY <1>1, MinInSet, MaxInSet

(* Next of the cache cursor is a later key, or none.                       *)

LEMMA NextCachedType ==
    ASSUME NEW k \in KeyOrNone
    PROVE  /\ NextCached(k) \in KeyOrNone
           /\ NextCached(k) # 0 => NextCached(k) > k
<1> DEFINE rest == {j \in Keys : j > k /\ cache[j] # Absent}
<1>1. rest # {} => Min(rest) \in rest
  BY KeyBounds
<1> QED  BY <1>1, KeysAssumption DEF NextCached, KeyOrNone

-----------------------------------------------------------------------------
(* The types.                                                              *)

(* A page of a listing holds keys that are in the source and after the     *)
(* position it was asked for.                                              *)

LEMMA PageType ==
    ASSUME TypeOK, NEW from \in KeyOrNone, NEW S \in PagesAfter(from), S # {}
    PROVE  /\ S \subseteq KeysAfter(from) /\ S \subseteq Keys
           /\ [k \in S |-> source[k]] \in Objects
           /\ Min(S) \in S /\ \A j \in S : Min(S) <= j
           /\ Max(S) \in S /\ \A j \in S : j <= Max(S)
<1>1. S \subseteq KeysAfter(from) /\ S \subseteq Keys
  BY DEF PagesAfter, KeysAfter
<1>2. \A k \in S : source[k] \in Metas
  BY <1>1 DEF TypeOK, KeysAfter, Values
<1>3. [k \in S |-> source[k]] \in [S -> Metas]
  BY <1>2
<1>4. [k \in S |-> source[k]] \in Objects
  BY <1>1, <1>3 DEF Objects
<1> QED  BY <1>1, <1>4, KeyBounds

(* Putting an action on the channel.                                       *)

LEMMA EmitType ==
    ASSUME TypeOK, NEW a \in SyncAction, Emit(a), UNCHANGED taken
    PROVE  /\ actions' \in Seq(SyncAction)
           /\ taken' \in 0 .. Len(actions') /\ Len(actions') - taken' <= ActionCap
<1>1. actions' = Append(actions, a) /\ Len(actions) - taken < ActionCap
  BY DEF Emit
<1>2. actions' \in Seq(SyncAction) /\ Len(actions') = Len(actions) + 1
  BY <1>1 DEF TypeOK
<1> QED  BY <1>1, <1>2, CapsAssumption DEF TypeOK

(* What the fetcher makes of a page.                                       *)

Answer(from, S) ==
    \/ S = {} /\ fpc' = "done" /\ UNCHANGED <<prevToken, seenMaxKey, out>>
    \/ /\ S # {} /\ fpc' = "send"
       /\ out' = [objs |-> [k \in S |-> source[k]],
                  last |-> LastPage(S, S # KeysAfter(from),
                             IF S # KeysAfter(from) THEN Max(S) ELSE 0)]
       /\ seenMaxKey' = IF Max(S) > seenMaxKey THEN Max(S) ELSE seenMaxKey
       /\ prevToken' = IF S # KeysAfter(from) THEN Max(S) ELSE 0

(* The initial states are well typed.                                      *)

LEMMA TypeInit == Init => TypeOK
<1> SUFFICES ASSUME Init PROVE TypeOK
  OBVIOUS
<1>1. 0 \in KeyOrNone
  BY DEF KeyOrNone
<1>2. NoObjects \in Objects
  BY DEF NoObjects, Objects
<1>3. history \in [Keys -> SUBSET Values]
  BY DEF Init
<1>4. /\ pages \in Seq(Page) /\ Len(pages) <= PageCap
      /\ actions \in Seq(SyncAction)
      /\ taken \in 0 .. Len(actions) /\ Len(actions) - taken <= ActionCap
  BY CapsAssumption DEF Init
<1>5. out \in Page
  BY <1>2 DEF Init, Page
<1>6. Absent \in Values
  BY DEF Values
<1> QED  BY <1>1, <1>2, <1>3, <1>4, <1>5, <1>6 DEF Init, TypeOK

(* Every step preserves the types.                                         *)

LEMMA TypeNext == TypeOK /\ [Next]_vars => TypeOK'
<1> SUFFICES ASSUME TypeOK, [Next]_vars PROVE TypeOK'
  OBVIOUS
<1> USE DEF environment, fetcher, merger, vars
<1>1. CASE ListFails
  BY <1>1 DEF ListFails, TypeOK
<1>2. CASE ListSucceeds
  <2>0. PICK from \in Positions : \E S \in PagesAfter(from) : Answer(from, S)
    BY <1>2 DEF ListSucceeds, Answer
  <2>1. PICK S \in PagesAfter(from) : Answer(from, S)
    BY <2>0
  <2>2. from \in KeyOrNone
    BY DEF Positions, TypeOK
  <2>3. /\ prevToken' \in KeyOrNone /\ seenMaxKey' \in KeyOrNone
        /\ out' \in Page /\ fpc' \in {"list", "send", "done"}
    <3>1. CASE S = {}
      BY <2>1, <3>1 DEF Answer, TypeOK
    <3>2. CASE S # {}
      <4>1. Max(S) \in KeyOrNone /\ 0 \in KeyOrNone
        BY <2>2, <3>2, PageType DEF KeyOrNone
      <4>2. [k \in S |-> source[k]] \in Objects
        BY <2>2, <3>2, PageType
      <4>3. \A truncated, nextToken : LastPage(S, truncated, nextToken) \in BOOLEAN
        BY DEF LastPage
      <4>4. out' \in Page
        BY <2>1, <3>2, <4>2, <4>3 DEF Answer, Page
      <4> QED  BY <2>1, <3>2, <4>1, <4>4 DEF Answer, TypeOK
    <3> QED  BY <3>1, <3>2
  <2>4. listCalls' = listCalls + 1
        /\ UNCHANGED <<environment, ctxDone, token, pages, errCh, merger,
                       actions, taken>>
    BY <1>2 DEF ListSucceeds
  <2> QED  BY <2>3, <2>4 DEF TypeOK
<1>3. CASE SendPage
  <2>1. pages' \in Seq(Page) /\ Len(pages') <= PageCap
    BY <1>3, CapsAssumption DEF SendPage, TypeOK
  <2> QED  BY <1>3, <2>1 DEF SendPage, TypeOK
<1>4. CASE AbandonPage
  BY <1>4 DEF AbandonPage, TypeOK
<1>5. CASE CheckInitialError
  <2>1. NextCached(0) \in KeyOrNone
    BY NextCachedType DEF KeyOrNone
  <2> QED  BY <1>5, <2>1 DEF CheckInitialError, TypeOK
<1>6. CASE NextListObj
  <2>1. 0 \in KeyOrNone /\ Absent \in Values
    BY DEF KeyOrNone, Values
  <2>2. CASE AlreadyDone
    BY <2>1, <2>2 DEF AlreadyDone, NoListObject, TypeOK
  <2>3. CASE TakeFromPage
    <3>1. DOMAIN page \in SUBSET Keys /\ page \in [DOMAIN page -> Metas]
      BY DEF TypeOK, Objects
    <3> DEFINE k == Min(DOMAIN page)
    <3>2. k \in DOMAIN page
      BY <2>3, <3>1, KeyBounds DEF TakeFromPage
    <3>3. listKey' = k /\ listMeta' = page[k]
          /\ page' = [j \in DOMAIN page \ {k} |-> page[j]]
          /\ listDone' \in BOOLEAN
      BY <2>3 DEF TakeFromPage
    <3>4. listKey' \in KeyOrNone /\ listMeta' \in Metas
      BY <3>1, <3>2, <3>3 DEF KeyOrNone
    <3>5. page' \in Objects
      <4>1. page' \in [DOMAIN page \ {k} -> Metas]
        BY <3>1, <3>3
      <4> QED  BY <3>1, <4>1 DEF Objects
    <3> QED  BY <2>3, <3>3, <3>4, <3>5 DEF TakeFromPage, TypeOK, Values
  <2>4. CASE ReceivePage
    <3>1. Head(pages) \in Page /\ Tail(pages) \in Seq(Page)
          /\ Len(Tail(pages)) = Len(pages) - 1
      BY <2>4, HeadTailProperties DEF ReceivePage, TypeOK
    <3>2. Len(pages) \in Nat /\ Len(pages) <= PageCap
      BY DEF TypeOK
    <3>3. Len(pages') <= PageCap
      <4>1. pages' = Tail(pages)
        BY <2>4 DEF ReceivePage
      <4>2. Len(Tail(pages)) <= PageCap
        BY <3>1, <3>2, CapsAssumption
      <4> QED  BY <4>1, <4>2
    <3> QED  BY <2>4, <3>1, <3>3 DEF ReceivePage, TypeOK, Page
  <2>5. CASE ReceiveClosed
    BY <2>1, <2>5 DEF ReceiveClosed, NoListObject, TypeOK
  <2>6. CASE ReceiveError
    BY <2>1, <2>6 DEF ReceiveError, NoListObject, TypeOK
  <2>7. CASE ReceiveCancel
    BY <2>1, <2>7 DEF ReceiveCancel, NoListObject, TypeOK
  <2> QED  BY <1>6, <2>2, <2>3, <2>4, <2>5, <2>6, <2>7 DEF NextListObj
<1>7. CASE CheckContext
  BY <1>7 DEF CheckContext, TypeOK
<1>8. CASE CopyNew
  <2>1. CopyOf(listKey, listMeta) \in SyncAction
    BY <1>8 DEF CopyNew, CopyOf, SyncAction, TypeOK, KeyOrNone
  <2>2. /\ actions' \in Seq(SyncAction)
        /\ taken' \in 0 .. Len(actions') /\ Len(actions') - taken' <= ActionCap
    BY <1>8, <2>1, EmitType DEF CopyNew
  <2> QED  BY <1>8, <2>2 DEF CopyNew, TypeOK
<1>9. CASE DropCached
  <2>1. DeleteOf(cacheKey) \in SyncAction
    BY <1>9 DEF DropCached, DeleteOf, SyncAction, TypeOK, KeyOrNone
  <2>2. /\ actions' \in Seq(SyncAction)
        /\ taken' \in 0 .. Len(actions') /\ Len(actions') - taken' <= ActionCap
    <3>1. CASE deletePropagation
      BY <1>9, <2>1, <3>1, EmitType DEF DropCached
    <3>2. CASE ~deletePropagation
      BY <1>9, <3>2 DEF DropCached, TypeOK
    <3> QED  BY <3>1, <3>2
  <2>3. cacheKey' \in KeyOrNone
    BY <1>9, NextCachedType DEF DropCached, TypeOK
  <2> QED  BY <1>9, <2>2, <2>3 DEF DropCached, TypeOK
<1>10. CASE CompareCached
  <2>1. CopyOf(listKey, listMeta) \in SyncAction
    BY <1>10 DEF CompareCached, CopyOf, SyncAction, TypeOK, KeyOrNone
  <2>2. /\ actions' \in Seq(SyncAction)
        /\ taken' \in 0 .. Len(actions') /\ Len(actions') - taken' <= ActionCap
    <3>1. CASE cache[cacheKey] # listMeta
      BY <1>10, <2>1, <3>1, EmitType DEF CompareCached
    <3>2. CASE cache[cacheKey] = listMeta
      BY <1>10, <3>2 DEF CompareCached, TypeOK
    <3> QED  BY <3>1, <3>2
  <2>3. cacheKey' \in KeyOrNone
    BY <1>10, NextCachedType DEF CompareCached, TypeOK
  <2> QED  BY <1>10, <2>2, <2>3 DEF CompareCached, TypeOK
<1>11. CASE TakeAction
  <2>1. taken' \in 0 .. Len(actions) /\ Len(actions) - taken' <= ActionCap
    <3>1. Len(actions) \in Nat
      BY DEF TypeOK
    <3> QED  BY <1>11, <3>1, CapsAssumption DEF TakeAction, TypeOK
  <2> QED  BY <1>11, <2>1 DEF TakeAction, TypeOK
<1>12. CASE Cancel
  BY <1>12 DEF Cancel, TypeOK
<1>13. CASE ChangeSource
  <2>1. PICK k \in Keys, v \in Values :
          /\ source' = [source EXCEPT ![k] = v]
          /\ history' = [history EXCEPT ![k] = @ \cup {v}]
    BY <1>13 DEF ChangeSource
  <2>2. source' \in [Keys -> Values] /\ history' \in [Keys -> SUBSET Values]
    BY <2>1 DEF TypeOK
  <2> QED  BY <1>13, <2>2 DEF ChangeSource, TypeOK
<1>14. CASE Finished
  BY <1>14 DEF Finished, TypeOK
<1>15. CASE UNCHANGED vars
  BY <1>15 DEF TypeOK
<1> QED
  BY <1>1, <1>2, <1>3, <1>4, <1>5, <1>6, <1>7, <1>8, <1>9, <1>10, <1>11,
     <1>12, <1>13, <1>14, <1>15 DEF Next, Fetcher, Merger

(* StreamingDiff keeps its types, and its two channels their capacities,   *)
(* whatever the listing, the clients and a cancellation do.                *)

THEOREM TypeCorrect == Spec => []TypeOK
<1> QED  BY TypeInit, TypeNext, PTL DEF Spec

-----------------------------------------------------------------------------
(* The number of LIST calls: each one that does not end the listing finds  *)
(* a key beyond all keys seen before.                                      *)

UpTo(m) == {k \in Keys : k <= m}

CallsInv ==
    /\ listCalls <= Cardinality(Keys) + 1
    /\ fpc = "list" \/ (fpc = "send" /\ ~out.last)
         => listCalls <= Cardinality(UpTo(seenMaxKey))

(* The keys up to a key are finitely many, and more than those up to any   *)
(* smaller one.                                                            *)

LEMMA UpToGrows ==
    /\ Cardinality(Keys) \in Nat
    /\ \A m \in KeyOrNone : Cardinality(UpTo(m)) \in 0 .. Cardinality(Keys)
    /\ \A m \in KeyOrNone, n \in Keys :
          m < n => Cardinality(UpTo(m)) + 1 <= Cardinality(UpTo(n))
<1>1. IsFiniteSet(Keys) /\ Cardinality(Keys) \in Nat
  BY KeysAssumption, FS_CardinalityType
<1>2. ASSUME NEW m \in KeyOrNone
      PROVE  IsFiniteSet(UpTo(m)) /\ Cardinality(UpTo(m)) \in 0 .. Cardinality(Keys)
  <2>1. UpTo(m) \in SUBSET Keys
    BY DEF UpTo
  <2>2. IsFiniteSet(UpTo(m)) /\ Cardinality(UpTo(m)) <= Cardinality(Keys)
    BY <1>1, <2>1, FS_Subset
  <2> QED  BY <1>1, <2>2, FS_CardinalityType
<1>3. ASSUME NEW m \in KeyOrNone, NEW n \in Keys, m < n
      PROVE  Cardinality(UpTo(m)) + 1 <= Cardinality(UpTo(n))
  <2>1. n \in KeyOrNone
    BY DEF KeyOrNone
  <2>2. n \notin UpTo(m)
    BY <1>3, KeysAssumption DEF UpTo, KeyOrNone
  <2>3. UpTo(m) \cup {n} \in SUBSET UpTo(n)
    <3>1. m \in Nat /\ n \in Nat
      BY KeysAssumption DEF KeyOrNone
    <3>2. \A k \in UpTo(m) : k \in Nat /\ k <= m
      BY KeysAssumption DEF UpTo
    <3>3. \A k \in UpTo(m) : k \in UpTo(n)
      BY <1>3, <3>1, <3>2 DEF UpTo
    <3>4. n \in UpTo(n)
      BY <3>1 DEF UpTo
    <3> QED  BY <3>3, <3>4
  <2>4. Cardinality(UpTo(m) \cup {n}) = Cardinality(UpTo(m)) + 1
    BY <1>2, <2>2, FS_AddElement
  <2>5. Cardinality(UpTo(m) \cup {n}) <= Cardinality(UpTo(n))
    BY <1>2, <2>1, <2>3, FS_Subset
  <2> QED  BY <2>4, <2>5
<1> QED  BY <1>1, <1>2, <1>3

(* Every step preserves the relation between calls and keys listed.        *)

LEMMA CallsNext == TypeOK /\ CallsInv /\ [Next]_vars => CallsInv'
<1> SUFFICES ASSUME TypeOK, CallsInv, [Next]_vars PROVE CallsInv'
  OBVIOUS
<1> USE DEF environment, fetcher, merger, vars
<1>1. /\ listCalls \in Nat /\ Cardinality(Keys) \in Nat
      /\ Cardinality(UpTo(seenMaxKey)) \in 0 .. Cardinality(Keys)
  BY UpToGrows DEF TypeOK
<1>2. CASE ListFails
  <2>1. fpc = "list" /\ fpc' = "done" /\ listCalls' = listCalls + 1
    BY <1>2 DEF ListFails
  <2> QED  BY <1>1, <2>1 DEF CallsInv
<1>3. CASE ListSucceeds
  <2>1. fpc = "list" /\ listCalls' = listCalls + 1
    BY <1>3 DEF ListSucceeds
  <2>2. PICK from \in Positions : \E S \in PagesAfter(from) : Answer(from, S)
    BY <1>3 DEF ListSucceeds, Answer
  <2>3. PICK S \in PagesAfter(from) : Answer(from, S)
    BY <2>2
  <2>4. listCalls' <= Cardinality(Keys) + 1
    BY <1>1, <2>1 DEF CallsInv
  <2>5. CASE S = {}
    <3>1. fpc' = "done"
      BY <2>3, <2>5 DEF Answer
    <3> QED  BY <2>4, <3>1 DEF CallsInv
  <2>6. CASE S # {}
    <3>1. from \in KeyOrNone
      BY DEF Positions, TypeOK
    <3>2. /\ S \subseteq Keys /\ Min(S) \in S /\ Max(S) \in S
          /\ Min(S) <= Max(S)
      BY <2>6, <3>1, PageType
    <3>3. /\ fpc' = "send"
          /\ ~out'.last => seenMaxKey = 0 \/ ~(Min(S) <= seenMaxKey)
          /\ seenMaxKey' = IF Max(S) > seenMaxKey THEN Max(S) ELSE seenMaxKey
      BY <2>3, <2>6 DEF Answer, LastPage
    <3>4. ~out'.last => seenMaxKey < Max(S) /\ seenMaxKey' = Max(S)
      <4>1. seenMaxKey \in KeyOrNone
        BY DEF TypeOK
      <4>2. Min(S) \in Nat /\ Max(S) \in Nat \ {0} /\ seenMaxKey \in Nat
        BY <3>2, <4>1, KeyNumbers
      <4> QED  BY <3>2, <3>3, <4>2
    <3>5. ~out'.last => Cardinality(UpTo(seenMaxKey)) + 1 <= Cardinality(UpTo(Max(S)))
      BY <3>2, <3>4, UpToGrows DEF TypeOK
    <3>6. Cardinality(UpTo(Max(S))) \in Nat
      BY <3>2, UpToGrows DEF KeyOrNone
    <3>7. ~out'.last => listCalls' <= Cardinality(UpTo(seenMaxKey'))
      BY <1>1, <2>1, <3>4, <3>5, <3>6 DEF CallsInv
    <3> QED  BY <2>4, <3>3, <3>7 DEF CallsInv, UpTo
  <2> QED  BY <2>5, <2>6
<1>4. CASE SendPage
  BY <1>4 DEF SendPage, CallsInv, UpTo
<1>5. CASE AbandonPage
  BY <1>5 DEF AbandonPage, CallsInv
<1>6. CASE UNCHANGED fetcher
  BY <1>6 DEF CallsInv, UpTo
<1>7. Next => Fetcher \/ UNCHANGED fetcher
  BY DEF Next, Merger, CheckInitialError, NextListObj, AlreadyDone,
     TakeFromPage, ReceivePage, ReceiveClosed, ReceiveError, ReceiveCancel,
     CheckContext, CopyNew, DropCached, CompareCached, TakeAction, Cancel,
     ChangeSource, Finished
<1> QED  BY <1>2, <1>3, <1>4, <1>5, <1>6, <1>7 DEF Fetcher

(* Whatever tokens and pages S3 answers with, a run makes at most one LIST *)
(* call more than there are keys.                                          *)

THEOREM CallsAreBounded == Spec => []ListCallsBounded
<1>1. Init => CallsInv
  <2>1. 0 \in KeyOrNone
    BY DEF KeyOrNone
  <2> QED  BY <2>1, UpToGrows DEF Init, CallsInv
<1>2. CallsInv => ListCallsBounded
  BY DEF CallsInv, ListCallsBounded
<1> QED  BY <1>1, <1>2, TypeInit, TypeNext, CallsNext, PTL DEF Spec

-----------------------------------------------------------------------------
(* Deletions.  What follows assumes that the listing is sound: no LIST     *)
(* fails but for a cancelled context, no truncated page is short and none  *)
(* repeats a key (MCDiffListError.cfg shows what a failing LIST does).     *)

SoundListing == Faults \subseteq {"cancel", "sourceChange"}

(* A listed key on its way to the merge, and the keys the listing has      *)
(* passed: all of them once its last page is known.                        *)

Queued(k)  == \E i \in DOMAIN pages : k \in DOMAIN pages[i].objs
Pending(k) == \/ k \in DOMAIN page
              \/ Queued(k)
              \/ fpc = "send" /\ k \in DOMAIN out.objs

WholeListed == \/ pageLast
               \/ \E i \in DOMAIN pages : pages[i].last
               \/ fpc = "send" /\ out.last
               \/ fpc = "done" /\ ~ctxDone

Passed(k) == \/ WholeListed
             \/ fpc # "done" /\ k <= seenMaxKey
             \/ \E p \in Keys : Pending(p) /\ k <= p

(* The merge has not yet run out of listed objects.                        *)

Merging == \/ dpc \in {"init", "next"}
           \/ dpc \in {"check", "merge"} /\ listKey # 0

FetchInv ==
    /\ errCh = "full" => ctxDone
    /\ fpc = "list" => token = seenMaxKey /\ prevToken = seenMaxKey
    /\ fpc = "send" /\ ~out.last => prevToken = seenMaxKey

LastInv ==
    /\ \A i \in DOMAIN pages : pages[i].last => fpc = "done" /\ i = Len(pages)
    /\ pageLast => fpc = "done" /\ pages = <<>>
    /\ listDone /\ Merging => pageLast /\ DOMAIN page = {}

(* Listed keys arrive in order: those of page, of pages, then of out.      *)

OrderInv ==
    /\ listKey <= seenMaxKey
    /\ \A k \in Keys : Pending(k) => listKey < k /\ k <= seenMaxKey
    /\ \A j \in DOMAIN page, k \in Keys : Queued(k) => j < k
    /\ \A i, l \in DOMAIN pages : i < l =>
          \A j \in DOMAIN pages[i].objs, k \in DOMAIN pages[l].objs : j < k
    /\ fpc = "send" => \A j \in Keys, k \in DOMAIN out.objs :
                          j \in DOMAIN page \/ Queued(j) => j < k

(* A key the listing has passed was absent when its place came, unless it  *)
(* is on its way or the merge has passed it too.                           *)

GapInv ==
    /\ \A k \in Keys : source[k] \in history[k]
    /\ Merging => \A k \in Keys :
          Passed(k) => Absent \in history[k] \/ Pending(k) \/ k <= listKey

(* The two cursors of the merge: no listed key lies between them, and none *)
(* at or after the cache cursor once the listing is exhausted.             *)

CursorInv ==
    /\ dpc = "init" => cacheKey = 0 /\ listKey = 0
    /\ dpc = "next" /\ cacheKey # 0 => listKey < cacheKey
    /\ dpc \in {"check", "merge"} /\ listKey # 0 /\ cacheKey # 0 =>
          \A k \in Keys : cacheKey <= k /\ k < listKey => Absent \in history[k]
    /\ dpc = "merge" \/ (dpc = "check" /\ ~ctxDone) =>
          (listKey = 0 /\ cacheKey # 0 =>
             \A k \in Keys : cacheKey <= k => Absent \in history[k])

(* The actions so far are for keys both cursors have passed.               *)

EmittedInv ==
    \A i \in DOMAIN actions :
        /\ dpc # "init"
        /\ dpc # "done" /\ cacheKey # 0 => actions[i].key < cacheKey
        /\ dpc = "next" => actions[i].key <= listKey
        /\ dpc \in {"check", "merge"} /\ listKey # 0 => actions[i].key < listKey

MergeInv == /\ FetchInv /\ LastInv /\ OrderInv /\ GapInv /\ CursorInv
            /\ EmittedInv /\ DeleteOnlyIfAbsent /\ OneActionPerKey

(* Merge steps that leave the fetcher and the received page alone keep     *)
(* everything that is said of the listing.                                 *)

LEMMA ListingFrame ==
    ASSUME TypeOK, MergeInv,
           UNCHANGED <<source, history, ctxDone, fetcher, pages, page, pageLast>>,
           errCh' = errCh \/ errCh' = "received",
           \/ listKey' = listKey /\ listDone' = listDone /\ (Merging' => Merging)
           \/ listKey' = 0 /\ ~ Merging'
    PROVE  FetchInv' /\ LastInv' /\ OrderInv' /\ GapInv'
<1> USE DEF fetcher
<1>1. \A k : (Queued(k)' <=> Queued(k)) /\ (Pending(k)' <=> Pending(k))
  BY DEF Queued, Pending
<1>2. \A k : Passed(k)' <=> Passed(k)
  BY <1>1 DEF Passed, WholeListed
<1>3. FetchInv'
  BY DEF MergeInv, FetchInv
<1>4. LastInv'
  BY DEF MergeInv, LastInv
<1>5. OrderInv'
  <2>1. listKey' <= listKey /\ listKey \in Nat /\ listKey' \in Nat
        /\ seenMaxKey \in Nat
    BY KeyNumbers DEF TypeOK
  <2>2. listKey' <= seenMaxKey'
    BY <2>1 DEF MergeInv, OrderInv
  <2>3. \A k \in Keys : Pending(k)' => listKey' < k /\ k <= seenMaxKey'
    BY <1>1, <2>1, KeyNumbers DEF MergeInv, OrderInv
  <2> QED  BY <1>1, <2>2, <2>3 DEF MergeInv, OrderInv
<1>6. GapInv'
  BY <1>1, <1>2 DEF MergeInv, GapInv
<1> QED  BY <1>3, <1>4, <1>5, <1>6

(* Steps that leave the merge alone keep what is said of its cursors and   *)
(* its actions; objects may only come to be known as absent.               *)

LEMMA MergeFrame ==
    ASSUME TypeOK, MergeInv,
           UNCHANGED <<merger, actions>>,
           ctxDone => ctxDone',
           \A k \in Keys : history[k] \subseteq history'[k]
    PROVE  CursorInv' /\ EmittedInv' /\ DeleteOnlyIfAbsent' /\ OneActionPerKey'
<1> USE DEF merger
<1>1. CursorInv'
  BY DEF MergeInv, CursorInv
<1>2. EmittedInv'
  BY DEF MergeInv, EmittedInv
<1>3. DeleteOnlyIfAbsent'
  <2>1. \A i \in DOMAIN actions : actions[i].key \in Keys
    BY DEF TypeOK, SyncAction
  <2> QED  BY <2>1 DEF MergeInv, DeleteOnlyIfAbsent
<1>4. OneActionPerKey'
  BY DEF MergeInv, OneActionPerKey
<1> QED  BY <1>1, <1>2, <1>3, <1>4

(* An action for a key beyond all earlier ones.                            *)

LEMMA EmitNext ==
    ASSUME TypeOK, MergeInv, UNCHANGED history,
           NEW a \in SyncAction, Emit(a),
           \A i \in DOMAIN actions : actions[i].key < a.key,
           a.type = "delete" => Absent \in history[a.key]
    PROVE  /\ \A i \in DOMAIN actions' :
                 actions'[i] = a \/ \E j \in DOMAIN actions : actions'[i] = actions[j]
           /\ DeleteOnlyIfAbsent' /\ OneActionPerKey'
<1>1. /\ actions \in Seq(SyncAction) /\ Len(actions) \in Nat
      /\ DOMAIN actions = 1 .. Len(actions)
  BY DEF TypeOK
<1>2. /\ actions' = Append(actions, a)
      /\ DOMAIN actions' = 1 .. Len(actions) + 1
      /\ actions'[Len(actions) + 1] = a
      /\ \A i \in 1 .. Len(actions) : actions'[i] = actions[i]
  BY <1>1 DEF Emit
<1>3. \A i \in DOMAIN actions' :
         actions'[i] = a \/ (i \in DOMAIN actions /\ actions'[i] = actions[i])
  BY <1>1, <1>2
<1>4. DeleteOnlyIfAbsent'
  BY <1>3 DEF MergeInv, DeleteOnlyIfAbsent
<1>5. OneActionPerKey'
  <2>1. SUFFICES ASSUME NEW i \in DOMAIN actions', NEW j \in DOMAIN actions', i < j
                 PROVE  actions'[i].key < actions'[j].key
    BY DEF OneActionPerKey
  <2>2. i \in DOMAIN actions /\ actions'[i] = actions[i]
    BY <1>1, <1>2, <2>1
  <2>3. CASE j = Len(actions) + 1
    BY <1>2, <2>2, <2>3
  <2>4. CASE j # Len(actions) + 1
    <3>1. j \in DOMAIN actions /\ actions'[j] = actions[j]
      BY <1>1, <1>2, <2>4
    <3> QED  BY <2>1, <2>2, <3>1 DEF MergeInv, OneActionPerKey
  <2> QED  BY <2>3, <2>4
<1> QED  BY <1>3, <1>4, <1>5

(* The fetcher.                                                            *)

LEMMA FetcherListFails ==
    ASSUME TypeOK, MergeInv, SoundListing, ListFails
    PROVE  MergeInv'
<1> USE DEF environment, merger, fetcher
<1>1. /\ fpc = "list" /\ fpc' = "done" /\ ctxDone /\ ctxDone' /\ errCh' = "full"
      /\ UNCHANGED <<environment, token, prevToken, seenMaxKey, out, pages, merger,
                     actions>>
  BY DEF ListFails, SoundListing, TypeOK
<1>2. \A k : (Queued(k)' <=> Queued(k)) /\ (Pending(k)' <=> Pending(k))
  BY <1>1 DEF Queued, Pending
<1>3. ~ WholeListed'
  BY <1>1 DEF MergeInv, LastInv, WholeListed
<1>4. \A k : Passed(k)' => Passed(k)
  BY <1>1, <1>2, <1>3 DEF Passed
<1>5. FetchInv'
  BY <1>1 DEF FetchInv
<1>6. LastInv'
  BY <1>1 DEF MergeInv, LastInv, Merging
<1>7. OrderInv'
  BY <1>1, <1>2 DEF MergeInv, OrderInv
<1>8. GapInv'
  BY <1>1, <1>2, <1>4 DEF MergeInv, GapInv, Merging
<1>9. CursorInv' /\ EmittedInv' /\ DeleteOnlyIfAbsent' /\ OneActionPerKey'
  BY <1>1, MergeFrame
<1> QED  BY <1>5, <1>6, <1>7, <1>8, <1>9 DEF MergeInv

(* A page abandoned in a cancelled run is no longer pending, and nothing   *)
(* more is promised of it.                                                 *)

LEMMA FetcherAbandonsPage ==
    ASSUME TypeOK, MergeInv, AbandonPage
    PROVE  MergeInv'
<1> USE DEF environment, merger, fetcher
<1>1. /\ fpc = "send" /\ fpc' = "done" /\ ctxDone /\ ctxDone'
      /\ UNCHANGED <<environment, token, prevToken, seenMaxKey, out, pages, merger,
                     errCh, actions>>
  BY DEF AbandonPage
<1>2. \A k : /\ Queued(k)' <=> Queued(k)
             /\ Pending(k)' <=> k \in DOMAIN page \/ Queued(k)
             /\ Pending(k) => Pending(k)' \/ k \in DOMAIN out.objs
  BY <1>1 DEF Queued, Pending
<1>3. ~ WholeListed'
  BY <1>1 DEF MergeInv, LastInv, WholeListed
<1>4. FetchInv'
  BY <1>1 DEF FetchInv, MergeInv
<1>5. LastInv'
  BY <1>1 DEF MergeInv, LastInv, Merging
<1>6. \A k : Pending(k)' => Pending(k)
  BY <1>1, <1>2 DEF Pending
<1>7. OrderInv'
  BY <1>1, <1>2, <1>6 DEF MergeInv, OrderInv
<1>8. GapInv'
  <2>1. SUFFICES ASSUME Merging', NEW k \in Keys, Passed(k)'
                 PROVE  Absent \in history[k] \/ Pending(k)' \/ k <= listKey
    BY <1>1 DEF MergeInv, GapInv
  <2>2. PICK p \in Keys : Pending(p)' /\ k <= p
    BY <1>1, <1>3, <2>1 DEF Passed
  <2>3. Absent \in history[k] \/ Pending(k) \/ k <= listKey
    BY <1>1, <1>6, <2>1, <2>2 DEF MergeInv, GapInv, Merging, Passed
  <2>4. k \notin DOMAIN out.objs
    BY <1>1, <1>2, <2>2, KeyNumbers DEF MergeInv, OrderInv
  <2> QED  BY <1>2, <2>3, <2>4
<1>9. CursorInv' /\ EmittedInv' /\ DeleteOnlyIfAbsent' /\ OneActionPerKey'
  BY <1>1, MergeFrame
<1> QED  BY <1>4, <1>5, <1>7, <1>8, <1>9 DEF MergeInv

(* A page that moves from the fetcher's hand to the channel stays pending, *)
(* at the end of the order.                                                *)

LEMMA FetcherSendsPage ==
    ASSUME TypeOK, MergeInv, SendPage
    PROVE  MergeInv'
<1> USE DEF environment, merger, fetcher
<1>1. /\ fpc = "send" /\ fpc' = IF out.last THEN "done" ELSE "list"
      /\ token' = prevToken /\ pages' = Append(pages, out)
      /\ UNCHANGED <<environment, ctxDone, prevToken, seenMaxKey, out, merger, errCh,
                     actions>>
  BY DEF SendPage
<1> DEFINE n == Len(pages) + 1
<1>2. /\ n \in Nat /\ DOMAIN pages = 1 .. Len(pages) /\ DOMAIN pages' = 1 .. n
      /\ Len(pages') = n
      /\ pages'[n] = out /\ n \in DOMAIN pages' /\ n \notin DOMAIN pages
      /\ \A i \in DOMAIN pages : i \in DOMAIN pages' /\ pages'[i] = pages[i]
      /\ \A i \in DOMAIN pages' : i \in DOMAIN pages \/ i = n
  <2>1. pages \in Seq(Page) /\ out \in Page
    BY DEF TypeOK
  <2> QED  BY <1>1, <2>1
<1> HIDE DEF n
<1>3. \A k : Queued(k)' <=> Queued(k) \/ k \in DOMAIN out.objs
  BY <1>2 DEF Queued
<1>4. \A k : Pending(k)' <=> Pending(k)
  BY <1>1, <1>3 DEF Pending
<1>5. WholeListed' => WholeListed
  BY <1>1, <1>2 DEF MergeInv, LastInv, WholeListed
<1>6. \A k : Passed(k)' => Passed(k)
  BY <1>1, <1>4, <1>5 DEF Passed
<1>7. FetchInv'
  BY <1>1 DEF FetchInv, MergeInv
<1>8. LastInv'
  <2>1. \A i \in DOMAIN pages : ~ pages[i].last
    BY <1>1 DEF MergeInv, LastInv
  <2>2. ~ pageLast /\ ~(listDone /\ Merging)
    BY <1>1 DEF MergeInv, LastInv
  <2> QED  BY <1>1, <1>2, <2>1, <2>2 DEF LastInv, Merging
<1>9. OrderInv'
  <2>1. \A j \in DOMAIN page, k \in Keys : Queued(k)' => j < k
    <3>1. \A j \in DOMAIN page : j \in Keys
      BY DEF TypeOK, Objects
    <3> QED  BY <1>1, <1>3, <3>1 DEF MergeInv, OrderInv
  <2>2. ASSUME NEW i \in DOMAIN pages', NEW l \in DOMAIN pages', i < l,
               NEW j \in DOMAIN pages'[i].objs, NEW k \in DOMAIN pages'[l].objs
        PROVE  j < k
    <3>1. i \in DOMAIN pages /\ pages'[i] = pages[i]
      BY <1>2, <2>2
    <3>2. CASE l \in DOMAIN pages
      BY <1>2, <2>2, <3>1, <3>2 DEF MergeInv, OrderInv
    <3>3. CASE l = n
      <4>1. pages[i] \in Page
        BY <3>1 DEF TypeOK
      <4>2. j \in Keys /\ Queued(j)
        BY <2>2, <3>1, <4>1 DEF Page, Objects, Queued
      <4> QED  BY <1>1, <1>2, <2>2, <3>3, <4>2 DEF MergeInv, OrderInv
    <3> QED  BY <1>2, <3>2, <3>3
  <2> QED  BY <1>1, <1>4, <2>1, <2>2 DEF MergeInv, OrderInv
<1>10. GapInv'
  BY <1>1, <1>4, <1>6 DEF MergeInv, GapInv, Merging
<1>11. CursorInv' /\ EmittedInv' /\ DeleteOnlyIfAbsent' /\ OneActionPerKey'
  BY <1>1, MergeFrame
<1> QED  BY <1>7, <1>8, <1>9, <1>10, <1>11 DEF MergeInv

(* A page just listed follows everything listed before, and the keys it    *)
(* skips are absent now.                                                   *)

LEMMA FetcherListSucceeds ==
    ASSUME TypeOK, MergeInv, SoundListing, ListSucceeds
    PROVE  MergeInv'
<1> USE DEF environment, merger, fetcher
<1>1. /\ fpc = "list" /\ token = seenMaxKey /\ prevToken = seenMaxKey
      /\ UNCHANGED <<environment, ctxDone, token, pages, errCh, merger, actions>>
  BY DEF ListSucceeds, MergeInv, FetchInv
<1>2. PICK S \in PagesAfter(token) : Answer(token, S)
  BY DEF ListSucceeds, Answer, Positions, SoundListing
<1>3. token \in KeyOrNone /\ token \in Nat
  BY KeyNumbers DEF TypeOK
<1>4. /\ \E bound \in KeyOrNone : S = {k \in KeysAfter(token) : k <= bound}
      /\ S # KeysAfter(token) => Cardinality(S) = PageSize
      /\ S = {} => KeysAfter(token) = {}
  BY DEF PagesAfter, SoundListing
<1>5. ~ WholeListed
  BY <1>1 DEF MergeInv, LastInv, WholeListed
<1>6. \A k \in Keys : source[k] = Absent => Absent \in history[k]
  BY DEF MergeInv, GapInv
<1>7. \A k \in Keys : k > token /\ k \notin KeysAfter(token) => Absent \in history[k]
  BY <1>6 DEF KeysAfter
<1>8. \A k : Queued(k)' <=> Queued(k)
  BY <1>1 DEF Queued
<1>9. CursorInv' /\ EmittedInv' /\ DeleteOnlyIfAbsent' /\ OneActionPerKey'
  BY <1>1, MergeFrame
<1>10. CASE S = {}
  <2>1. fpc' = "done" /\ UNCHANGED <<prevToken, seenMaxKey, out>>
    BY <1>2, <1>10 DEF Answer
  <2>2. \A k : Pending(k)' <=> Pending(k)
    BY <1>1, <1>8, <2>1 DEF Pending
  <2>3. FetchInv'
    BY <1>1, <2>1 DEF MergeInv, FetchInv
  <2>4. LastInv'
    BY <1>1, <2>1 DEF MergeInv, LastInv, Merging
  <2>5. OrderInv'
    BY <1>1, <1>8, <2>1, <2>2 DEF MergeInv, OrderInv
  <2>6. GapInv'
    <3>1. ASSUME Merging, NEW k \in Keys
          PROVE  Absent \in history[k] \/ Pending(k) \/ k <= listKey
      <4>1. k <= token => Passed(k)
        BY <1>1 DEF Passed
      <4>2. k > token => Absent \in history[k]
        BY <1>4, <1>7, <1>10
      <4> QED  BY <1>3, <3>1, <4>1, <4>2, KeyNumbers DEF MergeInv, GapInv
    <3> QED  BY <1>1, <2>2, <3>1 DEF MergeInv, GapInv, Merging
  <2> QED  BY <1>9, <2>3, <2>4, <2>5, <2>6 DEF MergeInv
<1>11. CASE S # {}
  <2>1. /\ S \subseteq KeysAfter(token) /\ S \subseteq Keys
        /\ Min(S) \in S /\ \A j \in S : Min(S) <= j
        /\ Max(S) \in S /\ \A j \in S : j <= Max(S)
    BY <1>3, <1>11, PageType
  <2>2. \A k \in S : k \in Nat /\ token < k
    BY <1>3, <2>1, KeyNumbers DEF KeysAfter
  <2>3. /\ fpc' = "send" /\ DOMAIN out'.objs = S
        /\ out'.last => S = KeysAfter(token)
        /\ ~out'.last => S # KeysAfter(token)
        /\ seenMaxKey' = Max(S) /\ token < Max(S)
        /\ prevToken' = IF S # KeysAfter(token) THEN Max(S) ELSE 0
    <3>1. /\ fpc' = "send"
          /\ out' = [objs |-> [k \in S |-> source[k]],
                     last |-> LastPage(S, S # KeysAfter(token),
                                IF S # KeysAfter(token) THEN Max(S) ELSE 0)]
          /\ seenMaxKey' = IF Max(S) > seenMaxKey THEN Max(S) ELSE seenMaxKey
          /\ prevToken' = IF S # KeysAfter(token) THEN Max(S) ELSE 0
      BY <1>2, <1>11 DEF Answer
    <3>2. Max(S) > token /\ Min(S) > token /\ Max(S) \in Nat /\ Min(S) \in Nat
      BY <1>3, <2>1, <2>2
    <3>3. seenMaxKey' = Max(S)
      BY <1>1, <3>1, <3>2
    <3>4. LastPage(S, S # KeysAfter(token),
             IF S # KeysAfter(token) THEN Max(S) ELSE 0) <=> S = KeysAfter(token)
      <4>1. CASE S = KeysAfter(token)
        BY <4>1 DEF LastPage
      <4>2. CASE S # KeysAfter(token)
        <5>1. ~ (Cardinality(S) < PageSize)
          BY <1>4, <4>2, CapsAssumption
        <5>2. Max(S) # prevToken /\ ~ (Min(S) <= seenMaxKey)
          BY <1>1, <1>3, <3>2
        <5> QED  BY <4>2, <5>1, <5>2 DEF LastPage
      <4> QED  BY <4>1, <4>2
    <3>5. DOMAIN out'.objs = S
      BY <3>1
    <3>6. out'.last <=> S = KeysAfter(token)
      BY <3>1, <3>4
    <3> QED  BY <3>1, <3>2, <3>3, <3>5, <3>6
  <2>4. \A k : Pending(k)' <=> Pending(k) \/ k \in S
    BY <1>1, <1>8, <2>3 DEF Pending
  <2>5. \A k \in KeysAfter(token) : k <= Max(S) => k \in S
    <3>1. PICK bound \in KeyOrNone : S = {k \in KeysAfter(token) : k <= bound}
      BY <1>4
    <3>2. Max(S) <= bound /\ Max(S) \in Nat /\ bound \in Nat
      BY <2>1, <2>2, <3>1, KeyNumbers
    <3>3. \A k \in KeysAfter(token) : k \in Nat
      BY KeyNumbers DEF KeysAfter
    <3> QED  BY <3>1, <3>2, <3>3
  <2>6. FetchInv'
    BY <1>1, <2>3 DEF MergeInv, FetchInv
  <2>7. LastInv'
    BY <1>1, <2>3 DEF MergeInv, LastInv, Merging
  <2>8. \A k \in Keys : Pending(k) => listKey < k /\ k <= token
    BY <1>1 DEF MergeInv, OrderInv
  <2>9. listKey \in Nat /\ listKey <= token /\ token <= Max(S) /\ Max(S) \in Nat
    BY <1>1, <1>3, <2>1, <2>2, <2>3, KeyNumbers DEF TypeOK, MergeInv, OrderInv
  <2>10. OrderInv'
    <3>1. \A k \in Keys : Pending(k)' => listKey < k /\ k <= Max(S)
      BY <1>3, <2>1, <2>2, <2>4, <2>8, <2>9, KeyNumbers
    <3>2. \A j \in Keys, k \in S : j \in DOMAIN page \/ Queued(j) => j < k
      <4>1. \A j \in Keys : j \in DOMAIN page \/ Queued(j) => j <= token
        BY <2>8 DEF Pending
      <4> QED  BY <1>3, <2>2, <4>1, KeyNumbers
    <3>3. page' = page /\ pages' = pages /\ listKey' = listKey
      BY <1>1
    <3>4. \A j \in DOMAIN page, k \in Keys : Queued(k)' => j < k
      BY <1>8 DEF MergeInv, OrderInv
    <3>5. \A i, l \in DOMAIN pages : i < l =>
             \A j \in DOMAIN pages[i].objs, k \in DOMAIN pages[l].objs : j < k
      BY DEF MergeInv, OrderInv
    <3>6. listKey' <= seenMaxKey'
      BY <1>3, <2>3, <2>9, <3>3
    <3>7. \A k \in Keys : Pending(k)' => listKey' < k /\ k <= seenMaxKey'
      BY <2>3, <3>1, <3>3
    <3>8. \A j \in Keys, k \in DOMAIN out'.objs :
             j \in DOMAIN page' \/ Queued(j)' => j < k
      BY <1>8, <2>3, <3>2, <3>3
    <3> QED  BY <3>3, <3>4, <3>5, <3>6, <3>7, <3>8 DEF OrderInv
  <2>11. GapInv'
    <3>1. SUFFICES ASSUME Merging, NEW k \in Keys, Passed(k)'
                   PROVE  Absent \in history[k] \/ Pending(k)' \/ k <= listKey
      BY <1>1 DEF MergeInv, GapInv, Merging
    <3>2. k <= token => Absent \in history[k] \/ Pending(k) \/ k <= listKey
      <4>1. k <= token => Passed(k)
        BY <1>1 DEF Passed
      <4> QED  BY <3>1, <4>1 DEF MergeInv, GapInv
    <3>3. k \in KeysAfter(token) => k <= Max(S) \/ k \in S
      <4>1. WholeListed' => S = KeysAfter(token)
        BY <1>1, <1>5, <2>3 DEF WholeListed
      <4>2. \A p \in Keys : Pending(p)' => p <= Max(S)
        BY <1>3, <2>1, <2>4, <2>8, <2>9, KeyNumbers
      <4> QED  BY <2>3, <2>9, <3>1, <4>1, <4>2, KeyNumbers DEF Passed
    <3>4. k > token => Absent \in history[k] \/ k \in S
      BY <1>7, <2>5, <3>3
    <3> QED  BY <1>3, <2>4, <3>2, <3>4, KeyNumbers
  <2> QED  BY <1>9, <2>6, <2>7, <2>10, <2>11 DEF MergeInv
<1> QED  BY <1>10, <1>11

(* The merge.                                                              *)

LEMMA MergerChecksInitialError ==
    ASSUME TypeOK, MergeInv, CheckInitialError
    PROVE  MergeInv'
<1> USE DEF environment, fetcher
<1>1. /\ dpc = "init" /\ listKey' = listKey /\ listDone' = listDone
      /\ UNCHANGED <<source, history, ctxDone, fetcher, pages, page, pageLast, actions>>
      /\ errCh' = errCh \/ errCh' = "received"
      /\ \/ dpc' = "done" /\ UNCHANGED cacheKey
         \/ dpc' = "next" /\ cacheKey' = NextCached(0)
  BY DEF CheckInitialError
<1>2. Merging' => Merging
  BY <1>1 DEF Merging
<1>3. FetchInv' /\ LastInv' /\ OrderInv' /\ GapInv'
  BY <1>1, <1>2, ListingFrame
<1>4. listKey = 0 /\ cacheKey = 0 /\ (NextCached(0) # 0 => NextCached(0) > 0)
  BY <1>1, NextCachedType, KeyNumbers DEF MergeInv, CursorInv, KeyOrNone
<1>5. CursorInv'
  BY <1>1, <1>4 DEF CursorInv
<1>6. DOMAIN actions = {}
  BY <1>1 DEF MergeInv, EmittedInv
<1>7. EmittedInv' /\ DeleteOnlyIfAbsent' /\ OneActionPerKey'
  BY <1>1, <1>6 DEF EmittedInv, DeleteOnlyIfAbsent, OneActionPerKey
<1> QED  BY <1>3, <1>5, <1>7 DEF MergeInv

(* nextListObj returns without an object: cancelled, or at the end of the  *)
(* listing, when every later key was absent.                               *)

LEMMA MergerFindsNoObject ==
    ASSUME TypeOK, MergeInv, SoundListing,
           AlreadyDone \/ ReceiveClosed \/ ReceiveError \/ ReceiveCancel
    PROVE  MergeInv'
<1> USE DEF environment, fetcher
<1>1. /\ dpc = "next" /\ dpc' = "check" /\ listKey' = 0
      /\ UNCHANGED <<source, history, ctxDone, fetcher, pages, page, pageLast, actions,
                     cacheKey>>
      /\ errCh' = errCh \/ errCh' = "received"
  BY DEF AlreadyDone, ReceiveClosed, ReceiveError, ReceiveCancel, NoListObject
<1>2. ~ Merging'
  BY <1>1 DEF Merging
<1>3. FetchInv' /\ LastInv' /\ OrderInv' /\ GapInv'
  BY <1>1, <1>2, ListingFrame
<1>4. ctxDone \/ (WholeListed /\ \A k : ~ Pending(k))
  <2>1. CASE AlreadyDone
    <3>1. pageLast /\ DOMAIN page = {} /\ fpc = "done" /\ pages = <<>>
      BY <2>1 DEF AlreadyDone, MergeInv, LastInv, Merging
    <3> QED  BY <3>1 DEF WholeListed, Pending, Queued
  <2>2. CASE ReceiveClosed
    BY <2>2 DEF ReceiveClosed, WholeListed, Pending, Queued
  <2>3. CASE ReceiveError
    BY <2>3 DEF ReceiveError, MergeInv, FetchInv
  <2>4. CASE ReceiveCancel
    BY <2>4 DEF ReceiveCancel
  <2> QED  BY <2>1, <2>2, <2>3, <2>4
<1>5. CursorInv'
  <2>1. ASSUME ~ ctxDone, cacheKey # 0, NEW k \in Keys, cacheKey <= k
        PROVE  Absent \in history[k]
    <3>1. listKey < cacheKey
      BY <1>1, <2>1 DEF MergeInv, CursorInv
    <3>2. Absent \in history[k] \/ k <= listKey
      BY <1>1, <1>4, <2>1 DEF MergeInv, GapInv, Merging, Passed
    <3>3. k \in Nat /\ cacheKey \in Nat /\ listKey \in Nat
      BY KeyNumbers DEF TypeOK
    <3> QED  BY <2>1, <3>1, <3>2, <3>3
  <2> QED  BY <1>1, <2>1 DEF CursorInv
<1>6. EmittedInv'
  BY <1>1 DEF MergeInv, EmittedInv
<1>7. DeleteOnlyIfAbsent' /\ OneActionPerKey'
  BY <1>1 DEF MergeInv, DeleteOnlyIfAbsent, OneActionPerKey
<1> QED  BY <1>3, <1>5, <1>6, <1>7 DEF MergeInv

(* The smallest object of the open page becomes the one in hand; the       *)
(* listing is over if it was the last of the last page.                    *)

LEMMA MergerTakesFromPage ==
    ASSUME TypeOK, MergeInv, TakeFromPage
    PROVE  MergeInv'
<1> USE DEF environment, fetcher
<1> DEFINE k == Min(DOMAIN page)
<1>1. /\ dpc = "next" /\ dpc' = "check" /\ ~ listDone /\ DOMAIN page # {}
      /\ listKey' = k
      /\ DOMAIN page' = DOMAIN page \ {k}
      /\ listDone' = (DOMAIN page = {k} /\ pageLast)
      /\ UNCHANGED <<source, history, ctxDone, fetcher, pages, errCh, pageLast, actions,
                     cacheKey>>
  BY DEF TakeFromPage
<1>2. DOMAIN page \subseteq Keys
  BY DEF TypeOK, Objects
<1>3. k \in DOMAIN page /\ k \in Keys /\ \A j \in DOMAIN page : k <= j
  BY <1>1, <1>2, KeyBounds
<1>4. \A j \in DOMAIN page : j \in Nat
  BY <1>2, KeyNumbers
<1> HIDE DEF k
<1>5. Pending(k) /\ listKey < k /\ k <= seenMaxKey /\ k \in Nat \ {0}
  BY <1>3, KeyNumbers DEF MergeInv, OrderInv, Pending
<1>6. Merging /\ Merging'
  BY <1>1, <1>5 DEF Merging
<1>7. \A j : Queued(j)' <=> Queued(j)
  BY <1>1 DEF Queued
<1>8. \A j : j # k => (Pending(j)' <=> Pending(j))
  BY <1>1, <1>7 DEF Pending
<1>9. \A j \in Keys : Pending(j)' => k < j
  <2>1. SUFFICES ASSUME NEW j \in Keys, Pending(j)' PROVE k < j
    OBVIOUS
  <2>2. j \in DOMAIN page \ {k} \/ Queued(j) \/ (fpc = "send" /\ j \in DOMAIN out.objs)
    BY <1>1, <1>7, <2>1 DEF Pending
  <2>3. CASE j \in DOMAIN page \ {k}
    BY <1>3, <1>4, <2>3
  <2>4. CASE Queued(j)
    BY <1>3, <2>4 DEF MergeInv, OrderInv
  <2>5. CASE fpc = "send" /\ j \in DOMAIN out.objs
    BY <1>3, <2>5 DEF MergeInv, OrderInv
  <2> QED  BY <2>2, <2>3, <2>4, <2>5
<1>10. listKey \in Nat /\ seenMaxKey \in Nat
  BY KeyNumbers DEF TypeOK
<1>11. \A j \in Keys : Passed(j) => Absent \in history[j] \/ Pending(j) \/ j <= listKey
  BY <1>6 DEF MergeInv, GapInv
<1>12. FetchInv'
  BY <1>1 DEF MergeInv, FetchInv
<1>13. LastInv'
  BY <1>1, <1>3 DEF MergeInv, LastInv
<1>14. OrderInv'
  <2>1. \A j \in Keys : Pending(j)' => listKey' < j /\ j <= seenMaxKey'
    <3>1. \A j \in Keys : Pending(j)' => Pending(j)
      BY <1>5, <1>8
    <3> QED  BY <1>1, <1>9, <3>1 DEF MergeInv, OrderInv
  <2>2. \A j \in DOMAIN page', i \in Keys : Queued(i)' => j < i
    BY <1>1, <1>7 DEF MergeInv, OrderInv
  <2>3. fpc' = "send" => \A j \in Keys, i \in DOMAIN out'.objs :
                            j \in DOMAIN page' \/ Queued(j)' => j < i
    BY <1>1, <1>7 DEF MergeInv, OrderInv
  <2> QED  BY <1>1, <1>5, <2>1, <2>2, <2>3 DEF MergeInv, OrderInv
<1>15. GapInv'
  <2>1. SUFFICES ASSUME NEW j \in Keys, Passed(j)'
                 PROVE  Absent \in history[j] \/ Pending(j)' \/ j <= k
    BY <1>1 DEF MergeInv, GapInv
  <2>2. Passed(j)
    <3>1. \A p \in Keys : Pending(p)' => Pending(p)
      BY <1>5, <1>8
    <3> QED  BY <1>1, <2>1, <3>1 DEF Passed, WholeListed
  <2>3. Absent \in history[j] \/ Pending(j) \/ j <= listKey
    BY <1>11, <2>2
  <2> QED  BY <1>5, <1>8, <1>10, <2>3, KeyNumbers
<1>16. CursorInv'
  <2>1. ASSUME cacheKey # 0, NEW j \in Keys, cacheKey <= j, j < k
        PROVE  Absent \in history[j]
    <3>1. listKey < cacheKey /\ cacheKey \in Nat /\ j \in Nat
      BY <1>1, <2>1, KeyNumbers DEF MergeInv, CursorInv, TypeOK
    <3>2. Passed(j)
      BY <1>3, <1>5, <2>1, <3>1 DEF Passed
    <3>3. ~ Pending(j)
      BY <1>5, <1>8, <1>9, <2>1, <3>1
    <3> QED  BY <1>10, <1>11, <2>1, <3>1, <3>2, <3>3
  <2> QED  BY <1>1, <1>5, <2>1 DEF CursorInv
<1>17. EmittedInv'
  <2>1. \A i \in DOMAIN actions : actions[i].key \in Nat
    BY KeyNumbers DEF TypeOK, SyncAction
  <2> QED  BY <1>1, <1>5, <1>10, <2>1 DEF MergeInv, EmittedInv
<1>18. DeleteOnlyIfAbsent' /\ OneActionPerKey'
  BY <1>1 DEF MergeInv, DeleteOnlyIfAbsent, OneActionPerKey
<1> QED  BY <1>12, <1>13, <1>14, <1>15, <1>16, <1>17, <1>18 DEF MergeInv

(* The first page of the channel becomes the open page.                    *)

LEMMA MergerReceivesPage ==
    ASSUME TypeOK, MergeInv, ReceivePage
    PROVE  MergeInv'
<1> USE DEF environment, fetcher
<1>1. /\ dpc = "next" /\ ~ listDone /\ DOMAIN page = {} /\ pages # <<>>
      /\ UNCHANGED <<source, history, ctxDone, fetcher, errCh, dpc, listDone, listKey,
                     cacheKey, actions>>
  BY DEF ReceivePage
<1>2. /\ pages \in Seq(Page) /\ Len(pages) \in Nat /\ DOMAIN pages = 1 .. Len(pages)
      /\ 1 \in DOMAIN pages /\ Head(pages) = pages[1]
      /\ DOMAIN Tail(pages) = 1 .. Len(pages) - 1 /\ Len(Tail(pages)) = Len(pages) - 1
      /\ \A i \in DOMAIN Tail(pages) : /\ Tail(pages)[i] = pages[i + 1]
                                       /\ i + 1 \in DOMAIN pages
  BY <1>1 DEF TypeOK
<1>3. page' = pages[1].objs /\ pageLast' = pages[1].last /\ pages' = Tail(pages)
  BY <1>2 DEF ReceivePage
<1>4. \A i \in DOMAIN pages : i = 1 \/ (i - 1 \in DOMAIN pages' /\ pages'[i - 1] = pages[i])
  BY <1>2, <1>3
<1>5. \A i \in DOMAIN pages' : i \in Nat \ {0} /\ pages'[i] = pages[i + 1]
                               /\ i + 1 \in DOMAIN pages
  BY <1>2, <1>3
<1>6. \A k : Queued(k) <=> k \in DOMAIN page' \/ Queued(k)'
  BY <1>2, <1>3, <1>4, <1>5 DEF Queued
<1>7. \A k : Pending(k)' <=> Pending(k)
  BY <1>1, <1>6 DEF Pending
<1>8. WholeListed' => WholeListed
  BY <1>1, <1>2, <1>3, <1>5 DEF WholeListed
<1>9. \A k : Passed(k)' => Passed(k)
  BY <1>1, <1>7, <1>8 DEF Passed
<1>10. FetchInv'
  BY <1>1 DEF MergeInv, FetchInv
<1>11. LastInv'
  <2>1. \A i \in DOMAIN pages' : pages'[i].last => fpc = "done" /\ i = Len(pages')
    BY <1>2, <1>3, <1>5 DEF MergeInv, LastInv
  <2>2. pageLast' => fpc = "done" /\ pages' = <<>>
    <3>1. pages[1].last => fpc = "done" /\ Len(pages) = 1
      BY <1>2 DEF MergeInv, LastInv
    <3>2. Len(pages) = 1 => Tail(pages) = <<>>
      BY <1>2
    <3> QED  BY <1>3, <3>1, <3>2
  <2> QED  BY <1>1, <2>1, <2>2 DEF LastInv
<1>12. OrderInv'
  <2>1. \A j \in DOMAIN page', k \in Keys : Queued(k)' => j < k
    <3>1. SUFFICES ASSUME NEW j \in DOMAIN pages[1].objs, NEW i \in DOMAIN pages',
                          NEW k \in DOMAIN pages'[i].objs
                   PROVE  j < k
      BY <1>3 DEF Queued
    <3>2. k \in DOMAIN pages[i + 1].objs /\ 1 < i + 1 /\ i + 1 \in DOMAIN pages
      BY <1>5, <3>1
    <3> QED  BY <1>2, <3>2 DEF MergeInv, OrderInv
  <2>2. \A i, l \in DOMAIN pages' : i < l =>
           \A j \in DOMAIN pages'[i].objs, k \in DOMAIN pages'[l].objs : j < k
    <3>1. SUFFICES ASSUME NEW i \in DOMAIN pages', NEW l \in DOMAIN pages', i < l,
                          NEW j \in DOMAIN pages'[i].objs,
                          NEW k \in DOMAIN pages'[l].objs
                   PROVE  j < k
      OBVIOUS
    <3>2. i + 1 \in DOMAIN pages /\ l + 1 \in DOMAIN pages /\ i + 1 < l + 1
          /\ j \in DOMAIN pages[i + 1].objs /\ k \in DOMAIN pages[l + 1].objs
      BY <1>5, <3>1
    <3> QED  BY <3>2 DEF MergeInv, OrderInv
  <2>3. fpc' = "send" => \A j \in Keys, k \in DOMAIN out'.objs :
                            j \in DOMAIN page' \/ Queued(j)' => j < k
    BY <1>1, <1>6 DEF MergeInv, OrderInv
  <2>4. listKey' <= seenMaxKey'
        /\ \A k \in Keys : Pending(k)' => listKey' < k /\ k <= seenMaxKey'
    BY <1>1, <1>7 DEF MergeInv, OrderInv
  <2> QED  BY <2>1, <2>2, <2>3, <2>4 DEF OrderInv
<1>13. GapInv'
  BY <1>1, <1>7, <1>9 DEF MergeInv, GapInv, Merging
<1>14. CursorInv' /\ EmittedInv'
  BY <1>1 DEF MergeInv, CursorInv, EmittedInv
<1>15. DeleteOnlyIfAbsent' /\ OneActionPerKey'
  BY <1>1 DEF MergeInv, DeleteOnlyIfAbsent, OneActionPerKey
<1> QED  BY <1>10, <1>11, <1>12, <1>13, <1>14, <1>15 DEF MergeInv

(* The check of the context ends the merge or lets it go on without a      *)
(* cancellation.                                                           *)

LEMMA MergerChecksContext ==
    ASSUME TypeOK, MergeInv, CheckContext
    PROVE  MergeInv'
<1> USE DEF environment, fetcher
<1>1. /\ dpc = "check" /\ listKey' = listKey /\ listDone' = listDone /\ errCh' = errCh
      /\ UNCHANGED <<source, history, ctxDone, fetcher, pages, page, pageLast, actions,
                     cacheKey>>
      /\ dpc' = "done" \/ (dpc' = "merge" /\ ~ ctxDone)
  BY DEF CheckContext
<1>2. Merging' => Merging
  BY <1>1 DEF Merging
<1>3. FetchInv' /\ LastInv' /\ OrderInv' /\ GapInv'
  BY <1>1, <1>2, ListingFrame
<1>4. CursorInv'
  BY <1>1 DEF MergeInv, CursorInv
<1>5. EmittedInv'
  BY <1>1 DEF MergeInv, EmittedInv
<1>6. DeleteOnlyIfAbsent' /\ OneActionPerKey'
  BY <1>1 DEF MergeInv, DeleteOnlyIfAbsent, OneActionPerKey
<1> QED  BY <1>3, <1>4, <1>5, <1>6 DEF MergeInv

(* The three branches of the merge.  A copy is for the listed key, the     *)
(* smaller of the two cursors or both.                                     *)

LEMMA MergerCopies ==
    ASSUME TypeOK, MergeInv, CopyNew \/ CompareCached
    PROVE  MergeInv'
<1> USE DEF environment, fetcher
<1>1. /\ dpc = "merge" /\ dpc' = "next" /\ listKey # 0
      /\ listKey' = listKey /\ listDone' = listDone /\ errCh' = errCh
      /\ UNCHANGED <<source, history, ctxDone, fetcher, pages, page, pageLast, taken>>
      /\ Emit(CopyOf(listKey, listMeta)) \/ UNCHANGED actions
  BY DEF CopyNew, CompareCached
<1>2. Merging
  BY <1>1 DEF Merging
<1>3. FetchInv' /\ LastInv' /\ OrderInv' /\ GapInv'
  BY <1>1, <1>2, ListingFrame
<1>4. cacheKey' # 0 => listKey < cacheKey' /\ (cacheKey # 0 => cacheKey <= cacheKey')
  <2>1. listKey \in Nat /\ cacheKey \in Nat /\ cacheKey \in KeyOrNone
    BY KeyNumbers DEF TypeOK
  <2>2. CASE CopyNew
    BY <2>1, <2>2 DEF CopyNew
  <2>3. CASE CompareCached
    <3>1. cacheKey = listKey /\ cacheKey' = NextCached(cacheKey)
      BY <2>3 DEF CompareCached
    <3>2. NextCached(cacheKey) \in Nat
          /\ (NextCached(cacheKey) # 0 => NextCached(cacheKey) > cacheKey)
      BY <2>1, NextCachedType, KeyNumbers
    <3> QED  BY <2>1, <3>1, <3>2
  <2> QED  BY <2>2, <2>3
<1>5. CursorInv'
  BY <1>1, <1>4 DEF CursorInv
<1>6. /\ listKey \in Keys /\ listKey \in Nat /\ cacheKey' \in Nat
      /\ \A i \in DOMAIN actions : actions[i].key \in Nat /\ actions[i].key < listKey
  <2>1. listKey \in Keys /\ listKey \in Nat
    BY <1>1, KeyNumbers DEF TypeOK
  <2>2. NextCached(cacheKey) \in Nat /\ cacheKey \in Nat
    BY NextCachedType, KeyNumbers DEF TypeOK
  <2>3. cacheKey' \in Nat
    BY <2>2 DEF CopyNew, CompareCached
  <2>4. \A i \in DOMAIN actions : actions[i].key \in Nat
    BY KeyNumbers DEF TypeOK, SyncAction
  <2> QED  BY <1>1, <2>1, <2>3, <2>4 DEF MergeInv, EmittedInv
<1>7. CASE UNCHANGED actions
  <2>1. EmittedInv'
    BY <1>1, <1>4, <1>6, <1>7 DEF EmittedInv
  <2>2. DeleteOnlyIfAbsent' /\ OneActionPerKey'
    BY <1>1, <1>7 DEF MergeInv, DeleteOnlyIfAbsent, OneActionPerKey
  <2> QED  BY <1>3, <1>5, <2>1, <2>2 DEF MergeInv
<1>8. CASE Emit(CopyOf(listKey, listMeta))
  <2> DEFINE a == CopyOf(listKey, listMeta)
  <2>1. a \in SyncAction /\ a.key = listKey /\ a.type = "copy"
    BY <1>1, <1>6 DEF CopyOf, SyncAction, TypeOK
  <2>2. /\ \A i \in DOMAIN actions' :
              actions'[i] = a \/ \E j \in DOMAIN actions : actions'[i] = actions[j]
        /\ DeleteOnlyIfAbsent' /\ OneActionPerKey'
    BY <1>1, <1>6, <1>8, <2>1, EmitNext
  <2>3. \A i \in DOMAIN actions' : actions'[i].key \in Nat /\ actions'[i].key <= listKey
    BY <1>6, <2>1, <2>2
  <2>4. EmittedInv'
    BY <1>1, <1>4, <1>6, <2>3 DEF EmittedInv
  <2> QED  BY <1>3, <1>5, <2>2, <2>4 DEF MergeInv
<1> QED  BY <1>1, <1>7, <1>8

(* A deletion is for a cached key no listed object was found for.          *)

LEMMA MergerDrops ==
    ASSUME TypeOK, MergeInv, DropCached
    PROVE  MergeInv'
<1> USE DEF environment, fetcher
<1>1. /\ dpc = "merge" /\ dpc' = "check" /\ cacheKey # 0
      /\ listKey = 0 \/ cacheKey < listKey
      /\ listKey' = listKey /\ listDone' = listDone /\ errCh' = errCh
      /\ cacheKey' = NextCached(cacheKey)
      /\ UNCHANGED <<source, history, ctxDone, fetcher, pages, page, pageLast, taken>>
      /\ Emit(DeleteOf(cacheKey)) \/ UNCHANGED actions
  BY DEF DropCached
<1>2. Merging' => Merging
  BY <1>1 DEF Merging
<1>3. FetchInv' /\ LastInv' /\ OrderInv' /\ GapInv'
  BY <1>1, <1>2, ListingFrame
<1>4. /\ cacheKey \in Keys /\ cacheKey \in Nat /\ listKey \in Nat
      /\ cacheKey' \in Nat /\ (cacheKey' # 0 => cacheKey < cacheKey')
  BY <1>1, NextCachedType, KeyNumbers DEF TypeOK
<1>5. Absent \in history[cacheKey]
  BY <1>1, <1>4 DEF MergeInv, CursorInv
<1>6. CursorInv'
  <2>1. \A k \in Keys : k \in Nat
    BY KeyNumbers
  <2>2. \A k \in Keys : cacheKey' # 0 /\ cacheKey' <= k => cacheKey <= k
    BY <1>4, <2>1
  <2> QED  BY <1>1, <2>2 DEF MergeInv, CursorInv
<1>7. /\ \A i \in DOMAIN actions : /\ actions[i].key \in Nat
                                   /\ actions[i].key < cacheKey
                                   /\ listKey # 0 => actions[i].key < listKey
  <2>1. \A i \in DOMAIN actions : actions[i].key \in Nat
    BY KeyNumbers DEF TypeOK, SyncAction
  <2> QED  BY <1>1, <2>1 DEF MergeInv, EmittedInv
<1>8. CASE UNCHANGED actions
  <2>1. EmittedInv'
    BY <1>1, <1>4, <1>7, <1>8 DEF EmittedInv
  <2>2. DeleteOnlyIfAbsent' /\ OneActionPerKey'
    BY <1>1, <1>8 DEF MergeInv, DeleteOnlyIfAbsent, OneActionPerKey
  <2> QED  BY <1>3, <1>6, <2>1, <2>2 DEF MergeInv
<1>9. CASE Emit(DeleteOf(cacheKey))
  <2> DEFINE a == DeleteOf(cacheKey)
  <2>1. a \in SyncAction /\ a.key = cacheKey
    BY <1>4 DEF DeleteOf, SyncAction
  <2>2. /\ \A i \in DOMAIN actions' :
              actions'[i] = a \/ \E j \in DOMAIN actions : actions'[i] = actions[j]
        /\ DeleteOnlyIfAbsent' /\ OneActionPerKey'
    BY <1>1, <1>5, <1>7, <1>9, <2>1, EmitNext
  <2>3. \A i \in DOMAIN actions' : /\ actions'[i].key \in Nat
                                   /\ actions'[i].key <= cacheKey
                                   /\ listKey # 0 => actions'[i].key < listKey
    BY <1>1, <1>4, <1>7, <2>1, <2>2
  <2>4. EmittedInv'
    BY <1>1, <1>4, <2>3 DEF EmittedInv
  <2> QED  BY <1>3, <1>6, <2>2, <2>4 DEF MergeInv
<1> QED  BY <1>1, <1>8, <1>9

(* The environment: more objects have been absent, fewer pages are sure    *)
(* to be the last.                                                         *)

LEMMA EnvironmentKeepsMerge ==
    ASSUME TypeOK, MergeInv, TakeAction \/ Cancel \/ ChangeSource \/ UNCHANGED vars
    PROVE  MergeInv'
<1> USE DEF environment, fetcher, merger, vars
<1>1. /\ UNCHANGED <<fetcher, pages, errCh, merger, actions>>
      /\ ctxDone => ctxDone'
      /\ ctxDone \in BOOLEAN
  BY DEF TakeAction, Cancel, ChangeSource, TypeOK
<1>2. /\ \A k \in Keys : history[k] \subseteq history'[k]
      /\ \A k \in Keys : source'[k] \in history'[k]
  <2>1. CASE ChangeSource
    BY <2>1 DEF ChangeSource, MergeInv, GapInv, TypeOK
  <2>2. CASE TakeAction \/ Cancel \/ UNCHANGED vars
    BY <2>2 DEF TakeAction, Cancel, MergeInv, GapInv
  <2> QED  BY <2>1, <2>2
<1>3. \A k : (Queued(k)' <=> Queued(k)) /\ (Pending(k)' <=> Pending(k))
  BY <1>1 DEF Queued, Pending
<1>4. \A k : Passed(k)' => Passed(k)
  BY <1>1, <1>3 DEF Passed, WholeListed
<1>5. FetchInv' /\ LastInv' /\ OrderInv'
  BY <1>1, <1>3 DEF MergeInv, FetchInv, LastInv, OrderInv, Merging
<1>6. GapInv'
  BY <1>1, <1>2, <1>3, <1>4 DEF MergeInv, GapInv, Merging
<1>7. CursorInv' /\ EmittedInv' /\ DeleteOnlyIfAbsent' /\ OneActionPerKey'
  BY <1>1, <1>2, MergeFrame
<1> QED  BY <1>5, <1>6, <1>7 DEF MergeInv

(* The invariant holds initially.                                          *)

LEMMA MergeInit == Init => MergeInv
<1> SUFFICES ASSUME Init PROVE MergeInv
  OBVIOUS
<1>1. /\ source \in [Keys -> Values] /\ history = [k \in Keys |-> {source[k]}]
      /\ ctxDone = FALSE /\ fpc = "list" /\ token = 0 /\ prevToken = 0
      /\ seenMaxKey = 0 /\ pages = <<>> /\ errCh = "empty" /\ dpc = "init"
      /\ page = NoObjects /\ pageLast = FALSE /\ listDone = FALSE
      /\ listKey = 0 /\ cacheKey = 0 /\ actions = <<>>
  BY DEF Init
<1>2. DOMAIN page = {} /\ DOMAIN pages = {} /\ DOMAIN actions = {}
  BY <1>1 DEF NoObjects
<1>3. \A k : ~ Pending(k) /\ ~ Queued(k)
  BY <1>1, <1>2 DEF Pending, Queued
<1>4. \A k \in Keys : ~ Passed(k)
  BY <1>1, <1>2, <1>3, KeyNumbers DEF Passed, WholeListed
<1>5. FetchInv /\ LastInv /\ OrderInv
  BY <1>1, <1>2, <1>3 DEF FetchInv, LastInv, OrderInv
<1>6. GapInv
  BY <1>1, <1>4 DEF GapInv
<1>7. CursorInv /\ EmittedInv /\ DeleteOnlyIfAbsent /\ OneActionPerKey
  BY <1>1, <1>2 DEF CursorInv, EmittedInv, DeleteOnlyIfAbsent, OneActionPerKey
<1> QED  BY <1>5, <1>6, <1>7 DEF MergeInv

(* Every step of a run with a sound listing preserves the invariant.       *)

LEMMA MergeNext == SoundListing /\ TypeOK /\ MergeInv /\ [Next]_vars => MergeInv'
<1> SUFFICES ASSUME SoundListing, TypeOK, MergeInv, [Next]_vars PROVE MergeInv'
  OBVIOUS
<1>1. CASE Fetcher
  BY <1>1, FetcherListFails, FetcherListSucceeds, FetcherSendsPage,
     FetcherAbandonsPage DEF Fetcher
<1>2. CASE CheckInitialError
  BY <1>2, MergerChecksInitialError
<1>3. CASE NextListObj
  BY <1>3, MergerFindsNoObject, MergerTakesFromPage, MergerReceivesPage DEF NextListObj
<1>4. CASE CheckContext
  BY <1>4, MergerChecksContext
<1>5. CASE CopyNew \/ CompareCached
  BY <1>5, MergerCopies
<1>6. CASE DropCached
  BY <1>6, MergerDrops
<1>7. CASE TakeAction \/ Cancel \/ ChangeSource \/ UNCHANGED vars
  BY <1>7, EnvironmentKeepsMerge
<1>8. CASE Finished
  BY <1>8, EnvironmentKeepsMerge DEF Finished
<1> QED
  BY <1>1, <1>2, <1>3, <1>4, <1>5, <1>6, <1>7, <1>8 DEF Next, Merger

(* It holds in every state such a run reaches.                             *)

LEMMA MergeInvariant == SoundListing => (Spec => []MergeInv)
<1> SUFFICES ASSUME SoundListing PROVE Spec => []MergeInv
  OBVIOUS
<1>1. TypeOK /\ MergeInv /\ [Next]_vars => MergeInv'
  BY MergeNext
<1> QED  BY <1>1, MergeInit, TypeInit, TypeNext, PTL DEF Spec

(* When no LIST fails and no truncated page is short, a DELETE is emitted  *)
(* only for a key that was absent at some moment of the run, whatever      *)
(* clients change meanwhile and wherever a cancellation falls.             *)

THEOREM DeletesAreJustified == SoundListing => (Spec => []DeleteOnlyIfAbsent)
<1>1. MergeInv => DeleteOnlyIfAbsent
  BY DEF MergeInv
<1> QED  BY <1>1, MergeInvariant, PTL

(* Under the same assumption no two actions of a run are for the same key, *)
(* so that no two workers ever work on one object, and the actions come in *)
(* key order.                                                              *)

THEOREM ActionsAreOrdered == SoundListing => (Spec => []OneActionPerKey)
<1>1. MergeInv => OneActionPerKey
  BY DEF MergeInv
<1> QED  BY <1>1, MergeInvariant, PTL

=============================================================================
