------------------------- MODULE DiffContractProofs --------------------------
(***************************************************************************)
(* The differ implements its contract: for every set of keys, page size,   *)
(* channel capacity and cache content, while clients change the bucket and *)
(* wherever a cancellation falls, provided the listing is sound.           *)
(***************************************************************************)
EXTENDS StreamingDiffProofs

(* Contract!Settled and Contract!Justified, with the mapping expanded.     *)

Settled(k) ==
    \/ \E i \in DOMAIN actions : actions[i].key = k
    \/ Record(k) # Absent /\ Record(k) \in history[k]
    \/ Absent \in history[k] /\ (Record(k) = Absent \/ ~deletePropagation)

Justified(a) ==
    \/ /\ a.type = "copy" /\ a.meta \in history[a.key]
       /\ Record(a.key) # a.meta
    \/ /\ a.type = "delete" /\ deletePropagation /\ Absent \in history[a.key]
       /\ Record(a.key) # Absent

(* What the two cursors of the merge have passed.  A listing that has run  *)
(* out has passed every key.                                               *)

MergeOn == dpc \in {"next", "check", "merge"}

CachePassed(k) == cacheKey = 0 \/ k < cacheKey

ListPassed(k) == \/ dpc = "next" /\ k <= listKey
                 \/ dpc \in {"check", "merge"} /\ (listKey = 0 \/ k < listKey)

(* Keys the cache cursor has passed before the listing have no record.     *)

NothingCorrupt(k) == \A j \in Keys : j <= k => cache[j] # Corrupt

RecordInv ==
    /\ MergeOn => \A k \in Keys : CachePassed(k) /\ ~ListPassed(k) => Record(k) = Absent
    /\ MergeOn /\ cacheKey # 0 => cache[cacheKey] # Absent /\ NothingCorrupt(cacheKey)

(* What is listed was in the bucket at some moment of the run.             *)

ListedInv ==
    /\ \A k \in DOMAIN page : page[k] \in history[k]
    /\ \A i \in DOMAIN pages : \A k \in DOMAIN pages[i].objs :
          pages[i].objs[k] \in history[k]
    /\ \A k \in DOMAIN out.objs : out.objs[k] \in history[k]
    /\ listKey # 0 => listMeta \in history[listKey]

(* What both cursors have passed is settled, unless the listing only seems *)
(* to have run out because the run was cancelled.                          *)

Ended == dpc = "check" /\ listKey = 0 /\ ctxDone

SettledInv ==
    /\ MergeOn /\ ~Ended => \A k \in Keys : CachePassed(k) /\ ListPassed(k) => Settled(k)
    /\ dpc = "done" /\ ~ctxDone => \A k \in Keys : Settled(k)

(* Every action is justified, and came when all before it was settled.     *)

ActionsInv ==
    \A i \in DOMAIN actions :
        /\ Justified(actions[i])
        /\ \A k \in Keys : k < actions[i].key => Settled(k)

ContractInv == RecordInv /\ ListedInv /\ SettledInv /\ ActionsInv

-----------------------------------------------------------------------------
(* The cache cursor moves past keys without a record only.                 *)

LEMMA CursorMoves ==
    ASSUME TypeOK, NEW c \in KeyOrNone, NothingCorrupt(c)
    PROVE  /\ \A k \in Keys : k > c /\ (NextCached(c) = 0 \/ k < NextCached(c))
                                 => Record(k) = Absent
           /\ NextCached(c) # 0 => /\ NextCached(c) \in Keys /\ NextCached(c) > c
                                   /\ cache[NextCached(c)] # Absent
                                   /\ NothingCorrupt(NextCached(c))
<1> DEFINE rest == {j \in Keys : j > c /\ cache[j] # Absent}
           m == Min(rest)
<1>1. c \in Nat /\ \A k \in Keys : k \in Nat \ {0}
  BY KeyNumbers
<1>2. \A k \in Keys : cache[k] = Absent => Record(k) = Absent
  BY DEF Record
<1>3. \A k \in Keys : k > c /\ k \notin rest => Record(k) = Absent
  BY <1>2
<1>4. CASE rest = {}
  <2>1. NextCached(c) = 0
    BY <1>4 DEF NextCached
  <2> QED  BY <1>3, <1>4, <2>1
<1>5. CASE rest # {}
  <2>1. m \in rest /\ \A j \in rest : m <= j
    BY <1>5, KeyBounds
  <2>2. m \in Keys /\ m > c /\ cache[m] # Absent
    BY <2>1
  <2>3. NextCached(c) = IF cache[m] = Corrupt THEN 0 ELSE m
    BY <1>5 DEF NextCached
  <2> HIDE DEF m
  <2>4. \A k \in Keys : k < m => k \notin rest
    BY <1>1, <2>1, <2>2
  <2>5. CASE cache[m] = Corrupt
    <3>1. \A k \in Keys : k >= m => Record(k) = Absent
      BY <2>2, <2>5 DEF Record
    <3> QED  BY <1>1, <1>3, <2>2, <2>3, <2>4, <2>5, <3>1
  <2>6. CASE cache[m] # Corrupt
    <3>1. NextCached(c) = m /\ m # 0
      BY <1>1, <2>2, <2>3, <2>6
    <3>2. ASSUME NEW j \in Keys, j <= m
          PROVE  cache[j] # Corrupt
      <4>1. CASE j <= c
        BY <4>1 DEF NothingCorrupt
      <4>2. CASE j > c /\ j < m
        BY <2>4, <4>2, MarksAssumption
      <4> QED  BY <1>1, <2>2, <2>6, <3>2, <4>1, <4>2
    <3> QED  BY <1>1, <1>3, <2>2, <2>4, <3>1, <3>2 DEF NothingCorrupt
  <2> QED  BY <2>5, <2>6
<1> QED  BY <1>4, <1>5

(* What is settled stays settled, and what is justified justified.         *)

Grows ==
    /\ UNCHANGED <<cache, deletePropagation>>
    /\ \A k \in Keys : history[k] \subseteq history'[k]
    /\ \A i \in DOMAIN actions : i \in DOMAIN actions' /\ actions'[i] = actions[i]

(* Such a step unsettles nothing.                                          *)

LEMMA Lasting ==
    ASSUME Grows
    PROVE  /\ \A k \in Keys : Record(k)' = Record(k)
           /\ \A k \in Keys : Settled(k) => Settled(k)'
           /\ \A a \in SyncAction : Justified(a) => Justified(a)'
           /\ \A k \in Keys : NothingCorrupt(k) => NothingCorrupt(k)'
<1>1. \A k : Record(k)' = Record(k)
  BY DEF Grows, Record
<1>2. \A a \in SyncAction : a.key \in Keys
  BY DEF SyncAction
<1>3. \A k \in Keys : Settled(k) => Settled(k)'
  BY <1>1 DEF Grows, Settled
<1>4. \A a \in SyncAction : Justified(a) => Justified(a)'
  BY <1>1, <1>2 DEF Grows, Justified
<1> QED  BY <1>1, <1>3, <1>4 DEF Grows, NothingCorrupt

(* A step that emits nothing keeps what is said of the actions.            *)

LEMMA ActionsFrame ==
    ASSUME TypeOK, ActionsInv, Grows, UNCHANGED actions
    PROVE  ActionsInv'
<1>1. \A i \in DOMAIN actions : actions[i] \in SyncAction
  BY DEF TypeOK
<1> QED  BY <1>1, Lasting DEF ActionsInv

(* A step that leaves the merge alone keeps the invariant, if what it      *)
(* lists was in the bucket.                                                *)

LEMMA QuietStep ==
    ASSUME TypeOK, ContractInv, Grows, ListedInv',
           ctxDone => ctxDone',
           UNCHANGED <<dpc, cacheKey, listKey, actions>>
    PROVE  ContractInv'
<1>1. cacheKey # 0 => cacheKey \in Keys
  BY KeyNumbers DEF TypeOK
<1>2. RecordInv'
  BY <1>1, Lasting DEF ContractInv, RecordInv, MergeOn, CachePassed, ListPassed, Grows
<1>3. SettledInv'
  BY Lasting DEF ContractInv, SettledInv, MergeOn, CachePassed, ListPassed, Ended
<1>4. ActionsInv'
  BY ActionsFrame DEF ContractInv
<1> QED  BY <1>2, <1>3, <1>4 DEF ContractInv

-----------------------------------------------------------------------------
(* The fetcher lists what the bucket holds at that moment.                 *)

LEMMA FetcherKeepsContract ==
    ASSUME TypeOK, MergeInv, ContractInv, Fetcher
    PROVE  ContractInv'
<1>1. /\ UNCHANGED <<source, history, cache, deletePropagation, ctxDone, dpc, page,
                     listKey, listMeta, cacheKey, actions>>
  BY DEF Fetcher, ListFails, ListSucceeds, SendPage, AbandonPage, environment, merger
<1>2. /\ \A k \in DOMAIN out.objs : out.objs[k] \in history[k]
      /\ \A i \in DOMAIN pages : \A k \in DOMAIN pages[i].objs : pages[i].objs[k] \in history[k]
  BY DEF ContractInv, ListedInv
<1>3. \A k \in DOMAIN out'.objs : out'.objs[k] \in history[k]
  <2>1. CASE ListSucceeds
    <3>1. PICK from \in Positions : \E S \in PagesAfter(from) :
             \/ S = {} /\ UNCHANGED out
             \/ S # {} /\ \E b \in BOOLEAN : out' = [objs |-> [k \in S |-> source[k]], last |-> b]
      BY <2>1 DEF ListSucceeds, LastPage
    <3>2. PICK S \in PagesAfter(from) :
             \/ S = {} /\ UNCHANGED out
             \/ S # {} /\ \E b \in BOOLEAN : out' = [objs |-> [k \in S |-> source[k]], last |-> b]
      BY <3>1
    <3>3. S \subseteq Keys
      BY DEF PagesAfter, KeysAfter
    <3> QED  BY <1>2, <3>2, <3>3 DEF MergeInv, GapInv
  <2>2. CASE ListFails \/ SendPage \/ AbandonPage
    BY <1>2, <2>2 DEF ListFails, SendPage, AbandonPage, fetcher
  <2> QED  BY <2>1, <2>2 DEF Fetcher
<1>4. \A i \in DOMAIN pages' : \A k \in DOMAIN pages'[i].objs : pages'[i].objs[k] \in history[k]
  <2>1. CASE SendPage
    <3>1. pages \in Seq(Page) /\ out \in Page /\ pages' = Append(pages, out)
      BY <2>1 DEF SendPage, TypeOK
    <3>2. \A i \in DOMAIN pages' : pages'[i] = out \/ (i \in DOMAIN pages /\ pages'[i] = pages[i])
      BY <3>1
    <3> QED  BY <1>2, <3>2
  <2>2. CASE ListFails \/ ListSucceeds \/ AbandonPage
    BY <1>2, <2>2 DEF ListFails, ListSucceeds, AbandonPage
  <2> QED  BY <2>1, <2>2 DEF Fetcher
<1>5. ListedInv'
  BY <1>1, <1>3, <1>4 DEF ContractInv, ListedInv
<1> QED  BY <1>1, <1>5, QuietStep DEF Grows

(* The consumer, a cancellation, clients, and nothing at all.              *)

LEMMA EnvironmentKeepsContract ==
    ASSUME TypeOK, ContractInv, TakeAction \/ Cancel \/ ChangeSource \/ UNCHANGED vars
    PROVE  ContractInv' /\ Grows /\ (ctxDone => ctxDone')
<1>1. /\ UNCHANGED <<cache, deletePropagation, out, pages, page, dpc, listKey, listMeta,
                     cacheKey, actions>>
      /\ ctxDone => ctxDone'
  BY DEF TakeAction, Cancel, ChangeSource, vars, environment, fetcher, merger
<1>2. \A k \in Keys : history[k] \subseteq history'[k]
  <2>1. CASE ChangeSource
    BY <2>1 DEF ChangeSource, TypeOK
  <2>2. CASE TakeAction \/ Cancel \/ UNCHANGED vars
    BY <2>2 DEF TakeAction, Cancel, vars, environment
  <2> QED  BY <2>1, <2>2
<1>3. ListedInv'
  <2>1. /\ DOMAIN page \subseteq Keys /\ DOMAIN out.objs \subseteq Keys
        /\ listKey # 0 => listKey \in Keys
    BY KeyNumbers DEF TypeOK, Page, Objects
  <2>2. \A i \in DOMAIN pages : DOMAIN pages[i].objs \subseteq Keys
    <3>1. \A i \in DOMAIN pages : pages[i] \in Page
      BY DEF TypeOK
    <3> QED  BY <3>1 DEF Page, Objects
  <2>3. /\ \A k \in DOMAIN page' : page'[k] \in history'[k]
        /\ \A k \in DOMAIN out'.objs : out'.objs[k] \in history'[k]
        /\ listKey' # 0 => listMeta' \in history'[listKey']
    BY <1>1, <1>2, <2>1 DEF ContractInv, ListedInv
  <2>4. \A i \in DOMAIN pages' : \A k \in DOMAIN pages'[i].objs : pages'[i].objs[k] \in history'[k]
    BY <1>1, <1>2, <2>2 DEF ContractInv, ListedInv
  <2> QED  BY <2>3, <2>4 DEF ListedInv
<1>4. Grows
  BY <1>1, <1>2 DEF Grows
<1> QED  BY <1>1, <1>3, <1>4, QuietStep

-----------------------------------------------------------------------------
(* The first object in hand, or the error of a cancelled run.              *)

LEMMA BeginsKeepsContract ==
    ASSUME TypeOK, MergeInv, ContractInv, CheckInitialError
    PROVE  ContractInv'
<1>1. /\ UNCHANGED <<history, cache, deletePropagation, ctxDone, out, pages, page,
                     listKey, listMeta, actions>>
      /\ dpc = "init" /\ listKey = 0
  BY DEF CheckInitialError, environment, fetcher, MergeInv, CursorInv
<1>2. Grows
  BY <1>1 DEF Grows
<1>3. ListedInv'
  BY <1>1 DEF ContractInv, ListedInv
<1>4. ActionsInv'
  BY <1>1, <1>2, ActionsFrame DEF ContractInv
<1>5. CASE errCh = "full" /\ dpc' = "done"
  <2>1. ctxDone'
    BY <1>1, <1>5 DEF MergeInv, FetchInv
  <2> QED  BY <1>3, <1>4, <1>5, <2>1 DEF ContractInv, RecordInv, SettledInv, MergeOn
<1>6. CASE dpc' = "next" /\ cacheKey' = NextCached(0)
  <2>1. 0 \in KeyOrNone /\ NothingCorrupt(0) /\ \A k \in Keys : k \in Nat /\ k > 0
    BY KeyNumbers DEF KeyOrNone, NothingCorrupt
  <2>2. \A k \in Keys : ~ListPassed(k)'
    BY <1>1, <1>6, <2>1 DEF ListPassed
  <2>3. RecordInv'
    BY <1>1, <1>2, <1>6, <2>1, CursorMoves, Lasting
       DEF RecordInv, MergeOn, CachePassed, NothingCorrupt
  <2>4. SettledInv'
    BY <1>6, <2>2 DEF SettledInv, MergeOn
  <2> QED  BY <1>3, <1>4, <2>3, <2>4 DEF ContractInv
<1> QED  BY <1>5, <1>6 DEF CheckInitialError

(* When the listing has run out in a run that goes on, whatever lies       *)
(* beyond the last object was absent at some moment.                       *)

LEMMA NothingLeft ==
    ASSUME TypeOK, MergeInv, ~ctxDone,
           AlreadyDone \/ ReceiveClosed \/ ReceiveError \/ ReceiveCancel
    PROVE  \A k \in Keys : Absent \in history[k] \/ k <= listKey
<1>1. WholeListed /\ (\A k : ~ Pending(k)) /\ dpc = "next"
  <2>1. CASE AlreadyDone
    <3>1. pageLast /\ DOMAIN page = {} /\ fpc = "done" /\ pages = <<>>
      BY <2>1 DEF AlreadyDone, MergeInv, LastInv, Merging
    <3> QED  BY <2>1, <3>1 DEF AlreadyDone, WholeListed, Pending, Queued
  <2>2. CASE ReceiveClosed
    BY <2>2 DEF ReceiveClosed, WholeListed, Pending, Queued
  <2>3. CASE ReceiveError \/ ReceiveCancel
    BY <2>3 DEF ReceiveError, ReceiveCancel, MergeInv, FetchInv
  <2> QED  BY <2>1, <2>2, <2>3
<1> QED  BY <1>1 DEF MergeInv, GapInv, Merging, Passed

(* So what both cursors have passed is settled when nothing is listed.     *)

LEMMA RunsOutKeepsContract ==
    ASSUME TypeOK, MergeInv, ContractInv,
           AlreadyDone \/ ReceiveClosed \/ ReceiveError \/ ReceiveCancel
    PROVE  ContractInv'
<1>1. /\ UNCHANGED <<history, cache, deletePropagation, ctxDone, out, pages, page,
                     cacheKey, actions>>
      /\ dpc = "next" /\ dpc' = "check" /\ listKey' = 0
  BY DEF AlreadyDone, ReceiveClosed, ReceiveError, ReceiveCancel, NoListObject,
         environment, fetcher
<1>2. Grows
  BY <1>1 DEF Grows
<1>3. ListedInv'
  BY <1>1 DEF ContractInv, ListedInv
<1>4. ActionsInv'
  BY <1>1, <1>2, ActionsFrame DEF ContractInv
<1>5. RecordInv'
  BY <1>1, <1>2, Lasting
     DEF ContractInv, RecordInv, MergeOn, ListPassed, CachePassed, NothingCorrupt
<1>6. SettledInv'
  <2> SUFFICES ASSUME ~ctxDone, NEW k \in Keys, CachePassed(k) PROVE Settled(k)
    BY <1>1, <1>2, Lasting DEF SettledInv, MergeOn, Ended, CachePassed
  <2>1. CASE k <= listKey
    BY <1>1, <2>1 DEF ContractInv, SettledInv, MergeOn, Ended, ListPassed
  <2>2. CASE ~(k <= listKey)
    <3>1. Record(k) = Absent
      BY <1>1, <2>2 DEF ContractInv, RecordInv, MergeOn, ListPassed
    <3>2. Absent \in history[k]
      BY <2>2, NothingLeft
    <3> QED  BY <3>1, <3>2 DEF Settled
  <2> QED  BY <2>1, <2>2
<1> QED  BY <1>3, <1>4, <1>5, <1>6 DEF ContractInv

(* The next listed object: no listed object lies before it.                *)

LEMMA NothingSkipped ==
    ASSUME TypeOK, MergeInv, TakeFromPage
    PROVE  /\ Min(DOMAIN page) \in DOMAIN page /\ Min(DOMAIN page) \in Keys
           /\ listKey < Min(DOMAIN page)
           /\ \A j \in Keys : j < Min(DOMAIN page) => Absent \in history[j] \/ j <= listKey
<1> DEFINE k == Min(DOMAIN page)
<1>1. dpc = "next" /\ DOMAIN page # {} /\ DOMAIN page \subseteq Keys
  BY DEF TakeFromPage, TypeOK, Objects
<1>2. k \in DOMAIN page /\ k \in Keys /\ \A j \in DOMAIN page : k <= j
  BY <1>1, KeyBounds
<1> HIDE DEF k
<1>3. Pending(k) /\ listKey < k
  BY <1>2 DEF MergeInv, OrderInv, Pending
<1>4. ASSUME NEW j \in Keys, j < k
      PROVE  Absent \in history[j] \/ j <= listKey
  <2>1. j \in Nat /\ k \in Nat
    BY <1>2, KeyNumbers
  <2>2. Passed(j)
    BY <1>2, <1>3, <1>4, <2>1 DEF Passed
  <2>3. ~ Pending(j)
    <3>1. j \notin DOMAIN page
      BY <1>2, <1>4, <2>1
    <3>2. ~ Queued(j)
      BY <1>2, <1>4, <2>1 DEF MergeInv, OrderInv
    <3>3. ~(fpc = "send" /\ j \in DOMAIN out.objs)
      BY <1>2, <1>4, <2>1 DEF MergeInv, OrderInv
    <3> QED  BY <3>1, <3>2, <3>3 DEF Pending
  <2> QED  BY <1>1, <2>2, <2>3 DEF MergeInv, GapInv, Merging
<1> QED  BY <1>2, <1>3, <1>4 DEF k

(* So what lies between two listed objects, and has no record, is settled. *)

LEMMA TakesKeepsContract ==
    ASSUME TypeOK, MergeInv, ContractInv, TakeFromPage
    PROVE  ContractInv'
<1> DEFINE k == Min(DOMAIN page)
<1>1. /\ UNCHANGED <<history, cache, deletePropagation, ctxDone, out, pages,
                     cacheKey, actions>>
      /\ dpc = "next" /\ dpc' = "check" /\ listKey' = k /\ listMeta' = page[k]
      /\ page' = [j \in DOMAIN page \ {k} |-> page[j]]
  BY DEF TakeFromPage, environment, fetcher
<1>2. /\ k \in DOMAIN page /\ k \in Keys /\ listKey < k
      /\ \A j \in Keys : j < k => Absent \in history[j] \/ j <= listKey
  BY NothingSkipped
<1> HIDE DEF k
<1>3. /\ k # 0 /\ k \in Nat /\ listKey \in Nat /\ \A j \in Keys : j \in Nat
  BY <1>2, KeyNumbers DEF TypeOK
<1>4. Grows
  BY <1>1 DEF Grows
<1>5. ListedInv'
  BY <1>1, <1>2 DEF ContractInv, ListedInv
<1>6. ActionsInv'
  BY <1>1, <1>4, ActionsFrame DEF ContractInv
<1>7. RecordInv'
  <2>1. \A j \in Keys : ~ListPassed(j)' => ~ListPassed(j)
    BY <1>1, <1>2, <1>3 DEF ListPassed
  <2> QED  BY <1>1, <1>4, <2>1, Lasting
           DEF ContractInv, RecordInv, MergeOn, CachePassed, NothingCorrupt
<1>8. SettledInv'
  <2> SUFFICES ASSUME NEW j \in Keys, CachePassed(j), j < k PROVE Settled(j)
    BY <1>1, <1>3, <1>4, Lasting DEF SettledInv, MergeOn, CachePassed, ListPassed
  <2>1. CASE j <= listKey
    BY <1>1, <2>1 DEF ContractInv, SettledInv, MergeOn, Ended, ListPassed
  <2>2. CASE ~(j <= listKey)
    <3>1. Record(j) = Absent
      BY <1>1, <2>2 DEF ContractInv, RecordInv, MergeOn, ListPassed
    <3> QED  BY <1>2, <2>2, <3>1 DEF Settled
  <2> QED  BY <2>1, <2>2
<1> QED  BY <1>5, <1>6, <1>7, <1>8 DEF ContractInv

(* The next page.                                                          *)

LEMMA ReceivesKeepsContract ==
    ASSUME TypeOK, ContractInv, ReceivePage
    PROVE  ContractInv'
<1>1. /\ UNCHANGED <<history, cache, deletePropagation, ctxDone, out, dpc, listKey,
                     listMeta, cacheKey, actions>>
      /\ pages # <<>> /\ pages \in Seq(Page)
      /\ page' = Head(pages).objs /\ pages' = Tail(pages)
  BY DEF ReceivePage, environment, fetcher, TypeOK
<1>2. /\ 1 \in DOMAIN pages /\ Head(pages) = pages[1]
      /\ \A i \in DOMAIN Tail(pages) : Tail(pages)[i] = pages[i + 1] /\ i + 1 \in DOMAIN pages
  BY <1>1
<1>3. ListedInv'
  BY <1>1, <1>2 DEF ContractInv, ListedInv
<1> QED  BY <1>1, <1>3, QuietStep DEF Grows

(* The look at the context, which ends the merge or goes on.               *)

LEMMA ChecksKeepsContract ==
    ASSUME TypeOK, ContractInv, CheckContext
    PROVE  ContractInv'
<1>1. /\ UNCHANGED <<history, cache, deletePropagation, ctxDone, out, pages, page,
                     listKey, listMeta, cacheKey, actions>>
      /\ dpc = "check"
  BY DEF CheckContext, environment, fetcher
<1>2. Grows
  BY <1>1 DEF Grows
<1>3. ListedInv' /\ ActionsInv'
  BY <1>1, <1>2, ActionsFrame DEF ContractInv, ListedInv
<1>4. CASE dpc' = "done" /\ (ctxDone \/ (listKey = 0 /\ cacheKey = 0))
  <2>1. ~ctxDone => \A k \in Keys : Settled(k)
    BY <1>1, <1>4 DEF ContractInv, SettledInv, MergeOn, Ended, CachePassed, ListPassed
  <2> QED  BY <1>1, <1>2, <1>3, <1>4, <2>1, Lasting
           DEF ContractInv, RecordInv, SettledInv, MergeOn
<1>5. CASE dpc' = "merge" /\ ~ctxDone
  <2>1. RecordInv'
    BY <1>1, <1>2, <1>5, Lasting
       DEF ContractInv, RecordInv, MergeOn, CachePassed, ListPassed, NothingCorrupt
  <2>2. SettledInv'
    BY <1>1, <1>2, <1>5, Lasting
       DEF ContractInv, SettledInv, MergeOn, Ended, CachePassed, ListPassed
  <2> QED  BY <1>3, <2>1, <2>2 DEF ContractInv
<1> QED  BY <1>4, <1>5 DEF CheckContext

-----------------------------------------------------------------------------
(* An action the contract allows.                                          *)

Allowed(a) ==
    /\ a \in SyncAction /\ Justified(a)
    /\ \A i \in DOMAIN actions : actions[i].key < a.key
    /\ \A k \in Keys : k < a.key => Settled(k)

(* Emitting it keeps what is said of the actions, and settles its key.     *)

LEMMA EmitKeeps ==
    ASSUME TypeOK, ActionsInv, UNCHANGED <<history, cache, deletePropagation>>,
           NEW a \in SyncAction, Allowed(a), Emit(a)
    PROVE  Grows /\ ActionsInv' /\ Settled(a.key)'
<1>1. actions' = Append(actions, a) /\ actions \in Seq(SyncAction)
  BY DEF Emit, TypeOK
<1>2. /\ \A i \in DOMAIN actions : i \in DOMAIN actions' /\ actions'[i] = actions[i]
      /\ \A i \in DOMAIN actions' : actions'[i] = a \/ (i \in DOMAIN actions /\ actions'[i] = actions[i])
      /\ \E i \in DOMAIN actions' : actions'[i] = a
      /\ \A i \in DOMAIN actions : actions[i] \in SyncAction
  <2>1. Len(actions) + 1 \in DOMAIN actions' /\ actions'[Len(actions) + 1] = a
    BY <1>1
  <2> QED  BY <1>1, <2>1
<1>3. Grows
  BY <1>2 DEF Grows
<1>4. ActionsInv'
  <2> SUFFICES ASSUME NEW i \in DOMAIN actions'
               PROVE  /\ Justified(actions[i])'
                      /\ \A k \in Keys : k < actions'[i].key => Settled(k)'
    BY DEF ActionsInv
  <2>1. CASE actions'[i] = a
    <3>1. Justified(a)'
      BY <1>3, Lasting DEF Allowed
    <3>2. Justified(actions[i])'
      BY <2>1, <3>1 DEF Justified
    <3> QED  BY <1>3, <2>1, <3>2, Lasting DEF Allowed
  <2>2. CASE i \in DOMAIN actions /\ actions'[i] = actions[i]
    <3>1. Justified(actions[i]) /\ actions[i] \in SyncAction
      BY <1>2, <2>2 DEF ActionsInv
    <3>2. Justified(actions[i])'
      BY <1>3, <2>2, <3>1, Lasting DEF Justified
    <3> QED  BY <1>3, <2>2, <3>2, Lasting DEF ActionsInv
  <2> QED  BY <1>2, <2>1, <2>2
<1>5. Settled(a.key)'
  BY <1>2 DEF Settled
<1> QED  BY <1>3, <1>4, <1>5

(* A copy of the object in hand, which the cache does not show.            *)

LEMMA CopyAllowed ==
    ASSUME TypeOK, MergeInv, ContractInv, dpc = "merge", listKey # 0,
           \/ cacheKey = 0 \/ listKey < cacheKey
           \/ cacheKey = listKey /\ cache[cacheKey] # listMeta
    PROVE  Allowed(CopyOf(listKey, listMeta))
<1> DEFINE a == CopyOf(listKey, listMeta)
<1>1. listKey \in Keys /\ listMeta \in Metas /\ \A k \in Keys : k \in Nat
  BY KeyNumbers DEF TypeOK
<1>2. a \in SyncAction /\ a.key = listKey /\ a.type = "copy" /\ a.meta = listMeta
  BY <1>1 DEF CopyOf, SyncAction
<1>3. listMeta \in history[listKey]
  BY DEF ContractInv, ListedInv
<1>4. Record(listKey) # listMeta
  <2>1. CASE cacheKey = 0 \/ listKey < cacheKey
    <3>1. Record(listKey) = Absent
      BY <1>1, <2>1 DEF ContractInv, RecordInv, MergeOn, CachePassed, ListPassed
    <3> QED  BY <1>1, <3>1, MetasAssumption
  <2>2. CASE cacheKey = listKey /\ cache[cacheKey] # listMeta
    <3>1. Record(listKey) = cache[listKey]
      BY <2>2 DEF ContractInv, RecordInv, MergeOn, Record, NothingCorrupt
    <3> QED  BY <2>2, <3>1
  <2> QED  BY <2>1, <2>2
<1>5. \A k \in Keys : k < listKey => Settled(k)
  <2>1. cacheKey \in Nat
    BY KeyNumbers DEF TypeOK
  <2> QED  BY <1>1, <2>1
           DEF ContractInv, SettledInv, MergeOn, Ended, CachePassed, ListPassed
<1>6. \A i \in DOMAIN actions : actions[i].key < listKey
  BY DEF MergeInv, EmittedInv
<1> QED  BY <1>2, <1>3, <1>4, <1>5, <1>6 DEF Allowed, Justified

(* After it, or without it, the object is settled.                         *)

LEMMA CopiesKeepsContract ==
    ASSUME TypeOK, MergeInv, ContractInv, CopyNew \/ CompareCached
    PROVE  /\ ContractInv'
           /\ \/ UNCHANGED actions
              \/ Emit(CopyOf(listKey, listMeta)) /\ Allowed(CopyOf(listKey, listMeta))
<1> DEFINE a == CopyOf(listKey, listMeta)
<1>1. /\ UNCHANGED <<history, cache, deletePropagation, ctxDone, out, pages, page,
                     listKey, listMeta>>
      /\ dpc = "merge" /\ dpc' = "next" /\ listKey # 0
  BY DEF CopyNew, CompareCached, environment, fetcher
<1>2. listKey \in Keys /\ listMeta \in Metas /\ \A k \in Keys : k \in Nat
  BY <1>1, KeyNumbers DEF TypeOK
<1>3. a \in SyncAction /\ a.key = listKey
  BY <1>2 DEF CopyOf, SyncAction
<1>4. \/ Emit(a) /\ Allowed(a)
      \/ UNCHANGED actions /\ Settled(listKey)
  <2>1. CASE CopyNew
    BY <1>1, <2>1, CopyAllowed DEF CopyNew
  <2>2. CASE CompareCached /\ cache[cacheKey] # listMeta
    BY <1>1, <2>2, CopyAllowed DEF CompareCached
  <2>3. CASE CompareCached /\ cache[cacheKey] = listMeta
    <3>1. Record(listKey) = listMeta
      BY <1>1, <2>3 DEF CompareCached, ContractInv, RecordInv, MergeOn, Record, NothingCorrupt
    <3>2. listMeta \in history[listKey] /\ listMeta # Absent
      BY <1>1, <1>2, MetasAssumption DEF ContractInv, ListedInv
    <3> QED  BY <2>3, <3>1, <3>2 DEF CompareCached, Settled
  <2> QED  BY <2>1, <2>2, <2>3
<1>5. Grows /\ ActionsInv' /\ Settled(listKey)'
  <2>1. CASE Emit(a) /\ Allowed(a)
    BY <1>1, <1>3, <2>1, EmitKeeps DEF ContractInv
  <2>2. CASE UNCHANGED actions /\ Settled(listKey)
    <3>1. Grows
      BY <1>1, <2>2 DEF Grows
    <3> QED  BY <1>1, <1>2, <2>2, <3>1, ActionsFrame, Lasting DEF ContractInv, Settled
  <2> QED  BY <1>4, <2>1, <2>2
<1> HIDE DEF a
<1>6. ListedInv'
  BY <1>1 DEF ContractInv, ListedInv
<1>7. \/ cacheKey' = cacheKey /\ (cacheKey = 0 \/ listKey < cacheKey)
      \/ cacheKey = listKey /\ cacheKey' = NextCached(listKey)
  BY DEF CopyNew, CompareCached
<1>8. RecordInv'
  <2>1. CASE cacheKey' = cacheKey /\ (cacheKey = 0 \/ listKey < cacheKey)
    <3>1. \A k \in Keys : ~ListPassed(k)' => ~ListPassed(k)
      BY <1>1, <1>2 DEF ListPassed
    <3> QED  BY <1>1, <1>5, <2>1, <3>1, Lasting
             DEF ContractInv, RecordInv, MergeOn, CachePassed, NothingCorrupt
  <2>2. CASE cacheKey = listKey /\ cacheKey' = NextCached(listKey)
    <3>1. listKey \in KeyOrNone /\ NothingCorrupt(listKey)
      BY <1>1, <1>2, <2>2 DEF ContractInv, RecordInv, MergeOn, KeyOrNone
    <3>2. \A k \in Keys : ~ListPassed(k)' => k > listKey
      BY <1>1, <1>2 DEF ListPassed
    <3>3. \A k \in Keys : CachePassed(k)' /\ ~ListPassed(k)' => Record(k)' = Absent
      BY <1>5, <2>2, <3>1, <3>2, CursorMoves, Lasting DEF CachePassed
    <3>4. cacheKey' # 0 => (cache[cacheKey] # Absent)' /\ NothingCorrupt(cacheKey)'
      BY <1>1, <2>2, <3>1, CursorMoves DEF NothingCorrupt
    <3> QED  BY <3>3, <3>4 DEF RecordInv
  <2> QED  BY <1>7, <2>1, <2>2
<1>9. SettledInv'
  <2> SUFFICES ASSUME NEW k \in Keys, k <= listKey PROVE Settled(k)'
    BY <1>1 DEF SettledInv, MergeOn, ListPassed
  <2>1. CASE k = listKey
    BY <1>1, <1>5, <2>1 DEF Settled, Record
  <2>2. CASE k < listKey
    <3>1. CachePassed(k)
      BY <1>2, <1>7, <2>2, KeyNumbers DEF CachePassed, TypeOK
    <3>2. Settled(k)
      BY <1>1, <2>2, <3>1 DEF ContractInv, SettledInv, MergeOn, Ended, ListPassed
    <3> QED  BY <1>5, <3>2, Lasting
  <2> QED  BY <1>2, <2>1, <2>2
<1>10. ContractInv'
  BY <1>5, <1>6, <1>8, <1>9 DEF ContractInv
<1> QED  BY <1>4, <1>10 DEF a

(* A cached key no listed object was found for is deleted or let be.       *)

LEMMA DropsKeepsContract ==
    ASSUME TypeOK, MergeInv, ContractInv, DropCached
    PROVE  /\ ContractInv'
           /\ \/ UNCHANGED actions
              \/ Emit(DeleteOf(cacheKey)) /\ Allowed(DeleteOf(cacheKey))
<1>0. PICK c \in KeyOrNone : c = cacheKey
  BY DEF TypeOK
<1> DEFINE a == DeleteOf(c)
<1>1. /\ UNCHANGED <<history, cache, deletePropagation, ctxDone, out, pages, page,
                     listKey, listMeta>>
      /\ dpc = "merge" /\ dpc' = "check" /\ cacheKey # 0
      /\ listKey = 0 \/ cacheKey < listKey
      /\ cacheKey' = NextCached(cacheKey)
      /\ IF deletePropagation THEN Emit(a) ELSE UNCHANGED actions
  BY <1>0 DEF DropCached, environment, fetcher
<1>2. /\ c \in Keys /\ cacheKey \in Keys /\ cacheKey \in KeyOrNone /\ cacheKey \in Nat /\ listKey \in Nat
      /\ \A k \in Keys : k \in Nat
  BY <1>0, <1>1, KeyNumbers DEF TypeOK
<1>3. a \in SyncAction /\ a.key = c /\ a.type = "delete"
  BY <1>2 DEF DeleteOf, SyncAction
<1>4. \A k \in Keys : cacheKey <= k /\ ListPassed(k) => Absent \in history[k]
  BY <1>1, <1>2 DEF MergeInv, CursorInv, ListPassed
<1>5. ListPassed(cacheKey)
  BY <1>1 DEF ListPassed
<1>6. NothingCorrupt(cacheKey) /\ Record(cacheKey) # Absent
  BY <1>1, <1>2 DEF ContractInv, RecordInv, MergeOn, Record, NothingCorrupt
<1>7. \A k \in Keys : k < cacheKey /\ ListPassed(k) => Settled(k)
  BY <1>1 DEF ContractInv, SettledInv, MergeOn, Ended, CachePassed
<1>8. \/ Emit(a) /\ Allowed(a)
      \/ UNCHANGED actions /\ Settled(cacheKey)
  <2>1. CASE deletePropagation
    <3>1. Justified(a)
      BY <1>0, <1>2, <1>3, <1>4, <1>5, <1>6, <2>1 DEF Justified
    <3>2. \A k \in Keys : k < cacheKey => ListPassed(k)
      BY <1>1, <1>2 DEF ListPassed
    <3>3. \A i \in DOMAIN actions : actions[i].key < cacheKey
      BY <1>1 DEF MergeInv, EmittedInv
    <3> QED  BY <1>0, <1>1, <1>3, <1>7, <2>1, <3>1, <3>2, <3>3 DEF Allowed
  <2>2. CASE ~deletePropagation
    BY <1>1, <1>2, <1>4, <1>5, <2>2 DEF Settled
  <2> QED  BY <2>1, <2>2
<1>9. Grows /\ ActionsInv' /\ Settled(c)'
  <2>1. CASE Emit(a) /\ Allowed(a)
    <3>1. PICK b \in SyncAction : b = a
      BY <1>3
    <3>2. Grows /\ ActionsInv' /\ Settled(b.key)'
      BY <1>1, <2>1, <3>1, EmitKeeps DEF ContractInv
    <3> QED  BY <1>3, <3>1, <3>2
  <2>2. CASE UNCHANGED actions /\ Settled(cacheKey)
    <3>1. Grows
      BY <1>1, <2>2 DEF Grows
    <3>2. Settled(c)
      BY <1>0, <2>2
    <3> QED  BY <1>2, <2>2, <3>1, <3>2, ActionsFrame, Lasting DEF ContractInv
  <2> QED  BY <1>8, <2>1, <2>2
<1>15. a = DeleteOf(cacheKey)
  BY <1>0
<1> HIDE DEF a
<1>10. \A k \in Keys : ListPassed(k)' <=> ListPassed(k)
  BY <1>1 DEF ListPassed
<1>11. ListedInv'
  BY <1>1 DEF ContractInv, ListedInv
<1>12. RecordInv'
  <2>1. \A k \in Keys : ~ListPassed(k) => k > cacheKey
    BY <1>1, <1>2 DEF ListPassed
  <2>2. \A k \in Keys : CachePassed(k)' /\ ~ListPassed(k)' => Record(k)' = Absent
    BY <1>1, <1>2, <1>6, <1>9, <1>10, <2>1, CursorMoves, Lasting DEF CachePassed
  <2>3. cacheKey' # 0 => (cache[cacheKey] # Absent)' /\ NothingCorrupt(cacheKey)'
    BY <1>1, <1>2, <1>6, CursorMoves DEF NothingCorrupt
  <2> QED  BY <2>2, <2>3 DEF RecordInv
<1>13. SettledInv'
  <2> SUFFICES ASSUME NEW k \in Keys, CachePassed(k)', ListPassed(k) PROVE Settled(k)'
    BY <1>1, <1>10 DEF SettledInv, MergeOn
  <2>1. CASE k < cacheKey
    BY <1>7, <1>9, <2>1, Lasting
  <2>2. CASE k = cacheKey
    BY <1>0, <1>9, <2>2
  <2>3. CASE k > cacheKey
    <3>1. Record(k) = Absent
      BY <1>1, <1>2, <1>6, <2>3, CursorMoves DEF CachePassed
    <3>2. Absent \in history[k]
      BY <1>2, <1>4, <2>3
    <3>3. Settled(k)
      BY <3>1, <3>2 DEF Settled
    <3> QED  BY <1>9, <3>3, Lasting
  <2> QED  BY <1>2, <2>1, <2>2, <2>3
<1>14. ContractInv'
  BY <1>9, <1>11, <1>12, <1>13 DEF ContractInv
<1> QED  BY <1>8, <1>14, <1>15

-----------------------------------------------------------------------------
(* The invariant holds at first and is preserved by every step.            *)

LEMMA ContractInit == Init => ContractInv
<1> SUFFICES ASSUME Init PROVE ContractInv
  OBVIOUS
<1>1. /\ DOMAIN page = {} /\ DOMAIN pages = {} /\ DOMAIN actions = {} /\ DOMAIN out.objs = {}
      /\ dpc = "init" /\ listKey = 0
  BY DEF Init, NoObjects
<1> QED  BY <1>1 DEF ContractInv, RecordInv, ListedInv, SettledInv, ActionsInv, MergeOn

(* Each step preserves it.                                                 *)

LEMMA ContractNext == TypeOK /\ MergeInv /\ ContractInv /\ [Next]_vars => ContractInv'
<1> SUFFICES ASSUME TypeOK, MergeInv, ContractInv, [Next]_vars PROVE ContractInv'
  OBVIOUS
<1>1. CASE Fetcher
  BY <1>1, FetcherKeepsContract
<1>2. CASE Merger
  BY <1>2, BeginsKeepsContract, RunsOutKeepsContract, TakesKeepsContract,
     ReceivesKeepsContract, ChecksKeepsContract, CopiesKeepsContract, DropsKeepsContract
     DEF Merger, NextListObj
<1>3. CASE TakeAction \/ Cancel \/ ChangeSource \/ UNCHANGED vars
  BY <1>3, EnvironmentKeepsContract
<1> QED  BY <1>1, <1>2, <1>3 DEF Next, Finished

(* It holds in every state of a run with a sound listing.                  *)

LEMMA ContractInvariant == SoundListing => (Spec => []ContractInv)
<1> SUFFICES ASSUME SoundListing PROVE Spec => []ContractInv
  OBVIOUS
<1>1. TypeOK /\ MergeInv /\ ContractInv /\ [Next]_vars => ContractInv'
  BY ContractNext
<1>2. Spec => []MergeInv
  BY MergeInvariant
<1> QED  BY <1>1, <1>2, ContractInit, TypeCorrect, PTL DEF Spec

-----------------------------------------------------------------------------
(* The mapped contract.  No error is reported before the end.              *)

ErrorInv == dpc # "done" => derr = "none"

outcome == IF dpc # "done" THEN "running"
           ELSE IF derr = "none" THEN "complete" ELSE "failed"

(* The contract's operators say what the ones above say.                   *)

LEMMA SameContract ==
    /\ \A k \in Keys : Contract!Settled(k) <=> Settled(k)
    /\ \A a \in SyncAction : Contract!Justified(a) <=> Justified(a)
<1>1. \A k \in Keys : Contract!Settled(k) <=> Settled(k)
  BY DEF Contract!Settled, Settled
<1>2. \A a \in SyncAction : a.key \in Keys
  BY DEF SyncAction
<1>3. \A a \in SyncAction : Contract!Justified(a) <=> Justified(a)
  BY <1>2 DEF Contract!Justified, Justified
<1> QED  BY <1>1, <1>3

(* The cache snapshot is the contract's records, which never change.       *)

LEMMA SameRecords ==
    ASSUME UNCHANGED cache
    PROVE  [k \in Keys |-> Record(k)]' = [k \in Keys |-> Record(k)]
BY DEF Record

(* Steps the contract does not see.                                        *)

LEMMA Stutters ==
    ASSUME UNCHANGED <<history, cache, deletePropagation, ctxDone, actions, outcome>>
    PROVE  UNCHANGED Contract!cvars
BY SameRecords DEF Contract!cvars, outcome

(* An allowed action is the contract's EmitLast.                           *)

LEMMA EmitImplements ==
    ASSUME TypeOK, UNCHANGED <<history, cache, deletePropagation, ctxDone>>,
           dpc # "done", dpc' # "done",
           NEW a \in SyncAction, Allowed(a), Emit(a)
    PROVE  Contract!EmitLast
<1>1. actions' = Append(actions, a) /\ actions \in Seq(SyncAction)
  BY DEF Emit, TypeOK
<1>2. actions' # actions /\ actions'[Len(actions')] = a
  BY <1>1
<1>3. Contract!Justified(a) /\ \A k \in Keys : k < a.key => Contract!Settled(k)
  BY SameContract DEF Allowed
<1>4. Contract!EmitAction(a)
  BY <1>1, <1>3, SameRecords DEF Contract!EmitAction, Allowed
<1> QED  BY <1>2, <1>4 DEF Contract!EmitLast

(* The merge ends: with an error, or with every key settled.               *)

LEMMA EndImplements ==
    ASSUME ContractInv', ErrorInv,
           UNCHANGED <<history, cache, deletePropagation, ctxDone, actions>>,
           dpc # "done", dpc' = "done"
    PROVE  Contract!Complete \/ Contract!Fail
<1>1. CASE derr' = "none"
  <2>1. ctxDone \/ \A k \in Keys : Settled(k)'
    BY DEF ContractInv, SettledInv
  <2>2. \A k \in Keys : Settled(k)' <=> Settled(k)
    BY DEF Settled, Record
  <2>3. ctxDone \/ \A k \in Keys : Contract!Settled(k)
    BY <2>1, <2>2, SameContract
  <2> QED  BY <1>1, <2>3, SameRecords DEF Contract!Complete
<1>2. CASE derr' # "none"
  BY <1>2, SameRecords DEF Contract!Fail
<1> QED  BY <1>1, <1>2

(* A step of the merge is one of the contract, or none it sees.            *)

LEMMA MergerImplements ==
    ASSUME TypeOK, MergeInv, ContractInv, ContractInv', ErrorInv, Merger
    PROVE  [Contract!CNext]_(Contract!cvars) /\ ErrorInv'
<1>1. UNCHANGED <<history, cache, deletePropagation, ctxDone>> /\ dpc # "done"
  BY DEF Merger, NextListObj, CheckInitialError, AlreadyDone, TakeFromPage, ReceivePage,
         ReceiveClosed, ReceiveError, ReceiveCancel, CheckContext, CopyNew, DropCached,
         CompareCached, environment
<1>2. CASE CheckInitialError \/ CheckContext
  <2>1. UNCHANGED actions /\ (dpc' = "done" \/ UNCHANGED derr)
    BY <1>2 DEF CheckInitialError, CheckContext
  <2>2. CASE dpc' = "done"
    BY <1>1, <2>1, <2>2, EndImplements DEF Contract!CNext, ErrorInv
  <2>3. CASE dpc' # "done"
    BY <1>1, <2>1, <2>3, Stutters DEF outcome, ErrorInv
  <2> QED  BY <2>2, <2>3
<1>3. CASE NextListObj
  <2>1. UNCHANGED <<actions, derr>> /\ dpc' # "done"
    BY <1>1, <1>3 DEF NextListObj, AlreadyDone, TakeFromPage, ReceivePage, ReceiveClosed,
       ReceiveError, ReceiveCancel, NoListObject
  <2> QED  BY <1>1, <2>1, Stutters DEF outcome, ErrorInv
<1>4. CASE CopyNew \/ CompareCached \/ DropCached
  <2>1. UNCHANGED derr /\ dpc' # "done"
    BY <1>4 DEF CopyNew, CompareCached, DropCached
  <2>2. UNCHANGED actions \/ \E a : Emit(a) /\ Allowed(a)
    BY <1>4, CopiesKeepsContract, DropsKeepsContract
  <2>3. CASE UNCHANGED actions
    BY <1>1, <2>1, <2>3, Stutters DEF outcome, ErrorInv
  <2>4. CASE \E a : Emit(a) /\ Allowed(a)
    <3>1. PICK a \in SyncAction : Emit(a) /\ Allowed(a)
      BY <2>4 DEF Allowed
    <3> QED  BY <1>1, <2>1, <3>1, EmitImplements DEF Contract!CNext, ErrorInv
  <2> QED  BY <2>2, <2>3, <2>4
<1> QED  BY <1>2, <1>3, <1>4 DEF Merger

(* Every step of the differ is one of the contract, or none it sees.       *)

LEMMA StepImplements ==
    ASSUME TypeOK, MergeInv, ContractInv, ContractInv', ErrorInv, [Next]_vars
    PROVE  [Contract!CNext]_(Contract!cvars) /\ ErrorInv'
<1>1. CASE Merger
  BY <1>1, MergerImplements
<1>2. CASE Fetcher \/ TakeAction \/ Finished \/ UNCHANGED vars
  <2>1. UNCHANGED <<history, cache, deletePropagation, ctxDone, actions, dpc, derr>>
    BY <1>2 DEF Fetcher, ListFails, ListSucceeds, SendPage, AbandonPage, TakeAction,
                Finished, vars, environment, merger
  <2> QED  BY <2>1, Stutters DEF outcome, ErrorInv
<1>3. CASE Cancel
  <2>1. ctxDone' /\ UNCHANGED <<history, cache, deletePropagation, actions, dpc, derr>>
    BY <1>3 DEF Cancel, environment, merger
  <2>2. Contract!CancelRun
    BY <1>3, <2>1, SameRecords DEF Contract!CancelRun, Cancel
  <2> QED  BY <2>1, <2>2 DEF Contract!CNext, ErrorInv
<1>4. CASE ChangeSource
  <2>1. UNCHANGED <<cache, deletePropagation, ctxDone, actions, dpc, derr>>
    BY <1>4 DEF ChangeSource, merger
  <2>2. \A k \in Keys : history[k] \subseteq history'[k]
    BY <1>4 DEF ChangeSource, TypeOK
  <2>3. Contract!ClientsWrite
    BY <2>1, <2>2, SameRecords DEF Contract!ClientsWrite
  <2> QED  BY <2>1, <2>3 DEF Contract!CNext, ErrorInv
<1> QED  BY <1>1, <1>2, <1>3, <1>4 DEF Next

(* The initial states are the contract's.                                  *)

LEMMA InitImplements == Init => Contract!CInit /\ ErrorInv
<1> SUFFICES ASSUME Init PROVE Contract!CInit /\ ErrorInv
  OBVIOUS
<1>1. source \in [Keys -> Values] /\ history = [k \in Keys |-> {source[k]}]
  BY DEF Init
<1>2. history \in [Keys -> {{v} : v \in Metas \cup {Absent}}]
  BY <1>1 DEF Values
<1> QED  BY <1>2 DEF Init, Contract!CInit, ErrorInv

(* StreamingDiff keeps the promises of DiffContract to RunOnce: every      *)
(* action is justified by what the bucket held during the run, none comes  *)
(* before every smaller key is settled, and a run that ends without an     *)
(* error and was not cancelled has settled every key.                      *)

THEOREM Implementation == SoundListing => (Spec => ImplementsContract)
<1> SUFFICES ASSUME SoundListing PROVE Spec => ImplementsContract
  OBVIOUS
<1>1. TypeOK /\ MergeInv /\ ContractInv /\ ContractInv' /\ ErrorInv /\ [Next]_vars
        => [Contract!CNext]_(Contract!cvars) /\ ErrorInv'
  BY StepImplements
<1>2. (Spec => []MergeInv) /\ (Spec => []ContractInv)
  BY MergeInvariant, ContractInvariant
<1> QED  BY <1>1, <1>2, InitImplements, TypeCorrect, PTL
         DEF Spec, ImplementsContract, Contract!CSpec

-----------------------------------------------------------------------------
(* In a bucket nobody changes a justified action is a required one, and a  *)
(* key with a required action is settled only by that action.              *)

LEMMA JustifiedIsRequired ==
    ASSUME SourceUnchanged, NEW a \in SyncAction, Justified(a)
    PROVE  a \in RequiredActions
<1>1. a.key \in Keys /\ history[a.key] = {source[a.key]}
  BY DEF SyncAction, SourceUnchanged
<1>2. CASE a.type = "copy"
  <2>1. a = CopyOf(a.key, a.meta) /\ a.meta \in Metas
    BY <1>2 DEF SyncAction, CopyOf
  <2>2. a.meta = source[a.key] /\ Record(a.key) # a.meta /\ a.meta # Absent
    BY <1>1, <1>2, <2>1, MetasAssumption DEF Justified
  <2> QED  BY <1>1, <2>1, <2>2 DEF RequiredActions
<1>3. CASE a.type = "delete"
  <2>1. a = DeleteOf(a.key)
    BY <1>3 DEF SyncAction, DeleteOf
  <2>2. deletePropagation /\ source[a.key] = Absent /\ Record(a.key) # Absent
    BY <1>1, <1>3 DEF Justified
  <2> QED  BY <1>1, <2>1, <2>2 DEF RequiredActions
<1> QED  BY <1>2, <1>3 DEF SyncAction

(* A required action whose key is settled has been emitted.                *)

LEMMA SettledIsDone ==
    ASSUME TypeOK, SourceUnchanged, Elements(actions) \subseteq RequiredActions,
           NEW a \in RequiredActions, Settled(a.key)
    PROVE  a \in Elements(actions)
<1>1. /\ a.key \in Keys
      /\ \/ a = CopyOf(a.key, source[a.key]) /\ source[a.key] \notin {Absent, Record(a.key)}
         \/ /\ a = DeleteOf(a.key) /\ deletePropagation
            /\ source[a.key] = Absent /\ Record(a.key) # Absent
  BY DEF RequiredActions, CopyOf, DeleteOf
<1>2. history[a.key] = {source[a.key]}
  BY <1>1 DEF SourceUnchanged
<1>3. PICK i \in DOMAIN actions : actions[i].key = a.key
  BY <1>1, <1>2 DEF Settled
<1>4. actions[i] \in RequiredActions
  BY <1>3 DEF Elements
<1>5. \/ actions[i] = CopyOf(a.key, source[a.key]) /\ source[a.key] # Absent
      \/ actions[i] = DeleteOf(a.key) /\ source[a.key] = Absent
  BY <1>3, <1>4 DEF RequiredActions, CopyOf, DeleteOf
<1>6. actions[i] = a
  BY <1>1, <1>5
<1> QED  BY <1>3, <1>6 DEF Elements

(* What StreamingDiff sends for a bucket nobody changes is what comparing  *)
(* the two full listings requires: a part that misses no smaller key while *)
(* it runs, and all of it when it was not cancelled.                       *)

THEOREM OnlyRequired == SoundListing => (Spec => []ActionsAreRequired)
<1> SUFFICES ASSUME SoundListing PROVE Spec => []ActionsAreRequired
  OBVIOUS
<1>1. TypeOK /\ ContractInv => ActionsAreRequired
  <2> SUFFICES ASSUME TypeOK, ContractInv, SourceUnchanged
               PROVE  /\ Elements(actions) \subseteq RequiredActions
                      /\ \A i \in DOMAIN actions : \A a \in RequiredActions :
                            a.key < actions[i].key => a \in Elements(actions)
                      /\ dpc = "done" /\ ~ctxDone => RequiredActions \subseteq Elements(actions)
    BY DEF ActionsAreRequired
  <2>1. Elements(actions) \subseteq RequiredActions
    <3>1. \A i \in DOMAIN actions : actions[i] \in SyncAction /\ Justified(actions[i])
      BY DEF TypeOK, ContractInv, ActionsInv
    <3> QED  BY <3>1, JustifiedIsRequired DEF Elements
  <2>2. \A a \in RequiredActions : a.key \in Keys
    BY DEF RequiredActions, CopyOf, DeleteOf
  <2>3. ASSUME NEW i \in DOMAIN actions, NEW a \in RequiredActions, a.key < actions[i].key
        PROVE  a \in Elements(actions)
    <3>1. Settled(a.key)
      BY <2>2, <2>3 DEF ContractInv, ActionsInv
    <3> QED  BY <2>1, <3>1, SettledIsDone
  <2>4. ASSUME dpc = "done", ~ctxDone, NEW a \in RequiredActions
        PROVE  a \in Elements(actions)
    <3>1. Settled(a.key)
      BY <2>2, <2>4 DEF ContractInv, SettledInv
    <3> QED  BY <2>1, <3>1, SettledIsDone
  <2> QED  BY <2>1, <2>3, <2>4
<1> QED  BY <1>1, TypeCorrect, ContractInvariant, PTL

=============================================================================
