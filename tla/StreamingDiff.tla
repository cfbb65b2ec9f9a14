---------------------------- MODULE StreamingDiff ----------------------------
(***************************************************************************)
(* StreamingDiff of internal/sync/differ.go: a background goroutine lists  *)
(* the source bucket page by page into a channel of capacity two, and the  *)
(* caller merges the listed objects with a cursor over the cache of the    *)
(* previous syncs, writing COPY and DELETE actions to a bounded channel.   *)
(*                                                                         *)
(* Keys are positive integers (their order is the byte order of the S3     *)
(* keys; 0 stands for the empty string).  A member of Metas is the pair    *)
(* (ETag, LastModified) the merge compares.  A channel whose history       *)
(* matters is a sequence that only grows, with the number of elements      *)
(* taken from it.                                                          *)
(***************************************************************************)
EXTENDS Integers, Sequences, FiniteSetsExt

CONSTANTS
    Keys,          \* the object keys that may exist
    Metas,         \* the (ETag, LastModified) pairs a listing shows
    Absent,        \* no object, no cache record
    Blank,         \* a cache record with an empty ETag (see SyncRun)
    Corrupt,       \* a cache record json.Unmarshal refuses
    CacheRecords,  \* what the cache may hold for a key when the run starts
    PageSize,      \* maxS3Keys
    ActionCap,     \* capacity of the actions channel (10000 in RunOnce)
    PageCap,       \* capacity of the pages channel (2)
    Faults         \* what the environment may do, a subset of FaultKinds

FaultKinds ==
    {"listError",     \* a LIST fails although the run is not cancelled
     "shortPage",     \* a truncated page of fewer than PageSize keys
     "repeatPage",    \* a page from a position before the token
     "cancel",        \* Stop, shutdown or the five minutes of RunOnce
     "sourceChange"}  \* clients write and delete while the run lists

ASSUME KeysAssumption  == Keys \subseteq Nat \ {0} /\ IsFiniteSet(Keys)
ASSUME MetasAssumption == {Absent, Blank, Corrupt} \cap Metas = {}
ASSUME MarksAssumption == Absent # Blank /\ Absent # Corrupt /\ Blank # Corrupt
ASSUME CacheAssumption == CacheRecords \subseteq Metas \cup {Absent, Blank, Corrupt}
ASSUME CapsAssumption  == /\ PageSize \in Nat \ {0}
                          /\ ActionCap \in Nat \ {0}
                          /\ PageCap \in Nat \ {0}
ASSUME FaultsAssumption == Faults \subseteq FaultKinds

VARIABLES
    source,            \* the source bucket: what each key holds
    history,           \* (history) what each key has held since the run began
    cache,             \* the snapshot the cursor's read transaction sees
    deletePropagation,
    ctxDone,           \* the run's context is cancelled
    fpc, token, prevToken, seenMaxKey, out, listCalls,   \* the page fetcher
    pages, errCh,                                        \* its two channels
    dpc, page, pageLast, listDone, listKey, listMeta, cacheKey, derr,
    actions, taken

environment == <<source, history, cache, deletePropagation>>
fetcher == <<fpc, token, prevToken, seenMaxKey, out, listCalls>>
merger  == <<dpc, page, pageLast, listDone, listKey, listMeta, cacheKey, derr>>
vars == <<environment, ctxDone, fetcher, pages, errCh, merger, actions, taken>>

KeyOrNone == Keys \cup {0}
Values    == Metas \cup {Absent}
Objects   == UNION {[S -> Metas] : S \in SUBSET Keys}
NoObjects == [k \in {} |-> Absent]
Page      == [objs : Objects, last : BOOLEAN]

SyncAction == [type : {"copy"}, key : Keys, meta : Metas]
                \cup [type : {"delete"}, key : Keys, meta : {Blank}]


-----------------------------------------------------------------------------
(* The cache cursor: CacheCursor.Next returns false at the end of the      *)
(* bucket and at a record it cannot decode.                                *)

NextCached(k) ==
    LET rest == {j \in Keys : j > k /\ cache[j] # Absent}
    IN  IF rest = {} \/ cache[Min(rest)] = Corrupt THEN 0 ELSE Min(rest)

(* One page of ListObjectsV2: the keys after a position, PageSize of them  *)
(* or all that are left.                                                   *)

KeysAfter(from) == {k \in Keys : k > from /\ source[k] # Absent}

PagesAfter(from) ==
    {S \in {{k \in KeysAfter(from) : k <= bound} : bound \in KeyOrNone} :
        /\ Cardinality(S) <= PageSize
        /\ S = {} => KeysAfter(from) = {}
        /\ S # KeysAfter(from) /\ "shortPage" \notin Faults
             => Cardinality(S) = PageSize}

Positions == IF "repeatPage" \in Faults
             THEN {p \in KeyOrNone : p <= token} ELSE {token}

Init ==
    /\ source \in [Keys -> Values]
    /\ history = [k \in Keys |-> {source[k]}]
    /\ cache \in [Keys -> CacheRecords]
    /\ deletePropagation \in BOOLEAN
    /\ ctxDone = FALSE
    /\ fpc = "list" /\ token = 0 /\ prevToken = 0 /\ seenMaxKey = 0
    /\ out = [objs |-> NoObjects, last |-> FALSE]
    /\ listCalls = 0
    /\ pages = <<>> /\ errCh = "empty"
    /\ dpc = "init" /\ page = NoObjects /\ pageLast = FALSE /\ listDone = FALSE
    /\ listKey = 0 /\ listMeta = Absent /\ cacheKey = 0 /\ derr = "none"
    /\ actions = <<>> /\ taken = 0

-----------------------------------------------------------------------------
(* The page fetcher.  Its deferred close(pages) belongs to the step that   *)
(* returns: pages is closed exactly when fpc is "done".                    *)

ListFails ==
    /\ fpc = "list"
    /\ ctxDone \/ "listError" \in Faults
    /\ errCh' = "full"
    /\ fpc' = "done"
    /\ listCalls' = listCalls + 1
    /\ UNCHANGED <<environment, ctxDone, token, prevToken, seenMaxKey, out,
                   pages, merger, actions, taken>>

(* isTruncated, nextToken and the four conditions that make a page last    *)

LastPageEveryFull(S, truncated, nextToken) ==   \* seeded: <= for <
    ~truncated \/ Cardinality(S) <= PageSize

LastPageNoRepeatGuard(S, truncated, nextToken) ==   \* seeded: no seenMaxKey
    ~truncated \/ Cardinality(S) < PageSize \/ nextToken = prevToken

LastPage(S, truncated, nextToken) ==
    \/ ~truncated
    \/ Cardinality(S) < PageSize
    \/ nextToken = prevToken
    \/ seenMaxKey # 0 /\ Min(S) <= seenMaxKey

ListSucceeds ==
    /\ fpc = "list"
    /\ listCalls' = listCalls + 1
    /\ \E from \in Positions : \E S \in PagesAfter(from) :
         \/ /\ S = {}
            /\ fpc' = "done"
            /\ UNCHANGED <<prevToken, seenMaxKey, out>>
         \/ /\ S # {}
            /\ LET truncated == S # KeysAfter(from)
                   nextToken == IF truncated THEN Max(S) ELSE 0
               IN  /\ out' = [objs |-> [k \in S |-> source[k]],
                              last |-> LastPage(S, truncated, nextToken)]
                   /\ seenMaxKey' = IF Max(S) > seenMaxKey
                                    THEN Max(S) ELSE seenMaxKey
                   /\ prevToken' = nextToken
            /\ fpc' = "send"
    /\ UNCHANGED <<environment, ctxDone, token, pages, errCh, merger,
                   actions, taken>>

SendPage ==
    /\ fpc = "send"
    /\ Len(pages) < PageCap
    /\ pages' = Append(pages, out)
    /\ token' = prevToken
    /\ fpc' = IF out.last THEN "done" ELSE "list"
    /\ UNCHANGED <<environment, ctxDone, prevToken, seenMaxKey, out, listCalls,
                   errCh, merger, actions, taken>>

AbandonPage ==
    /\ fpc = "send"
    /\ ctxDone
    /\ fpc' = "done"
    /\ UNCHANGED <<environment, ctxDone, token, prevToken, seenMaxKey, out,
                   listCalls, pages, errCh, merger, actions, taken>>

Fetcher == ListFails \/ ListSucceeds \/ SendPage \/ AbandonPage

-----------------------------------------------------------------------------
(* The caller: the non-blocking look at errCh, then the merge loop.        *)

CheckInitialError ==
    /\ dpc = "init"
    /\ \/ /\ errCh = "full"
          /\ errCh' = "received"
          /\ derr' = "list"
          /\ dpc' = "done"
          /\ UNCHANGED cacheKey
       \/ /\ errCh # "full"
          /\ cacheKey' = NextCached(0)
          /\ dpc' = "next"
          /\ UNCHANGED <<errCh, derr>>
    /\ UNCHANGED <<environment, ctxDone, fetcher, pages, page, pageLast,
                   listDone, listKey, listMeta, actions, taken>>

(* nextListObj returns (nil, false)                                        *)

NoListObject ==
    /\ listKey' = 0
    /\ listMeta' = Absent
    /\ dpc' = "check"

AlreadyDone ==
    /\ dpc = "next" /\ listDone
    /\ NoListObject
    /\ UNCHANGED <<environment, ctxDone, fetcher, pages, errCh, page, pageLast,
                   listDone, cacheKey, derr, actions, taken>>

TakeFromPage ==
    /\ dpc = "next" /\ ~listDone
    /\ DOMAIN page # {}
    /\ LET k == Min(DOMAIN page) IN
         /\ listKey' = k
         /\ listMeta' = page[k]
         /\ page' = [j \in DOMAIN page \ {k} |-> page[j]]
         /\ listDone' = (DOMAIN page = {k} /\ pageLast)
    /\ dpc' = "check"
    /\ UNCHANGED <<environment, ctxDone, fetcher, pages, errCh, pageLast,
                   cacheKey, derr, actions, taken>>

(* the select of nextListObj: any ready case may be taken                  *)

ReceivePage ==
    /\ dpc = "next" /\ ~listDone /\ DOMAIN page = {}
    /\ pages # <<>>
    /\ page' = Head(pages).objs
    /\ pageLast' = Head(pages).last
    /\ pages' = Tail(pages)
    /\ UNCHANGED <<environment, ctxDone, fetcher, errCh, dpc, listDone, listKey,
                   listMeta, cacheKey, derr, actions, taken>>

ReceiveClosedNever == FALSE   \* seeded: the receive ignores ok = false

ReceiveClosed ==
    /\ dpc = "next" /\ ~listDone /\ DOMAIN page = {}
    /\ pages = <<>> /\ fpc = "done"
    /\ listDone' = TRUE
    /\ NoListObject
    /\ UNCHANGED <<environment, ctxDone, fetcher, pages, errCh, page, pageLast,
                   cacheKey, derr, actions, taken>>

ReceiveError ==
    /\ dpc = "next" /\ ~listDone /\ DOMAIN page = {}
    /\ errCh = "full"
    /\ errCh' = "received"
    /\ NoListObject
    /\ UNCHANGED <<environment, ctxDone, fetcher, pages, page, pageLast,
                   listDone, cacheKey, derr, actions, taken>>

ReceiveCancel ==
    /\ dpc = "next" /\ ~listDone /\ DOMAIN page = {}
    /\ ctxDone
    /\ NoListObject
    /\ UNCHANGED <<environment, ctxDone, fetcher, pages, errCh, page, pageLast,
                   listDone, cacheKey, derr, actions, taken>>

NextListObj == \/ AlreadyDone \/ TakeFromPage \/ ReceivePage
               \/ ReceiveClosed \/ ReceiveError \/ ReceiveCancel

CheckContextNever ==   \* seeded: the loop does not look at ctx.Err
    /\ dpc = "check"
    /\ dpc' = IF listKey = 0 /\ cacheKey = 0 THEN "done" ELSE "merge"
    /\ UNCHANGED <<environment, ctxDone, fetcher, pages, errCh, page, pageLast,
                   listDone, listKey, listMeta, cacheKey, derr, actions, taken>>

CheckContext ==
    /\ dpc = "check"
    /\ \/ /\ listKey = 0 /\ cacheKey = 0
          /\ dpc' = "done"
          /\ UNCHANGED derr
       \/ /\ listKey # 0 \/ cacheKey # 0
          /\ ctxDone
          /\ derr' = "ctx"
          /\ dpc' = "done"
       \/ /\ listKey # 0 \/ cacheKey # 0
          /\ ~ctxDone
          /\ dpc' = "merge"
          /\ UNCHANGED derr
    /\ UNCHANGED <<environment, ctxDone, fetcher, pages, errCh, page, pageLast,
                   listDone, listKey, listMeta, cacheKey, actions, taken>>

EmitWithoutRoom(a) == actions' = Append(actions, a)   \* seeded: no capacity

Emit(a) ==
    /\ Len(actions) - taken < ActionCap
    /\ actions' = Append(actions, a)

CopyOf(k, m) == [type |-> "copy", key |-> k, meta |-> m]
DeleteOf(k)  == [type |-> "delete", key |-> k, meta |-> Blank]

CopyNew ==
    /\ dpc = "merge"
    /\ listKey # 0
    /\ cacheKey = 0 \/ listKey < cacheKey
    /\ Emit(CopyOf(listKey, listMeta))
    /\ dpc' = "next"
    /\ UNCHANGED <<environment, ctxDone, fetcher, pages, errCh, page, pageLast,
                   listDone, listKey, listMeta, cacheKey, derr, taken>>

DropCached ==
    /\ dpc = "merge"
    /\ cacheKey # 0
    /\ listKey = 0 \/ cacheKey < listKey
    /\ IF deletePropagation THEN Emit(DeleteOf(cacheKey)) ELSE UNCHANGED actions
    /\ cacheKey' = NextCached(cacheKey)
    /\ dpc' = "check"
    /\ UNCHANGED <<environment, ctxDone, fetcher, pages, errCh, page, pageLast,
                   listDone, listKey, listMeta, derr, taken>>

CompareKeepsRecord ==   \* seeded: cacheCur.Next() missing in the equal branch
    /\ dpc = "merge"
    /\ listKey # 0 /\ cacheKey = listKey
    /\ IF cache[cacheKey] # listMeta
       THEN Emit(CopyOf(listKey, listMeta)) ELSE UNCHANGED actions
    /\ dpc' = "next"
    /\ UNCHANGED <<environment, ctxDone, fetcher, pages, errCh, page, pageLast,
                   listDone, listKey, listMeta, cacheKey, derr, taken>>

CompareCached ==
    /\ dpc = "merge"
    /\ listKey # 0 /\ cacheKey = listKey
    /\ IF cache[cacheKey] # listMeta
       THEN Emit(CopyOf(listKey, listMeta)) ELSE UNCHANGED actions
    /\ cacheKey' = NextCached(cacheKey)
    /\ dpc' = "next"
    /\ UNCHANGED <<environment, ctxDone, fetcher, pages, errCh, page, pageLast,
                   listDone, listKey, listMeta, derr, taken>>

Merger == \/ CheckInitialError \/ NextListObj \/ CheckContext
          \/ CopyNew \/ DropCached \/ CompareCached

-----------------------------------------------------------------------------
(* The environment: the consumer of the actions channel (the worker pool   *)
(* or the dry-run loop), cancellation, and the clients of the bucket.      *)

TakeAction ==
    /\ taken < Len(actions)
    /\ taken' = taken + 1
    /\ UNCHANGED <<environment, ctxDone, fetcher, pages, errCh, merger, actions>>

Cancel ==
    /\ "cancel" \in Faults
    /\ ~ctxDone
    /\ ctxDone' = TRUE
    /\ UNCHANGED <<environment, fetcher, pages, errCh, merger, actions, taken>>

ChangeSource ==
    /\ "sourceChange" \in Faults
    /\ \E k \in Keys, v \in Values :
         /\ source' = [source EXCEPT ![k] = v]
         /\ history' = [history EXCEPT ![k] = @ \cup {v}]
    /\ UNCHANGED <<cache, deletePropagation, ctxDone, fetcher, pages, errCh,
                   merger, actions, taken>>

Finished ==
    /\ fpc = "done" /\ dpc = "done" /\ taken = Len(actions)
    /\ UNCHANGED vars

Next == \/ Fetcher \/ Merger \/ TakeAction \/ Cancel \/ ChangeSource \/ Finished

Spec == Init /\ [][Next]_vars

(* Every LIST ends within its 30 s context; the merger and the consumer    *)
(* are goroutines that run whenever they can.  Cancellation is never       *)
(* assumed.                                                                *)

FairSpec == Spec /\ WF_vars(Fetcher) /\ WF_vars(Merger) /\ WF_vars(TakeAction)

-----------------------------------------------------------------------------
(* Properties.                                                             *)

Elements(s) == {s[i] : i \in DOMAIN s}

(* The types, and the bounds of the two channels: the fetcher never runs   *)
(* more than PageCap pages ahead and the merger never has more than        *)
(* ActionCap actions that nobody took.                                     *)

TypeOK ==
    /\ source \in [Keys -> Values]
    /\ history \in [Keys -> SUBSET Values]
    /\ cache \in [Keys -> CacheRecords]
    /\ deletePropagation \in BOOLEAN
    /\ ctxDone \in BOOLEAN
    /\ fpc \in {"list", "send", "done"}
    /\ token \in KeyOrNone /\ prevToken \in KeyOrNone
    /\ seenMaxKey \in KeyOrNone
    /\ out \in Page
    /\ listCalls \in Nat
    /\ pages \in Seq(Page) /\ Len(pages) <= PageCap
    /\ errCh \in {"empty", "full", "received"}
    /\ dpc \in {"init", "next", "check", "merge", "done"}
    /\ page \in Objects
    /\ pageLast \in BOOLEAN /\ listDone \in BOOLEAN
    /\ listKey \in KeyOrNone
    /\ listMeta \in Values
    /\ listKey # 0 => listMeta \in Metas
    /\ cacheKey \in KeyOrNone
    /\ derr \in {"none", "ctx", "list"}
    /\ actions \in Seq(SyncAction)
    /\ taken \in 0 .. Len(actions) /\ Len(actions) - taken <= ActionCap

(* A DELETE is only ever emitted for a key the source bucket did not hold  *)
(* at some moment of this very run, whatever the interleaving of listing,  *)
(* merging, cancellation and client writes.                                *)

DeleteOnlyIfAbsent ==
    \A i \in DOMAIN actions :
        actions[i].type = "delete" => Absent \in history[actions[i].key]

(* Two workers never hold actions for the same key, and the actions come   *)
(* in key order: the merge passes each key once.                           *)

OneActionPerKey ==
    \A i, j \in DOMAIN actions : i < j => actions[i].key < actions[j].key

(* The reference result for a bucket nobody changes: what the two full     *)
(* listings, sorted and compared, require.  The cursor shows the records   *)
(* below the first it cannot decode.                                       *)

Record(k) == IF \E j \in Keys : j <= k /\ cache[j] = Corrupt
             THEN Absent ELSE cache[k]

RequiredActions ==
    {CopyOf(k, source[k]) : k \in {j \in Keys : source[j] \notin {Absent, Record(j)}}}
      \cup IF deletePropagation
           THEN {DeleteOf(k) : k \in {j \in Keys : source[j] = Absent
                                                   /\ Record(j) # Absent}}
           ELSE {}

(* As long as no client has changed the bucket during the run the actions  *)
(* are the least required ones, and a run that was not cancelled ends with *)
(* all of them: prefetching, page boundaries and the three-way merge lose  *)
(* no key, invent none, and a cancelled run has done a prefix of the work. *)

SourceUnchanged == \A k \in Keys : history[k] = {source[k]}

ActionsAreRequired ==
    SourceUnchanged =>
      /\ Elements(actions) \subseteq RequiredActions
      /\ \A i \in DOMAIN actions : \A a \in RequiredActions :
            a.key < actions[i].key => a \in Elements(actions)
      /\ dpc = "done" /\ ~ctxDone => Elements(actions) = RequiredActions

(* The guards against a listing that does not advance (a repeated token,   *)
(* a first key already seen) end it: every LIST but the last finds a key   *)
(* beyond all earlier ones.                                                *)

ListCallsBounded == listCalls <= Cardinality(Keys) + 1

(* Both goroutines end: the merge returns and the fetcher does not stay    *)
(* behind on a full channel.                                               *)

Terminates == <>[](dpc = "done" /\ fpc = "done")

(* The contract the caller may rely on.                                    *)

Contract == INSTANCE DiffContract WITH
    records   <- [k \in Keys |-> Record(k)],
    deletes   <- deletePropagation,
    cancelled <- ctxDone,
    emitted   <- actions,
    outcome   <- IF dpc # "done" THEN "running"
                 ELSE IF derr = "none" THEN "complete" ELSE "failed"

ImplementsContract == Contract!CSpec

=============================================================================
