# A TLA+ verification project for S3sync

S3sync mirrors S3 buckets in pairs: a server (or a one-shot command) lists a
source bucket, compares the listing with a local record of what was synced
before, and has S3 copy and delete objects in the target bucket. This directory
holds TLA+ models of the parts of it that are concurrent or that keep state over
failures, the TLC instances that check them, and TLAPS proofs about the core.

Contents

1. The system: components, state, operations, interactions
2. Modules and how they correspond to the code
3. The runs: what each checks and shows, and its bounds
4. Fairness
5. Proofs
6. Disagreements between the code and what is said of it
7. What is not modelled
8. Plan

## 1. The system

| Component | State | Operations | Interacts with |
|---|---|---|---|
| Streaming differ, `internal/sync/differ.go` | two goroutines, channel of pages (capacity 2), channel of one error, read transaction on the cache, listing and cache positions | list a page, send it, `nextListObj`, merge step | reads the source bucket and the cache; writes the actions channel of the pool |
| Worker pool, `internal/sync/worker.go` | workers, unbuffered results channel, result totals, `Progress` | take, HEAD/COPY/DELETE with retries, report, count | target bucket, throttler; results go to the cycle |
| Sync cycle, `Engine.RunOnce` of `engine.go` | running flag, cancel function, status, the pair's row it was made with | build clients, run differ and pool, dry-run loop, `PutMany`, webhook | all of the above |
| Cache store, `internal/cache/store.go` | one bbolt bucket per pair, in a file bbolt locks for one process | `Open`, `Close`, `PutMany`, cursor, `Clear` (`Put`, `Delete`, `List` unused) | written by the cycle, cleared by reset, one process at a time |
| Pair control, `internal/api/router.go`, `handlers.go`, `cmd/serve.go` | map of engines, one loop goroutine per engine, the row of the pair | start a loop, timer tick, `afterSync`, sync now, pause/resume, reset, edit, delete, SIGTERM | engines, repository |
| Setup wizard (web), `internal/config/setup.go`, `handlers.go`, `app.js`, `setup.html` | sessions in a map, step and chosen buckets of each; step of the browser tab | `Apply` per form, Back, lost replies | repository |
| Configuration repository, `internal/config/repo.go` | SQLite tables | row-wise reads and full-row updates | everybody |
| Target setup, `internal/sync/setup.go` | the bucket itself, in S3 | look for the bucket; create it, enable versioning and object lock; or compare what is there | once per engine, before its first cycle |
| Bucket credentials, `internal/config/encrypt.go`, `repo.go`, `cmd/bucket.go` | two columns of a bucket's row, encrypted or not | add, update, delete (commands); create, update, delete (API) | engines read them when they are made |
| Processes: `cmd/serve.go`, `internal/sync/run.go` | lock of the cache file, root context | open, run loops or one cycle, stop at SIGTERM, close, die | share cache, database and target |
| Throttler, `internal/sync/throttler.go` | token bucket | wait | workers, fetcher |
| Commands on pairs, `cmd/pair.go` | none | update and delete a pair's row behind the server's back | repository |
| Auth, web pages, webhook, logging, S3 client | none that matters here | | |

What is hard about it, and what makes each part correct:

* **Differ.** The fetcher runs up to three pages ahead of a merge that works on
  a snapshot of the cache while clients change the bucket, and cancellation,
  timeouts and list errors reach the merge as "no more objects". A key that is
  wrongly believed missing is *deleted from the target*. So: deletes are
  justified, each key is acted upon once and in order, nothing required is
  lost, LIST calls are bounded, both goroutines end.
* **Pool.** Requests fail after S3 performed them, are retried, time out or are
  cancelled on one worker while others go on. So: each action is reported once,
  a reported success is true, the counters agree, `Run` returns.
* **Cycle and cache.** What one cycle records decides what later cycles skip; a
  crash or a failed `PutMany` can separate work from record. So: a skipped
  object is in place, and failed work is done by a later cycle.
* **Pair control.** Loops and handlers read, change and write a whole row
  without transactions, and `RunOnce` and `Stop` share flags under separate
  critical sections. So: error count and status agree, flags belong to live
  runs, loops of deleted or stopped pairs end, a pause stays, one run at a time.
* **Wizard.** Requests carry no step number and a session is not locked between
  its database calls, while buckets it has chosen may be deleted. So: no nil
  bucket is used, the tables grow row by row with unique names, a session that
  nothing upset pairs what its forms named.
* **Target setup.** Several engines may have one target, each asks S3 in a
  series of requests that may take effect although they fail, and any of them
  may be killed in between. So: a setup that logs nothing left the bucket the
  row asks for as far as the code looks, a bucket somebody else created is left
  alone, and one the program created gets configured unless its creation was
  interrupted.
* **Bucket credentials.** Processes with and without the master key read and
  write whole rows. So: a credential is never encrypted twice nor written back
  in a form no later reader understands.
* **Processes.** A server that stops does not wait for its loops, while `Close`
  of the cache waits for open cursors and transactions wait for `Close`. So: no
  two processes sync at once over one cache, and whatever is told to stop stops.

`PROJECT.json` lists every component with its status and every hazard with the
line where it bites and the properties that watch it.

## 2. Modules

    StreamingDiff  -- implements -->  DiffContract
         ^                                ^ INSTANCE
         |                             SyncRun  -- extends -->  WorkerPool
         |                                ^                        ^
    StreamingDiffProofs  <--.             |                        |
                     DiffContractProofs   SyncRunProofs  -->  WorkerPoolProofs

    SyncRun  -- implements -->  Mirror

    SetupWizard  -- implements -->  Catalog

    PairServer  <--  PairServerProofs

    SetupWizard  <--  SetupWizardProofs  <--  SetupFormsProofs

    TargetSetup, BucketTable  <--  Processes  <--  ProcessesProofs

An arrow without a name is EXTENDS.
Each specification that is run has an `MC...` module with values for its constants.

**`StreamingDiff`** is `StreamingDiff` of `differ.go` with the S3 listing, the
cursor and the bucket's clients as environment. The page fetcher is `ListFails`,
`ListSucceeds` (whose `LastPage` holds the four conditions that end a listing),
`SendPage` and `AbandonPage`; the deferred `close(pages)` is part of the step
that returns, so the channel is closed exactly when `fpc = "done"`. The merger is
`CheckInitialError`, the six outcomes of `nextListObj` (its `select` takes any
ready case), `CheckContext`, and the three branches of the merge `CopyNew`,
`DropCached` and `CompareCached`. Keys are positive integers; a pair (ETag,
LastModified) is one value; the cache may hold a valid record, none, the blank
record a deletion leaves, or one that does not decode (`CacheCursor.Next` then
ends the cursor). `Faults` says which misbehaviour of the environment a run
allows. A finished run repeats its last state (`Finished`).

**`DiffContract`** is what a caller of the differ may rely on, without pages,
channels or goroutines: at most one action per key in key order, each justified
by something the bucket held during the run, none before every smaller key is
settled, and every key settled at the end unless the run was cancelled.
`StreamingDiff!Contract` is the refinement mapping.

**`WorkerPool`** is `WorkerPool.Run`, `copyObject`, `deleteObject` and `retryS3`.
A call is begun (`BeginCall`), then answered, failed or aborted; a failing call
may have taken effect. Handing a result over the unbuffered channel is one step
with the collector, counting it in `Progress` is another. `copyObject`'s HEAD of
an absent key is an error, as in the code. COPY writes whatever the source holds
when S3 performs it. The rest of an attempt that is neither failed nor answered
(the wait in the throttler, the delay between attempts) is time.

**`SyncRun`** is `RunOnce`, cycle after cycle. The differ is its contract, the
pool is `WorkerPool` itself, `RunCompletes` records what succeeded (`PutMany`, one
transaction, whose failure is only logged). Clients write between and during
cycles, a cycle may be cancelled, the first LIST may fail in time for the differ's look at
`errCh` (`ListFails`; later failures are `diff_list_error`'s subject and excluded here,
as in the contract), the process may crash with requests at S3, and
the `Clear` of a reset may come at any moment, also before the `PutMany` of a run
that was told to stop.

**`Mirror`** is what those cycles promise of the two things that last, the target
and the cache, with no queue, worker or retry in it: during a cycle a key of the
target becomes what the source holds at that moment, or disappears, and only for
a reason the cycle has seen since it began; when the cycle ends, the cache learns
only of what was seen and is in place; a dry run copies and deletes nothing (it
still sets the target up and lists the source). The LIST failures the differ drops
are excluded, as in its contract: `diff_list_error` shows that the code then deletes
without such a reason. `SyncRun!M` is
the refinement mapping: all of a cycle's channel, HEADs, retries and results are
stutters of `Mirror`, and `working` is what lies between the begin and the end of a
cycle.

**`PairServer`** is one pair in the server. Process `e \in Engines` is the loop
goroutine of the e-th engine made; a request is the handler of a click. Every
database call and every critical section is a step. A run is abstracted to
"takes a while, ends ok or error, may be cancelled". Requests: `toggle`
(pause/resume), `reset`, `delete`, `trigger` (Sync Now, with its goroutine),
`edit`; and the commands of another process, which know the row only: `update`
(`pair update`, with or without `--enabled`), `drop` (`pair delete`, which stops no
engine) and `sync` (the row a one-shot sync reads first and writes back after
its cycle, `LoadCommand`, `OneShot`). `createEngine` is two steps, its reads (`ReadPair`,
which also fail when a bucket's row is gone or cannot be decrypted) and the
registration (`StartLoop`, or `UseEngine` for a trigger), so two requests that both
find no engine make two, and the later replaces the earlier in the map. The row
is at first any that `ErrorsAgree` allows, as after a restart; a pair created while
the server runs, or whose engine could not be made, has no loop. `Terminate` is
SIGTERM.

**`SetupWizard`** is the wizard from tab to tables: the tab's forms and Back
button, the handler up to each database call, the UNIQUE names, the session that
moves to the step after the one the request *read*, the reply that tells the
tab the step the session has *by then*. Replies get lost, the server restarts,
two tabs compete for names, and buckets are deleted (`DeleteBucket`) although a
session or a pair refers to them. `disturbed` records the sessions a lost reply, a
Back, a restart, a raw API request or the deletion of a bucket they hold may have
upset.

**`Catalog`** is what all of that does to the two tables: rows are added one at a
time, no id is used twice, not even after a deletion, no name is stored twice, a
pair joins two buckets that are or were stored and is named after them if its form
left the name blank. That a pair's buckets are still stored cannot be promised: see
section 6.

**`TargetSetup`** is `SetupTargetBucket` of `setup.go`, per engine: `setupPc` is the
request an engine sends next, `Head` the look for the bucket, `CreateBucket`,
`PutVersioning` and `PutObjectLock` what `createAndConfigureBucket` does, in its
order, `GetVersioning` and `GetObjectLock` what `warnIfMismatch` asks of a bucket
that exists. `RequestFails` is every `return fmt.Errorf`, with the request
performed or not; `CreateRefused` is the answer to the creation of a bucket that has
come to exist since HEAD, which some regions give and others (`lenient`: us-east-1)
do not; `ForeignCreate` is somebody else of the account who creates it, configured as
they like; `KillSetups` is the end of engines, of one that is replaced or
of all of a process. `target` is the configuration S3 has; what S3 makes of a
request (`Created`, `Versioned`, `LockedAs`) and refuses (`LockGranted`) is external
to the code. `warned` stands for the warnings, `interrupted` for a creation that
failed or was killed between its requests.

**`BucketTable`** is one bucket's row, reduced to a credential: its text (what was
typed in, or blank) and the number of times it is encrypted. `Encrypted` and
`Decrypted` are `Encrypt` and `decryptCreds`, which leaves alone what it cannot
decrypt. `ReadBucket` and `WriteBucket` are the two database calls of `bucket update`;
`PutBucket` is the API's update, whose body cannot carry credentials (`json:"-"`).
Each process has the master key or not; those that have it have the same.

**`Processes`** composes both with the processes that share a configuration
directory. A process is `off`, `opening` (waiting for the lock of `cache.db`), `up`,
`closing` (in `Close`) or `closed`; an engine's `cycle` goes through setup, cursor,
transfer, release of the cursor, records (`PutMany`) and the wait for the next.
`Terminate` is SIGTERM: the server's deferred calls run without waiting for the
loops. That bbolt's `Close` waits for open read transactions, that transactions
begun meanwhile wait for `Close` and then fail, and that the operating system
drops the lock of a dead process, is how the code uses bbolt. `Resume` gives a pair
another engine, which sets the target up again. What a transfer does is
`SyncRun`, what requests do to a pair's loop is `PairServer`. The `Owners` of a cast are
those who may create the target beside the program. The target's row (`wanted`) does
not change while engines live.

Definitions marked `seeded` in the modules are plausible slips (a guard dropped,
a reset missing); no specification uses them. Each checked property is violated
when one of them replaces the definition it varies, which shows that the property
depends on the code and that the instance reaches the case.

The quantities named as bounds are: `ActionCap` (10000 in the code), `PageSize`
(1000), `MaxVersion` and `MaxDisturbances` in `SyncRun`, `MaxErrors` and
`Scenarios` in `PairServer`, `MaxRequests` and `MaxTroubles` in `SetupWizard`,
`Casts` (who takes part), the two rows of `TwoCases` (versioning alone where S3
refuses a second creation, everything where it does not) and the two foreign
buckets of `TwoForeign` in `Processes`.
`MaxAttempts` (3) and `PageCap` (2) are the code's own numbers.

## 3. Runs

| Run (configuration) | Bounds | Shows |
|---|---|---|
| `diff` (`MCDiff`) | 3 keys, pages of 1, all cache contents incl. undecodable records, actions channel of 1, clients write at any moment, cancellation | `ActionsAreRequired`: where nobody wrote, the prefetching merge does what comparing two sorted lists requires, a cancelled run a prefix of it. `OneActionPerKey`, `DeleteOnlyIfAbsent`, and `ImplementsContract`: every step is a step of `DiffContract` or a stutter. `TypeOK` bounds the channels |
| `diff_faulty` (`MCDiffFaulty`) | 4 keys in pages of 2; LIST fails, pages are short or repeated | `ListCallsBounded` and `Terminates` (both goroutines end, also when the merge returns early) under every misbehaviour at once |
| `diff_list_error` (`MCDiffListError`) | one LIST may fail, nothing else | violates `DeleteOnlyIfAbsent`, see 6 |
| `pool` (`MCPool`) | 2 workers, 2 keys, 3 attempts, all faults | `EveryActionReportedOnce`, `ProgressAgrees`, `SuccessMeansDone`, `PoolReturns` |
| `pool_new_key` (`MCPoolNewKey`) | the same, no fault | violates `CopiesSucceedWithoutFaults`, see 6 |
| `sync_run` (`MCSyncRun`) | 2 keys, 3 versions, 1 worker, failing calls (the first LIST among them), 1 cancellation, crash or failed cache write, resets at any moment | `SkipIsSafe`, `EventuallyMirrored`, and `ImplementsMirror`: every step of every cycle, a crash included, is a step of `Mirror` or a stutter; over unboundedly many cycles |
| `sync_dry_run` (`MCSyncDryRun`) | the same, no fault | violates `CachedMeansTransferred`, see 6 |
| `pair_server` (`MCPairServer`) | one loop or none, any status and any two requests (but two resets), or a request and a command, SIGTERM | `ErrorsAgree`, `RunningMeansRunning`, `CancelsOwnRun`, `LoopsEnd` in every interleaving |
| `pair_lost_pause`, `pair_two_runs` | Sync Now and Pause of an enabled pair; Reset and an edit | violate `EnabledOnlyByRequest` and `SingleRun`, see 6 |
| `setup` (`MCSetupWizard`) | 2 tabs, 2 bucket names, 4 requests, 2 troubles (a deletion is one) | `BothBucketsKnown`, `FormsFillTheirSlots`, and `ImplementsCatalog`: whatever gets lost or overlaps, the tables change as in `Catalog` |
| `processes` (`MCProcesses`) | a server with two engines of one target and a one-shot sync; or a server or a one-shot sync with one engine while commands and the API edit the bucket, or somebody else creates it; two rows; any number of restarts, kills, cycles and edits | `TransfersExclusive`, `SilentSetup`, `SettingsOnlyGrow` (a bucket somebody else created, even between HEAD and CREATE, is not reconfigured unless S3 lets it be created twice, and no engine takes away what another has set), `CredentialsStayReadable`, `SetupConfigures`, `CommandsEnd` |

Why these bounds are enough to be interesting:

* Three keys in pages of one give a page before, at and after the one the merge
  works on, with the fetcher as far ahead as it can get (two buffered pages and
  one in its hand), and an actions channel of one makes the merge block. Pages
  of two (`diff_faulty`) are the smallest in which a short page and a page that
  starts before the token exist. For any number of keys and any page size there
  are the proofs of section 5.
* A property of the pool concerns one action or the race of two workers; there is
  at most one action per key (`OneActionPerKey`), so a third worker meets
  nothing new.
* `sync_run` has one worker and one attempt per call, since `pool` has shown that
  several workers or attempts add only further failures. One disturbance per
  behaviour is enough for each kind to meet every state; failing service calls
  are not bounded.
* `pair_server` has two requests at a time: the races come in pairs (loop against
  request, request against request). Two resets are left out because a third
  loop makes the instance several times larger; `pair_two_runs` has a reset.
* `setup` has a request for each of the three forms and one to spare, which is
  the late or repeated one. Permuting tabs and names is a symmetry; no
  property of that run is a liveness property.

* `processes`: the races on a target are between two engines, of one process or
  of two, and the cast `{s1, o1}` has three engines; the races on the file are
  between one process that closes or dies and one that opens. The row of the
  bucket meets the rest only in whether it exists, so it is edited beside one
  process. One editor that may have the key or not, each time, is every
  sequence of updates; two that overlap are the editor and the API, and the
  proof of section 5 has any number. Nothing is counted: the run has no bound
  but its casts.

`CHECK_DEADLOCK` stays on everywhere: every module ends in an explicit final
stutter (`Finished`, `PoolFinished`, `Rest`) enabled only in a complete state, and
`SyncRun` never ends, so a stuck goroutine is reported as a deadlock. In `Processes`
a process that is off can be started again, so a deadlock cannot be seen as one;
`CommandsEnd` asks instead that what must end does. `Rest` of
`PairServer` allows that no client sends anything further.

## 4. Fairness

* `StreamingDiff!FairSpec`: weak fairness of the fetcher (each LIST has a 30 s
  context, so it answers or fails), of the merger and of the consumer of actions
  (a goroutine that can run does run). Nothing is assumed of cancellation, nor of
  the choice a `select` makes among ready cases.
* `WorkerPool!PFairSpec`: weak fairness of each worker (each action has a 30 s
  context, delays are timers), of the closer, and that the differ closes the
  channel, which is `Terminates` of `StreamingDiff`. Consumer and producer rest
  on each other only as a channel does: the differ ends when the actions are
  taken, the pool takes while there are any.
* `SyncRun!SFairSpec`: weak fairness of the cycle (the loop's timer starts it
  again), of the differ and of whoever drains the channel. `EventuallyMirrored`
  assumes in its statement that service calls eventually stop failing; that
  clients eventually stop follows from the bound on versions, and after their last
  write the next cycles must mirror what they left. Neither assumption says
  anything of the code.
* `PairServer!FairSpec`: weak fairness of loop goroutines only (runs end within
  the five minutes of their context, timers fire). Clients need not send
  anything, a handler need not go on, SIGTERM need not come.
* `Processes!FairSpec`: weak fairness of the main goroutine of each process
  (opening waits 5 s at most, deferred calls run) and of each engine's cycle
  (requests of a setup have a 30 s context, a cycle five minutes). Nobody need
  start or stop a process, edit a row or resume a pair, and no process need
  crash. `SetupConfigures` excuses a bucket whose creation was interrupted, for
  the code does nothing about it later.
* `SetupWizard` promises safety only: no user needs to finish a wizard.

## 5. Proofs

Every invariant and action property of the passing runs is proved for all values
of the constants, and so are the three refinements (`DiffContract`, `Mirror`,
`Catalog`); the assumptions on the constants are named where they are declared
(`KeysAssumption`, `BoundsAssumption`, ...). Each inductive invariant was
model-checked before it was proved. Where a run refutes what is said of the code
(section 6), theorems say how far the disagreement goes: `OnlyNewKeysFail` and
`EmptyStaysEmpty` for the second, `SwitchStays` and `RunsAreSingle` for the fourth and
the fifth.

**The differ.** `StreamingDiffProofs` proves, for every finite set of keys, all metas
and cache contents, every page size and both channel capacities:

| Theorem | Statement | Assumptions besides those of the constants |
|---|---|---|
| `TypeCorrect` | `Spec => []TypeOK` (with both channel bounds) | none: all faults |
| `CallsAreBounded` | `Spec => []ListCallsBounded` | none: all faults |
| `DeletesAreJustified` | `Spec => []DeleteOnlyIfAbsent` | `SoundListing` |
| `ActionsAreOrdered` | `Spec => []OneActionPerKey` | `SoundListing` |

`SoundListing` is `Faults \subseteq {"cancel", "sourceChange"}`: LIST does not fail
while the run goes on, and pages are full and start at the token. It is needed:
without it `DeletesAreJustified` is false (`diff_list_error`), and a listing that
repeats pages can make the merge meet a key twice.

*Calls.* The invariant relates the number of calls to the keys up to the greatest
key listed (`seenMaxKey`): a page that is not the last begins beyond it, so each
further call adds at least one new key. That is exactly what the guard on
`seenMaxKey` in `LastPage` gives.

*Deletes and order.* Neither property is inductive. A delete is emitted because
the merge saw a listed key beyond the cached one (or the end of the list), so the
proof must know what a listing that is already in a buffer says about the keys it
skips, although the bucket has changed since. `MergeInv` therefore joins

* `FetchInv`: between pages the token is the greatest key listed so far, and an
  error waits in its channel only in a cancelled run;
* `LastInv`: a page marked last is the newest one and the fetcher is done behind
  it; the merge ends its listing only on such a page;
* `OrderInv`: the object in hand, the open page, the buffered pages and the page
  in the fetcher's hand are in increasing key order;
* `GapInv`: a key the listing has passed is on its way to the merge, behind the
  merge, or was absent at some moment of the run (`Absent \in history[k]`): this
  carries what the listing saw through the channel although the bucket has
  changed since;
* `CursorInv`: every key from the cache cursor up to the listed key (or to the
  end, once nothing is listed and the run is not cancelled) was absent at some
  moment: what a delete needs;
* `EmittedInv`: every action is for a key both cursors have passed.

The proof that a step preserves it has one lemma per action. Each part was
model-checked first. The lemmas `MinInSet` and
`MaxInSet` about the library's `Min` and `Max`, and those about pages
(`PageType`, `KeyBounds`, `NextCachedType`) are stated once and cited.

**The contract.** `DiffContractProofs` proves two more, both under `SoundListing`:

| Theorem | Statement |
|---|---|
| `Implementation` | `Spec => ImplementsContract`: every step is one of `DiffContract` or a stutter |
| `OnlyRequired` | `Spec => []ActionsAreRequired` |

Nothing in the differ's state says which keys are settled, so `ContractInv` says it
of the two cursors: a key both have passed is settled (`SettledInv`), and when an
action was sent everything before it was (`ActionsInv`). The cursors advance
separately, hence `RecordInv` (a key the cache cursor passed before the listing has
no record) and `ListedInv` (what is buffered was in the bucket at some moment).
With `MergeInv` this gives each of the contract's three steps; in a bucket nobody
changes, settled means done as required, which is the second theorem.

**The pool.** `WorkerPoolProofs` proves, for any number of workers, keys and attempts
and under all faults:

| Theorem | Statement | Assumption |
|---|---|---|
| `TypesCorrect` | `PSpec => []PoolTypeOK` | |
| `OneReportEach` | `PSpec => []EveryActionReportedOnce` | |
| `ExactProgress` | `PSpec => []ProgressAgrees` | `Workers # {}` |
| `SuccessIsTrue` | `PSpec => []SuccessMeansDone` | |
| `OnlyNewKeysFail` | `PSpec => []OnlyMissingFail`; in an unchanged source `PSpec => []OnlyNewFail` | `PoolFaults \subseteq {"sourceChange"}`, `Absent \notin Metas` |

`SuccessMeansDone` needs that nobody undoes what a worker did: the channel has one
action per key (`QueueOrdered`, which is `OneActionPerKey` of the differ), so no two
workers hold one key, nor one that is reported (`OwnKeys`), and what is about to be
reported is already so (`ReportsAreTrue`). `CountInv` relates both counters by the
results handed over and not yet counted, `ExitInv` says that none are left when
`Run` returns. Without workers `Run` returns at once while actions are still queued,
which is why `ExactProgress` assumes one.

`OnlyNewKeysFail` bounds the second disagreement of section 6: while S3 answers and
nobody cancels, only copies fail (`OnlyMissingFail`), and in a source nobody changes
only those of objects whose key the target lacks (`OnlyNewFail`). A call that fails
for good was refused (`FailingCall`), and why it was refused stays true until the
report, since no other worker has that key (`OwnKeys`).

**The cycle.** `SyncRunProofs` extends those proofs over cycles:

| Theorem | Statement |
|---|---|
| `CyclesInvariance` | `SSpec => []SInv` |
| `SkipsAreSafe` | `SSpec => []SkipIsSafe` |
| `CyclesMirror` | `SSpec => ImplementsMirror` |
| `NoKeyIsGained` | `SSpec => [][GainsNoKey]_svars` |
| `EmptyStaysEmpty` | an empty target stays empty under `SSpec` |
| `CyclesReport` | `SSpec => [](~dryRun => EveryActionReportedOnce /\ ProgressAgrees /\ SuccessMeansDone)`, if `Workers # {}` |

A cached version that equals the source's must be what the target holds, although
calls that failed took effect, old requests overwrite new ones within a run, and a
crash, a failed `PutMany` or a `Clear` may separate the record from the work. The
argument: a version that was taken away never comes back (`KnownInv`), so while
snapshot and source agree on a key the run has seen nothing else there and does
nothing to it (`RunInv`); what a worker reports as copied is the source's version
or that version is gone (`CopiesInv`). Two assumptions carry it: what a client
writes next is a new version (a version is ETag and modification time together),
and `MetasAssumption` keeps the marks of absent and deleted records apart from
versions.

*Refinement.* `CyclesMirror` maps each step of the cycle, of a worker or of a client
to one step of `Mirror` or none; `Crash` is an `End` in which any of the requests under
way may still be performed. `MirrorInv` adds to `SInv` what the mapping needs: every
action that is queued, held or reported has a reason the cycle has seen
(`ReasonsInv`), a worker that has passed its HEAD found the key in the target and
nobody else removes it meanwhile (`PresentInv`), and a dry run leaves the workers
idle (`DryInv`). `RequestsExplained` then gives each request that takes effect its
reason. `PresentInv` is also why `NoKeyIsGained`: the refusal of HEAD
(`worker.go:103`) keeps every cycle, not only one without faults, from adding a key.
`EmptyStaysEmpty` is its corollary for a new pair. `CyclesReport` carries the pool's
theorems over: there the channel was any ordered one, here the differ fills it, and
pools follow each other after crashes.

**Pair control.** `PairServerProofs` proves, for any number of requests and commands of any kinds and
any `MaxErrors`, with no further assumption:

| Theorem | Statement |
|---|---|
| `TypesCorrect` | `Spec => []TypeOK` |
| `CountsAgree` | `Spec => []ErrorsAgree` |
| `FlagsAreLive` | `Spec => []RunningMeansRunning` |
| `CancelsAreOwn` | `Spec => []CancelsOwnRun` |
| `SwitchStays` | `Spec => [][row # NoRow /\ row' # NoRow => row'.enabled = row.enabled]_vars`, if no request is a toggle, a reset or a `pair update` |
| `RunsAreSingle` | `Spec => []SingleRun`, if no request is a toggle, a reset or a Sync Now |

`ErrorsAgree` is not inductive, since the row is overwritten with copies read long
before: `CopiesAgree` says the same of every copy in some process's hands, which
is why even the lost updates of section 6 cannot separate the two columns.
`RunningMeansRunning` and `CancelsOwnRun` are inductive given `Equipped` (a process
in a run has an engine, a loop its own; a request that stops an engine is of a
kind that does). A step that leaves the runs in progress alone (`QuietStep`) or
stops an engine (`StopStep`) preserves both, so only the four steps of `RunOnce`
need a proof of their own.

The last two bound the fourth and the fifth disagreement of section 6; the kinds
of requests they exclude are those by which the properties fail, and any number
of the others may be under way. *Switch*: each row somebody writes is one read
before, so `SwitchInv` says of every copy in some process's hands that it has the
stored row's switch, or that the row is gone. *Runs*: without those three kinds
there is one loop at most and nobody but a loop runs (`AloneInv`).

**The wizard.** `SetupWizardProofs` and `SetupFormsProofs` prove, for any tabs and names and
any number of requests, lost replies, restarts, deletions and presses of Back:

| Theorem | Statement |
|---|---|
| `TypesCorrect` | `Spec => []TypeOK` |
| `NoNilBucket` | `Spec => []BothBucketsKnown` |
| `SlotsFromForms` | `Spec => FormsFillTheirSlots` |
| `FillsCatalog` | `Spec => ImplementsCatalog` |

A handler writes what follows from the step it read, whatever became of the
session since; the first two rest on `HandlerInv`: wherever the session has gone,
it still knows what it knew at that step. `SlotsFromForms` needs the agreement of tab and
session: `TabsInv` (a session belongs to one tab, which waits for its newest
request) holds in any trouble, and for a session without trouble `InStep` says that
only that request is under way, that it carries the form of the session's step,
and that the tab shows this step; the buckets such a session holds are still
stored (`HoldsInv`), since a deletion would have upset it; so what `Advance` stores is what the newest form
of its role named (`SlotsFilled`), and unique names (`NamesInv`) make that one bucket.

`FillsCatalog` adds that an id is used once (`UsedUp`: the request a stored bucket's
id stands for is past its insert, also once the bucket is deleted) and that a pair
about to be inserted joins two buckets that are or were stored (`WellMade`); tabs,
replies and restarts are stutters of `Catalog`.

**Processes.** `ProcessesProofs` proves, for any processes, engines, editors and clients and
whatever the row asks for, with no further assumption:

| Theorem | Statement |
|---|---|
| `TypesCorrect` | `Spec => []TypeOK` (with the owner of the lock) |
| `ExclusiveTransfers` | `Spec => []TransfersExclusive` |
| `SilentSetups` | `Spec => []SilentSetup` |
| `ReadableCredentials` | `Spec => []CredentialsStayReadable` |
| `SettingsGrow` | `Spec => SettingsOnlyGrow` |

The invariant is the conjunction of one for each part, and `StepParts` says that
seen by the setup, or by the row, every step of the composition is one of theirs
or none. *Transfers*: an engine with an open cursor has a host that holds the lock
of the file (`CursorInv`, `LockInv`), because `Close` waits for cursors; two such hosts
are one. *Setups*: `SetupProgress` says what a setup that is under way has already
brought about or found, and `Grows` that no request of any engine takes away what
the row asks for, so what one engine found stays true whatever the others do.
*Settings*: `SettingsOnlyGrow` also speaks of settings the row does not ask for, and
of buckets nobody here made. `MadeInv` says that an engine which is past its creation
of the bucket configures one that a setup made, unless S3 grants second creations
(`lenient`), and that one so made has a retention rule only if the row asks for it;
so no request reconfigures a foreign bucket or drops a rule.
*Credentials*: a row is encrypted at most once and a command with the key holds
plain text, so it never encrypts what is encrypted already.

Only model-checked: everything under fairness (`Terminates`, `PoolReturns`,
`EventuallyMirrored`, `LoopsEnd`, `SetupConfigures`, `CommandsEnd`), since liveness and
ENABLED are beyond the prover.

## 6. Disagreements between the code and what is said of it

Each is a run whose one property quotes a statement of the repository, and which
TLC refutes; `PROJECT.json` has the lines.

1. `diff_list_error`: an error of any LIST but a very early one is taken for the
   end of the listing. The merge then deletes every remaining cached key from
   the target and the run reports success.
2. `pool_new_key`: `copyObject` treats "not found" of its HEAD as a failure, so an
   object the target lacks is never copied. `NoKeyIsGained` says so of every cycle
   under any fault, `EmptyStaysEmpty` of a new pair; `OnlyNewKeysFail` says that
   nothing else fails by itself.
3. `sync_dry_run`: a dry run records its actions as done; turning it off skips
   them.
4. `pair_lost_pause`: the row `afterSync` read before a Pause and writes after it
   enables the pair again. By `SwitchStays` it takes a toggle, a reset or a
   `pair update`: other stale writes of the row never turn the switch.
5. `pair_two_runs`: a Stop that comes between `running = true` and the
   installation of the cancel function is lost; after a reset two uncancelled runs
   work on the pair. By `RunsAreSingle` it takes a toggle, a reset or a Sync Now:
   edits, deletions and commands never bring a second run about.

Five more came up in the models. Four of them (6, 7, 9 and 10) are excepted, by
name, in a property that otherwise holds, and without the exception the run refutes
it; the eighth is a second way to the fifth:

6. `SilentSetup` promises the retention rule to the creator of the bucket only:
   `warnIfMismatch` never compares the rule, so a bucket without it, found that
   way or left so by an interrupted setup, is passed over in silence although
   the design promises a warning.
7. `CredentialsStayReadable` excepts rows the API has written: a `PUT` that changes a
   bucket's name erases its credentials (`json:"-"`), and a `POST` creates it without.
8. A reset stops the old engine's run but not its loop, which at its next tick
   finds the pair enabled and goes on beside the new one: `SingleRun` fails
   without the race of 5, too.
9. `db.go:47-48` declares that a pair `REFERENCES` its buckets, but SQLite does not
   enforce it (nothing sets `foreign_keys`): a bucket may be deleted under a pair or
   a wizard session, and the wizard then stores a pair without its bucket. `Catalog`
   lets a pair join a deleted bucket, and `FormsFillTheirSlots` excuses the sessions
   that hold one.
10. Where S3 grants the creation of a bucket one owns already (us-east-1), an engine
    that found no bucket goes on to configure the one somebody else created in
    between, although the code's distinction (`setup.go:20-24`) is to configure only
    what it creates. `SettingsOnlyGrow` excepts this case (`lenient /\ creating[e]`).

Differences from the documents that no run was made for, because they concern
something the models leave out or that is simply absent from the code: the
design promises that a pair is disabled after ten consecutive errors (no code
does it; the counter is only kept), and that COPY is not throttled (workers wait
in the throttler for every call); `layout.html` offers a webhook on "success"
while the status is "ok"; the design's shutdown "completes in-flight syncs"
(`docs/superpowers/specs/2026-07-16-bucketsync-design.md:281`), while `serve` cancels
the cycles with the root context and waits for no loop (in the models: `Shutdown` of
`PairServer`, `BeginClose` of `Processes`); `serve.go:46-49` resets a status "running" no
code stores, and `recoverCrashedPairs` looks for a state that `ErrorsAgree` shows never
arises.

## 7. Not modelled

* The CLI's terminal wizard and the commands that only read: sequential programs
  over the repository. The columns of a bucket other than the credentials.
* Throttler: real time only. Webhook: one call after a run, no state. Auth: a map
  of sessions nothing else depends on. Dashboard and history pages: they poll and
  send the requests `PairServer` has. Logging, S3 client: set-up. The cipher is
  taken as perfect.
* In `Processes`: the pair's loops as `PairServer` has them (a loop of an engine that
  was replaced, Sync Now), changes of the target's row while engines live, two rows that
  name one S3 bucket and ask for different things, wrong master keys.
* In `PairServer`: the sync log table (a log may be inserted for a deleted pair;
  nothing reads it), progress counters, a pair's settings (an engine keeps those
  it was made with), more than one pair (pairs share only the map and the
  database), the process's exit (a prefix of a behaviour).
* In `WorkerPool` and `StreamingDiff`: a pool of no workers (`worker_count` 0), which
  leaves the merge blocked on a full channel; the pool is assumed to take.
* In `SyncRun`: texts of errors, the webhook, byte counts; the run of a new engine
  beside a run whose Stop was lost.

## 8. Plan

Order of the work, most important behaviour first. Done: 1 to 14.

1. `StreamingDiff` and `DiffContract`, with the `diff*` runs.
2. `StreamingDiffProofs`: types, call bound, justified deletes, order.
3. `WorkerPool` with `pool*`.
4. `SyncRun`, composing the contract and the pool, with `sync_*`.
5. `PairServer` with `pair_*`.
6. `SetupWizard` with `setup`.
7. `TargetSetup`, `BucketTable` and `Processes`, composing them with the lock of the
   cache, with `processes`; resets in `SyncRun`; commands in `PairServer`.
8. `ProcessesProofs`: types, exclusive transfers, silent setups, credentials.
9. `PairServerProofs`: types, counts, flags, cancel functions.
10. `DiffContractProofs`: the refinement, the required actions.
11. `WorkerPoolProofs` and, over cycles, `SyncRunProofs`.
12. `SetupWizardProofs` and `SetupFormsProofs`.
13. `Mirror` and `Catalog`, the abstract specifications of the cycles and of the
    wizard, with both refinements checked and proved; `SettingsOnlyGrow`.
14. Theorems on the extent of the disagreements of section 6.
15. Models to add: the settings an engine keeps from the row it was made with; a
    pool without workers against a full channel; two runs on one pair's cache.
