----------------------------- MODULE TargetSetup -----------------------------
(***************************************************************************)
(* SetupTargetBucket of internal/sync/setup.go: what an engine does to its *)
(* target bucket, once, before its first cycle (setupOnce of engine.go).   *)
(* Several engines may have one target: two pairs, two engines of a pair   *)
(* that was reset, or two processes.  Each request to S3 is a step, which  *)
(* S3 may perform although the engine is told that it failed.              *)
(*                                                                         *)
(* The row of the target does not change here (an engine keeps the row it  *)
(* was made with), and all engines have the same: of two rows that name    *)
(* one bucket and ask for different things nothing is said.  Others of the *)
(* account may create the bucket, configured as they like; once it exists  *)
(* nobody but the engines configures it, and nobody deletes it.            *)
(***************************************************************************)
EXTENDS Naturals

CONSTANTS
    Engines,     \* the engines whose target this bucket is
    Cases,       \* <<what the row asks for, how S3 takes a second creation>>
    Foreign,     \* how others configure the bucket
    NoTarget     \* the bucket does not exist

Settings == [versioned : BOOLEAN, locked : BOOLEAN, retained : BOOLEAN]
Nothing  == [versioned |-> FALSE, locked |-> FALSE, retained |-> FALSE]

(* What S3 lets a bucket be: object lock needs versioning, the default     *)
(* retention is part of the object lock configuration.                     *)

Consistent(b) == (b.retained => b.locked) /\ (b.locked => b.versioned)

ASSUME CasesAssumption  == Cases \subseteq Settings \X BOOLEAN
ASSUME ForeignAssumption == Foreign \subseteq {b \in Settings : Consistent(b)}
ASSUME TargetAssumption == NoTarget \notin Settings

VARIABLES
    wanted,        \* Versioning, ObjectLock, RetentionMode # "" of the row
    lenient,       \* CreateBucket of a bucket the caller owns is no error
    target,        \* the bucket's configuration in S3
    setupPc,       \* per engine: its next request, "none" before, "done" after
    creating,      \* per engine: HEAD found no bucket
    warned,        \* per engine: a warning was logged
    made,          \* some setup created the bucket
    interrupted    \* a setup that was creating it failed or was killed

setupVars ==
    <<wanted, lenient, target, setupPc, creating, warned, made, interrupted>>

SetupInit ==
    /\ \E c \in Cases : wanted = c[1] /\ lenient = c[2]
    /\ target \in Foreign \cup {NoTarget}
    /\ setupPc = [e \in Engines |-> "none"]
    /\ creating = [e \in Engines |-> FALSE]
    /\ warned = [e \in Engines |-> FALSE]
    /\ made = FALSE /\ interrupted = FALSE

SetupGoto(e, request) == setupPc' = [setupPc EXCEPT ![e] = request]

-----------------------------------------------------------------------------
(* What S3 does with a request.                                            *)

(* CreateBucket of a bucket the caller owns is refused, except where it    *)
(* succeeds without effect (us-east-1, for one).                           *)

CreateGranted == target = NoTarget \/ lenient

Created ==
    IF target # NoTarget THEN target
    ELSE [Nothing EXCEPT !.versioned = wanted.locked, !.locked = wanted.locked]

Versioned == [target EXCEPT !.versioned = TRUE]

LockedAs == [target EXCEPT !.locked = TRUE, !.retained = wanted.retained]

(* PutObjectLockConfiguration is refused without versioning.               *)

LockGranted == target.versioned

-----------------------------------------------------------------------------
(* The requests, in the order of the code: those before a given one have   *)
(* been answered.                                                          *)

AfterCreate == IF wanted.versioned THEN "putVersioning"
               ELSE IF wanted.locked THEN "putLock" ELSE "done"
AfterVersioningNothing == "done"   \* seeded: object lock only without versioning
AfterVersioning == IF wanted.locked THEN "putLock" ELSE "done"
FirstCheck == IF wanted.versioned THEN "getVersioning"
              ELSE IF wanted.locked THEN "getLock" ELSE "done"
SecondCheck == IF wanted.locked THEN "getLock" ELSE "done"

BeginSetup(e) ==
    /\ setupPc[e] = "none"
    /\ SetupGoto(e, "head")
    /\ UNCHANGED <<wanted, lenient, target, creating, warned, made, interrupted>>

Head(e) ==
    /\ setupPc[e] = "head"
    /\ creating' = [creating EXCEPT ![e] = target = NoTarget]
    /\ SetupGoto(e, IF target = NoTarget THEN "create" ELSE FirstCheck)
    /\ UNCHANGED <<wanted, lenient, target, warned, made, interrupted>>

CreateBucket(e) ==
    /\ setupPc[e] = "create" /\ CreateGranted
    /\ target' = Created
    /\ made' = (made \/ target = NoTarget)
    /\ SetupGoto(e, AfterCreate)
    /\ UNCHANGED <<wanted, lenient, creating, warned, interrupted>>

PutVersioning(e) ==
    /\ setupPc[e] = "putVersioning"
    /\ target' = Versioned
    /\ SetupGoto(e, AfterVersioning)
    /\ UNCHANGED <<wanted, lenient, creating, warned, made, interrupted>>

PutObjectLock(e) ==
    /\ setupPc[e] = "putLock" /\ LockGranted
    /\ target' = LockedAs
    /\ SetupGoto(e, "done")
    /\ UNCHANGED <<wanted, lenient, creating, warned, made, interrupted>>

CreateRefusalIgnored(e) ==   \* seeded: BucketAlreadyOwnedByYou is no error
    /\ setupPc[e] = "create" /\ ~CreateGranted
    /\ SetupGoto(e, AfterCreate)
    /\ UNCHANGED <<wanted, lenient, target, creating, warned, made, interrupted>>

CreateRefused(e) ==
    /\ setupPc[e] = "create" /\ ~CreateGranted
    /\ warned' = [warned EXCEPT ![e] = TRUE]
    /\ SetupGoto(e, "done")
    /\ UNCHANGED <<wanted, lenient, target, creating, made, interrupted>>

(* An error of one of the requests above: S3's, the context of 30 s or a   *)
(* cancelled run.  SetupTargetBucket returns it, and the engine logs it.   *)

Performed(e) ==
    \/ setupPc[e] = "create" /\ target' = Created /\ made' = (made \/ target = NoTarget)
    \/ setupPc[e] = "putVersioning" /\ target' = Versioned /\ UNCHANGED made
    \/ setupPc[e] = "putLock" /\ LockGranted /\ target' = LockedAs /\ UNCHANGED made

Creates(e) == setupPc[e] \in {"create", "putVersioning", "putLock"}

RequestFails(e) ==
    /\ setupPc[e] = "head" \/ Creates(e)
    /\ Performed(e) \/ UNCHANGED <<target, made>>
    /\ interrupted' = (interrupted \/ Creates(e))
    /\ warned' = [warned EXCEPT ![e] = TRUE]
    /\ SetupGoto(e, "done")
    /\ UNCHANGED <<wanted, lenient, creating>>

(* warnIfMismatch: the bucket was there, nothing is changed.  An error of  *)
(* one check is logged, and the other check made all the same.             *)

CheckSilently(e, request, asked, next) ==   \* seeded: an error is not logged
    /\ setupPc[e] = request
    /\ \E answered \in BOOLEAN :
         warned' = [warned EXCEPT ![e] = @ \/ (answered /\ ~asked)]
    /\ SetupGoto(e, next)
    /\ UNCHANGED <<wanted, lenient, target, creating, made, interrupted>>

Check(e, request, asked, next) ==
    /\ setupPc[e] = request
    /\ \E answered \in BOOLEAN :
         warned' = [warned EXCEPT ![e] = @ \/ ~answered \/ ~asked]
    /\ SetupGoto(e, next)
    /\ UNCHANGED <<wanted, lenient, target, creating, made, interrupted>>

GetVersioning(e) == Check(e, "getVersioning", target.versioned, SecondCheck)
GetObjectLock(e) == Check(e, "getLock", target.locked, "done")

SetupStep(e) == \/ Head(e) \/ CreateBucket(e) \/ CreateRefused(e)
                \/ PutVersioning(e) \/ PutObjectLock(e) \/ RequestFails(e)
                \/ GetVersioning(e) \/ GetObjectLock(e)

(* The engines es are gone, their process perhaps with them.  S3 may still *)
(* perform the request of one of them (of several: as if all but the last  *)
(* had been answered).                                                     *)

KillSetups(es) ==
    /\ \/ \E e \in es : Performed(e)
       \/ UNCHANGED <<target, made>>
    /\ interrupted' = (interrupted \/ \E e \in es : Creates(e))
    /\ setupPc' = [e \in Engines |-> IF e \in es THEN "none" ELSE setupPc[e]]
    /\ creating' = [e \in Engines |-> e \notin es /\ creating[e]]
    /\ warned' = [e \in Engines |-> e \notin es /\ warned[e]]
    /\ UNCHANGED <<wanted, lenient>>

(* Someone else creates the bucket, perhaps while engines are about to.    *)

ForeignCreate ==
    /\ target = NoTarget
    /\ target' \in Foreign
    /\ UNCHANGED <<wanted, lenient, setupPc, creating, warned, made, interrupted>>

SetupNext == \/ \E e \in Engines : BeginSetup(e) \/ SetupStep(e)
             \/ \E es \in SUBSET Engines : KillSetups(es)
             \/ ForeignCreate

-----------------------------------------------------------------------------
(* Properties.                                                             *)

Requests == {"none", "head", "create", "putVersioning", "putLock",
             "getVersioning", "getLock", "done"}

(* Types; and only an engine that found no bucket sends a request that     *)
(* changes it, to a bucket that exists once CreateBucket has been answered.*)

SetupTypeOK ==
    /\ <<wanted, lenient>> \in Cases
    /\ target = NoTarget \/ (target \in Settings /\ Consistent(target))
    /\ setupPc \in [Engines -> Requests]
    /\ creating \in [Engines -> BOOLEAN] /\ warned \in [Engines -> BOOLEAN]
    /\ made \in BOOLEAN /\ interrupted \in BOOLEAN
    /\ \A e \in Engines : Creates(e) => creating[e]
    /\ \A e \in Engines :
         target = NoTarget => setupPc[e] \in {"none", "head", "create", "done"}

(* A setup that says nothing leaves a bucket with the versioning and the   *)
(* object lock the row asks for, also when another engine or someone else  *)
(* was creating the same bucket, and for as long as the engine lives.  The *)
(* retention rule is promised only by a setup that created the bucket:     *)
(* warnIfMismatch never looks at the rule of a bucket that was there.      *)

SilentSetup ==
    \A e \in Engines : setupPc[e] = "done" /\ ~warned[e] =>
        /\ target # NoTarget
        /\ wanted.versioned => target.versioned
        /\ wanted.locked => target.locked
        /\ wanted.locked /\ wanted.retained /\ creating[e] => target.retained

(* A bucket the program did not create is never reconfigured, although     *)
(* engines may have found none there before someone created it, and be     *)
(* about to configure it: only CreateBucket's error keeps them from it.    *)
(* Where it is no error nothing of the kind holds, and such an engine may  *)
(* change all but what is on already; a bucket that no engine missed is    *)
(* left alone there too.  And no setup takes away what another has set in  *)
(* a bucket the program created.                                           *)

SettingsOnlyGrow ==
    [][target # NoTarget =>
           /\ target' # NoTarget
           /\ ~made => target' = target \/ (lenient /\ \E e \in Engines : creating[e])
           /\ target.versioned => target'.versioned
           /\ target.locked => target'.locked
           /\ made /\ target.retained => target'.retained]_setupVars

(* A bucket the setup creates is configured in the end, whichever engine   *)
(* of several that found it missing gets there first - unless one of them  *)
(* was stopped by an error other than the refusal of a second creation, or *)
(* killed between its requests, for no later setup does what is left (it   *)
(* finds a bucket, and warns at most).                                     *)

Configured ==
    /\ target # NoTarget
    /\ wanted.versioned => target.versioned
    /\ wanted.locked => target.locked /\ (wanted.retained => target.retained)

SetupConfigures == made ~> (Configured \/ interrupted)

=============================================================================
