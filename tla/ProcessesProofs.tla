--------------------------- MODULE ProcessesProofs ---------------------------
(***************************************************************************)
(* Proofs about Processes, for every number of processes, engines, editors *)
(* and clients and whatever the bucket's row asks for: types, exclusive    *)
(* transfers, silent setups, readable credentials.                         *)
(***************************************************************************)
EXTENDS Processes, TLAPS

-----------------------------------------------------------------------------
(* The target's setup (TargetSetup).                                       *)

(* What a setup that has not finished knows of the target: a bucket that   *)
(* is checked was there, and the requests already answered have left what  *)
(* they asked for, or a warning.                                           *)

SetupProgress(e) ==
    /\ setupPc[e] = "putLock" => (wanted.versioned => target.versioned)
    /\ setupPc[e] \in {"getVersioning", "getLock"} => target # NoTarget
    /\ setupPc[e] = "getLock" /\ ~warned[e] => (wanted.versioned => target.versioned)
    /\ setupPc[e] \in {"getVersioning", "getLock"} => ~creating[e]

Silent(e) == setupPc[e] = "done" /\ ~warned[e] =>
    /\ target # NoTarget
    /\ wanted.versioned => target.versioned
    /\ wanted.locked => target.locked
    /\ wanted.locked /\ wanted.retained /\ creating[e] => target.retained

SetupInv == SetupTypeOK /\ \A e \in Engines : SetupProgress(e) /\ Silent(e)

(* No request takes away what the row asks for.                            *)

Grows ==
    /\ UNCHANGED <<wanted, lenient>>
    /\ target # NoTarget =>
         /\ target' # NoTarget
         /\ target.versioned => target'.versioned
         /\ target.locked => target'.locked
         /\ target.retained /\ wanted.retained => target'.retained

(* What S3 makes of a request is a configuration again, and grows.         *)

LEMMA RequestsGrow ==
    ASSUME SetupTypeOK, UNCHANGED <<wanted, lenient>>, NEW e \in Engines,
           \/ UNCHANGED target
           \/ setupPc[e] = "create" /\ target' = Created
           \/ setupPc[e] = "putVersioning" /\ target' = Versioned
           \/ setupPc[e] = "putLock" /\ LockGranted /\ target' = LockedAs
    PROVE  /\ Grows
           /\ target' = NoTarget \/ (target' \in Settings /\ Consistent(target'))
<1>1. wanted \in Settings
  BY CasesAssumption DEF SetupTypeOK
<1>2. CASE UNCHANGED target
  BY <1>2 DEF Grows, SetupTypeOK
<1>3. CASE setupPc[e] = "create" /\ target' = Created
  <2>1. CASE target # NoTarget
    BY <1>3, <2>1 DEF Grows, SetupTypeOK, Created
  <2>2. CASE target = NoTarget
    <3>1. target' = [versioned |-> wanted.locked, locked |-> wanted.locked,
                     retained |-> FALSE]
      BY <1>3, <2>2 DEF Created, Nothing
    <3>2. target' \in Settings /\ Consistent(target')
      BY <1>1, <3>1 DEF Settings, Consistent
    <3> QED  BY <2>2, <3>2 DEF Grows
  <2> QED  BY <2>1, <2>2
<1>4. CASE \/ setupPc[e] = "putVersioning" /\ target' = Versioned
           \/ setupPc[e] = "putLock" /\ LockGranted /\ target' = LockedAs
  <2>1. target \in Settings /\ Consistent(target)
    BY <1>4 DEF SetupTypeOK
  <2>2. target' = [target EXCEPT !.versioned = TRUE]
        \/ (target' = [target EXCEPT !.locked = TRUE, !.retained = wanted.retained]
            /\ target.versioned)
    BY <1>4 DEF Versioned, LockedAs, LockGranted
  <2>3. target' \in Settings /\ Consistent(target')
    BY <1>1, <2>1, <2>2 DEF Settings, Consistent
  <2>4. /\ target.versioned => target'.versioned
        /\ target.locked => target'.locked
        /\ target.retained /\ wanted.retained => target'.retained
    BY <1>1, <2>1, <2>2 DEF Settings
  <2> QED  BY <2>3, <2>4, TargetAssumption DEF Grows
<1> QED  BY <1>2, <1>3, <1>4

(* CreateBucket that has been answered leaves a bucket.                    *)

LEMMA CreatedExists ==
    ASSUME wanted \in Settings PROVE Created # NoTarget
<1>1. CASE target = NoTarget
  <2>1. Created = [versioned |-> wanted.locked, locked |-> wanted.locked,
                   retained |-> FALSE]
    BY <1>1 DEF Created, Nothing
  <2>2. Created \in Settings
    BY <2>1 DEF Settings
  <2> QED  BY <2>2, TargetAssumption
<1> QED  BY <1>1 DEF Created

(* A step of one engine's setup preserves what each setup knows.           *)

LEMMA SetupStepInv ==
    ASSUME SetupInv, NEW e \in Engines, BeginSetup(e) \/ SetupStep(e)
    PROVE  SetupInv'
<1> USE DEF SetupInv
<1>1. wanted \in Settings /\ UNCHANGED <<wanted, lenient>>
  BY CasesAssumption DEF SetupTypeOK, BeginSetup, SetupStep, Head, CreateBucket,
     CreateRefused, PutVersioning, PutObjectLock, RequestFails, GetVersioning,
     GetObjectLock, Check
<1>2. \/ UNCHANGED target
      \/ setupPc[e] = "create" /\ target' = Created
      \/ setupPc[e] = "putVersioning" /\ target' = Versioned
      \/ setupPc[e] = "putLock" /\ LockGranted /\ target' = LockedAs
  BY DEF BeginSetup, SetupStep, Head, CreateBucket, CreateRefused, PutVersioning,
     PutObjectLock, RequestFails, Performed, GetVersioning, GetObjectLock, Check
<1>3. Grows /\ (target' = NoTarget \/ (target' \in Settings /\ Consistent(target')))
  BY <1>1, <1>2, RequestsGrow
<1>4. SetupTypeOK'
  <2>1. /\ setupPc' \in [Engines -> Requests]
        /\ creating' \in [Engines -> BOOLEAN] /\ warned' \in [Engines -> BOOLEAN]
        /\ made' \in BOOLEAN /\ interrupted' \in BOOLEAN
    BY DEF SetupTypeOK, Requests, BeginSetup, SetupStep, SetupGoto, Head, CreateBucket,
       CreateRefused, PutVersioning, PutObjectLock, RequestFails, Performed, Creates, GetVersioning,
       GetObjectLock, Check, AfterCreate, AfterVersioning, FirstCheck, SecondCheck
  <2>2. \A f \in Engines : f # e =>
           setupPc'[f] = setupPc[f] /\ creating'[f] = creating[f]
    BY DEF SetupTypeOK, BeginSetup, SetupStep, SetupGoto, Head, CreateBucket,
       CreateRefused, PutVersioning, PutObjectLock, RequestFails, GetVersioning,
       GetObjectLock, Check
  <2>3. CreateBucket(e) => target' # NoTarget
    BY <1>1, CreatedExists DEF CreateBucket
  <2>4. /\ Creates(e)' => creating'[e]
        /\ target' = NoTarget => setupPc'[e] \in {"none", "head", "create", "done"}
    <3>1. CASE BeginSetup(e) \/ Head(e)
      BY <1>1, <3>1 DEF SetupTypeOK, Creates, BeginSetup, SetupGoto, Head, FirstCheck
    <3>2. CASE CreateBucket(e)
      BY <1>3, <2>3, <3>2 DEF SetupTypeOK, Creates, SetupGoto, CreateBucket
    <3>3. CASE PutVersioning(e) \/ PutObjectLock(e)
      BY <1>3, <3>3 DEF SetupTypeOK, Creates, Grows, SetupGoto, PutVersioning, PutObjectLock
    <3>4. CASE CreateRefused(e) \/ RequestFails(e)
      BY <3>4 DEF SetupTypeOK, Creates, SetupGoto, CreateRefused, RequestFails
    <3>5. CASE GetVersioning(e) \/ GetObjectLock(e)
      BY <1>3, <3>5 DEF SetupTypeOK, SetupProgress, Creates, Grows, SetupGoto,
         GetVersioning, GetObjectLock, Check, SecondCheck
    <3> QED  BY <3>1, <3>2, <3>3, <3>4, <3>5 DEF SetupStep
  <2> QED  BY <1>1, <1>3, <2>1, <2>2, <2>4 DEF SetupTypeOK, Creates, Grows
<1>5. ASSUME NEW f \in Engines, f # e
      PROVE  SetupProgress(f)' /\ Silent(f)'
  <2>1. UNCHANGED <<setupPc[f], creating[f], warned[f]>>
    BY <1>5 DEF SetupTypeOK, BeginSetup, SetupStep, SetupGoto, Head, CreateBucket,
       CreateRefused, PutVersioning, PutObjectLock, RequestFails, GetVersioning,
       GetObjectLock, Check
  <2>2. setupPc[f] = "putLock" => target # NoTarget
    BY DEF SetupTypeOK
  <2> QED  BY <1>1, <1>3, <2>1, <2>2 DEF SetupProgress, Silent, Grows
<1>6. SetupProgress(e)' /\ Silent(e)'
  <2>1. CASE BeginSetup(e)
    BY <2>1 DEF BeginSetup, SetupGoto, SetupTypeOK, SetupProgress, Silent
  <2>2. CASE Head(e)
    BY <1>1, <2>2 DEF Head, SetupGoto, FirstCheck, SetupTypeOK, SetupProgress, Silent
  <2>3. CASE CreateBucket(e)
    <3>1. target' # NoTarget
      BY <1>1, <2>3, CreatedExists DEF CreateBucket
    <3> QED  BY <1>1, <2>3, <3>1 DEF CreateBucket, SetupGoto, AfterCreate, SetupTypeOK,
             SetupProgress, Silent
  <2>4. CASE PutVersioning(e)
    <3>1. target' # NoTarget /\ target'.versioned
      <4>1. target \in Settings
        BY <2>4 DEF PutVersioning, SetupTypeOK
      <4>2. target' = [target EXCEPT !.versioned = TRUE]
        BY <2>4 DEF PutVersioning, Versioned
      <4> QED  BY <1>3, <4>1, <4>2, TargetAssumption DEF Settings, Grows
    <3> QED  BY <1>1, <2>4, <3>1 DEF PutVersioning, SetupGoto, AfterVersioning, SetupTypeOK,
             SetupProgress, Silent
  <2>5. CASE PutObjectLock(e)
    <3>1. /\ target' # NoTarget /\ target'.locked
          /\ wanted.versioned => target'.versioned
          /\ wanted.retained => target'.retained
      <4>1. target \in Settings /\ (wanted.versioned => target.versioned)
        BY <2>5 DEF PutObjectLock, SetupTypeOK, SetupProgress
      <4>2. target' = [target EXCEPT !.locked = TRUE, !.retained = wanted.retained]
        BY <2>5 DEF PutObjectLock, LockedAs
      <4> QED  BY <1>1, <1>3, <4>1, <4>2, TargetAssumption DEF Settings, Grows
    <3> QED  BY <1>1, <2>5, <3>1 DEF PutObjectLock, SetupGoto, SetupTypeOK,
             SetupProgress, Silent
  <2>6. CASE CreateRefused(e) \/ RequestFails(e)
    BY <2>6 DEF CreateRefused, RequestFails, SetupGoto, SetupTypeOK, SetupProgress, Silent
  <2>7. CASE GetVersioning(e)
    BY <1>1, <2>7 DEF GetVersioning, Check, SecondCheck, SetupGoto, SetupTypeOK,
       SetupProgress, Silent
  <2>8. CASE GetObjectLock(e)
    BY <1>1, <2>8 DEF GetObjectLock, Check, SetupGoto, SetupTypeOK, SetupProgress, Silent
  <2> QED  BY <2>1, <2>2, <2>3, <2>4, <2>5, <2>6, <2>7, <2>8 DEF SetupStep
<1> QED  BY <1>4, <1>5, <1>6

(* So does the end of engines, which may leave a request behind.           *)

LEMMA KillInv ==
    ASSUME SetupInv, NEW es \in SUBSET Engines, KillSetups(es)
    PROVE  SetupInv'
<1> USE DEF SetupInv
<1>1. wanted \in Settings /\ UNCHANGED <<wanted, lenient>>
  BY CasesAssumption DEF SetupTypeOK, KillSetups
<1>2. Grows /\ (target' = NoTarget \/ (target' \in Settings /\ Consistent(target')))
  <2>1. CASE UNCHANGED target
    BY <1>1, <2>1 DEF Grows, SetupTypeOK
  <2>2. CASE \E e \in es : Performed(e)
    <3>1. PICK e \in es : Performed(e)
      BY <2>2
    <3> QED  BY <1>1, <3>1, RequestsGrow DEF Performed
  <2> QED  BY <2>1, <2>2 DEF KillSetups
<1>3. \A f \in Engines :
        \/ setupPc'[f] = "none"
        \/ UNCHANGED <<setupPc[f], creating[f], warned[f]>>
  BY DEF KillSetups, SetupTypeOK
<1>4. SetupTypeOK'
  <2>1. /\ setupPc' \in [Engines -> Requests]
        /\ creating' \in [Engines -> BOOLEAN] /\ warned' \in [Engines -> BOOLEAN]
        /\ made' \in BOOLEAN /\ interrupted' \in BOOLEAN
    BY DEF SetupTypeOK, Requests, KillSetups, Performed, Creates
  <2> QED  BY <1>1, <1>2, <1>3, <2>1 DEF SetupTypeOK, Creates, Grows
<1>5. ASSUME NEW f \in Engines PROVE SetupProgress(f)' /\ Silent(f)'
  <2>1. setupPc[f] = "putLock" => target # NoTarget
    BY DEF SetupTypeOK
  <2> QED  BY <1>1, <1>2, <1>3, <2>1 DEF SetupProgress, Silent, Grows
<1> QED  BY <1>4, <1>5

(* And so does somebody else's creation of the bucket: no setup that is    *)
(* past its creation, or was silent, had found it missing.                 *)

LEMMA ForeignCreateInv ==
    ASSUME SetupInv, ForeignCreate
    PROVE  SetupInv'
<1>1. /\ target = NoTarget /\ target' \in Settings /\ Consistent(target')
      /\ UNCHANGED <<wanted, lenient, setupPc, creating, warned, made, interrupted>>
  BY ForeignAssumption DEF ForeignCreate
<1>2. SetupTypeOK'
  BY <1>1, TargetAssumption DEF SetupInv, SetupTypeOK, Creates
<1>3. ASSUME NEW e \in Engines
      PROVE  SetupProgress(e)' /\ Silent(e)'
  BY <1>1 DEF SetupInv, SetupTypeOK, SetupProgress, Silent
<1> QED  BY <1>2, <1>3 DEF SetupInv

-----------------------------------------------------------------------------
(* The bucket's row (BucketTable).                                         *)

(* A row is encrypted once at most, and is blank only if the API wrote it; *)
(* what an editor with the key holds is plain text.                        *)

Told(c) == c.text = "blank" => blanked

TableInv ==
    /\ TableTypeOK
    /\ bucketRow # NoBucket => Told(bucketRow)
    /\ \A d \in Editors : editing[d] # Unread => Told(editing[d].credential)

(* Encrypting plain text, or without the key, gives a credential of the    *)
(* same text.                                                              *)

LEMMA EncryptedType ==
    ASSUME NEW c \in Credential, NEW keyed \in BOOLEAN, keyed => c.layers = 0
    PROVE  Encrypted(c, keyed) \in Credential /\ Encrypted(c, keyed).text = c.text
<1>1. CASE keyed
  BY <1>1 DEF Encrypted, Credential
<1>2. CASE ~keyed
  BY <1>2 DEF Encrypted
<1> QED  BY <1>1, <1>2

(* Decrypting gives a credential of the same text, plain with the key.     *)

LEMMA DecryptedType ==
    ASSUME NEW c \in Credential, NEW keyed \in BOOLEAN
    PROVE  /\ Decrypted(c, keyed) \in Credential
           /\ Decrypted(c, keyed).text = c.text
           /\ keyed => Decrypted(c, keyed).layers = 0
<1>1. CASE keyed /\ c.layers > 0
  BY <1>1 DEF Decrypted, Credential
<1>2. CASE ~(keyed /\ c.layers > 0)
  BY <1>2 DEF Decrypted, Credential
<1> QED  BY <1>1, <1>2

(* Every command and request on the row preserves what is known of it.     *)

LEMMA TableStepInv ==
    ASSUME TableInv, TableNext PROVE TableInv'
<1> USE DEF TableInv
<1>1. ASSUME NEW d \in Editors, ReadBucket(d) PROVE TableInv'
  <2>1. PICK keyed \in BOOLEAN :
          editing' = [editing EXCEPT ![d] =
                         [keyed |-> keyed, credential |-> Decrypted(bucketRow, keyed)]]
    BY <1>1 DEF ReadBucket
  <2>2. bucketRow \in Credential /\ Told(bucketRow) /\ UNCHANGED <<bucketRow, blanked>>
    BY <1>1 DEF ReadBucket, TableTypeOK
  <2>3. /\ Decrypted(bucketRow, keyed) \in Credential
        /\ Told(Decrypted(bucketRow, keyed))
        /\ keyed => Decrypted(bucketRow, keyed).layers = 0
    BY <2>2, DecryptedType DEF Told
  <2>4. editing'[d].keyed = keyed /\ editing'[d].credential = Decrypted(bucketRow, keyed)
    BY <2>1 DEF TableTypeOK
  <2>5. \A f \in Editors : f # d => editing'[f] = editing[f]
    BY <2>1 DEF TableTypeOK
  <2>6. editing' \in [Editors -> [keyed : BOOLEAN, credential : Credential] \cup {Unread}]
    BY <2>1, <2>3 DEF TableTypeOK
  <2> QED  BY <2>2, <2>3, <2>4, <2>5, <2>6 DEF TableTypeOK, Told
<1>2. ASSUME NEW d \in Editors, WriteBucket(d) PROVE TableInv'
  <2>1. /\ editing' \in [Editors -> [keyed : BOOLEAN, credential : Credential] \cup {Unread}]
        /\ \A f \in Editors : editing'[f] \in {Unread, editing[f]}
        /\ UNCHANGED blanked
    BY <1>2 DEF WriteBucket, TableTypeOK
  <2>2. bucketRow' # NoBucket => bucketRow' \in Credential /\ Told(bucketRow')
    <3>1. CASE bucketRow = NoBucket
      BY <1>2, <3>1 DEF WriteBucket
    <3>2. CASE bucketRow # NoBucket
      <4>1. PICK c \in {editing[d].credential, Plain("secret")} :
              bucketRow' = Encrypted(c, editing[d].keyed)
        BY <1>2, <3>2 DEF WriteBucket
      <4>2. /\ editing[d].keyed \in BOOLEAN /\ editing[d].credential \in Credential
            /\ Told(editing[d].credential)
            /\ editing[d].keyed => editing[d].credential.layers = 0
        BY <1>2 DEF WriteBucket, TableTypeOK
      <4>3. Plain("secret") \in Credential /\ Plain("secret").layers = 0
            /\ Told(Plain("secret"))
        BY DEF Plain, Credential, Texts, Told
      <4>4. c \in Credential /\ Told(c) /\ (editing[d].keyed => c.layers = 0)
        BY <4>1, <4>2, <4>3
      <4> QED  BY <4>1, <4>2, <4>4, EncryptedType DEF Told
    <3> QED  BY <3>1, <3>2
  <2>3. Told(bucketRow)' <=> Told(bucketRow')
    BY <2>1 DEF Told
  <2>4. \A f \in Editors : editing'[f] # Unread =>
           /\ Told(editing[f].credential)'
           /\ editing'[f].keyed => editing'[f].credential.layers = 0
    BY <2>1 DEF TableTypeOK, Told
  <2> QED  BY <2>1, <2>2, <2>3, <2>4 DEF TableTypeOK, Told
<1>3. CASE DeleteBucket
  BY <1>3 DEF DeleteBucket, TableTypeOK, Told
<1>4. CASE PutBucket
  <2>1. PICK keyed \in BOOLEAN : bucketRow' = Encrypted(Plain("blank"), keyed)
    BY <1>4 DEF PutBucket
  <2>2. Plain("blank") \in Credential /\ Plain("blank").layers = 0
    BY DEF Plain, Credential, Texts
  <2>3. bucketRow' \in Credential
    BY <2>1, <2>2, EncryptedType
  <2> QED  BY <1>4, <2>3 DEF PutBucket, TableTypeOK, Told
<1> QED  BY <1>1, <1>2, <1>3, <1>4 DEF TableNext

-----------------------------------------------------------------------------
(* Processes, their lock and their cursors.                                *)

(* A cursor is open only in a process that has the cache open: Close waits *)
(* for it, and a later one is refused.                                     *)

LockInv == \A p \in Processes : fileLock = p <=> main[p] \in {"up", "closing"}

CursorInv == \A e \in Engines : CursorOpen(e) => main[Host(e)] \in {"up", "closing"}

ProcessTypes ==
    /\ cast \in Casts
    /\ main \in [Processes -> {"off", "opening", "up", "closing", "closed"}]
    /\ cycle \in [Engines -> {"none", "setup", "cursor", "transfer", "release",
                              "record", "wait", "ended"}]
    /\ rootDone \in [Processes -> BOOLEAN]

ProcessInv == ProcessTypes /\ LockInv /\ CursorInv

IInv == SetupInv /\ TableInv /\ ProcessInv

(* An engine has one host.                                                 *)

LEMMA HostOfEngine ==
    ASSUME NEW e \in Engines
    PROVE  /\ Host(e) \in Processes
           /\ \A p \in Processes : e \in EnginesOf[p] <=> p = Host(e)
<1>1. Host(e) \in Processes /\ e \in EnginesOf[Host(e)]
  BY ProcessesAssumption DEF Host
<1> QED  BY <1>1, ProcessesAssumption

(* Seen by the setup and by the row, a step of Next is one of theirs or    *)
(* none.                                                                   *)

LEMMA StepParts ==
    ASSUME IInv, Next
    PROVE  /\ SetupNext \/ UNCHANGED setupVars
           /\ TableNext \/ UNCHANGED tableVars
<1>1. ASSUME NEW p \in Processes, EndProcess(p)
      PROVE  SetupNext /\ UNCHANGED tableVars
  <2>1. EnginesOf[p] \in SUBSET Engines
    BY ProcessesAssumption
  <2> QED  BY <1>1, <2>1 DEF EndProcess, SetupNext
<1>2. ASSUME NEW p \in Processes, Start(p) \/ Main(p) \/ Terminate(p) \/ Crash(p)
      PROVE  (SetupNext \/ UNCHANGED setupVars) /\ UNCHANGED tableVars
  BY <1>1, <1>2 DEF Start, Main, OpenCache, OpenTimesOut, BeginClose, EndClose, Exit,
     Terminate, Crash
<1>3. ASSUME NEW e \in Engines, Cycle(e)
      PROVE  (SetupNext \/ UNCHANGED setupVars) /\ UNCHANGED tableVars
  BY <1>3 DEF Cycle, StartEngine, SetUp, NewCursor, EndTransfer, CloseCursor, PutMany,
     NextCycle, SetupNext
<1>4. ASSUME NEW e \in Engines, Resume(e)
      PROVE  SetupNext /\ UNCHANGED tableVars
  BY <1>4 DEF Resume, SetupNext
<1>5. CASE Edit \/ Foreigner
  BY <1>5 DEF Edit, Foreigner, TableNext, SetupNext
<1> QED  BY <1>2, <1>3, <1>4, <1>5 DEF Next

(* Every step preserves the lock's owner and the cursors' hosts.           *)

LEMMA ProcessStepInv ==
    ASSUME IInv, Next PROVE ProcessInv'
<1> USE DEF IInv, ProcessInv
<1>1. ASSUME NEW p \in Processes, Start(p) \/ OpenTimesOut(p) PROVE ProcessInv'
  BY <1>1, HostOfEngine
  DEF Start, OpenTimesOut, MainGoto, ProcessTypes, LockInv, CursorInv, CursorOpen
<1>2. ASSUME NEW p \in Processes, OpenCache(p) PROVE ProcessInv'
  <2>1. ProcessTypes'
    BY <1>2 DEF OpenCache, MainGoto, ProcessTypes
  <2>2. LockInv'
    BY <1>2, ProcessesAssumption DEF OpenCache, MainGoto, ProcessTypes, LockInv
  <2>3. CursorInv'
    BY <1>2, HostOfEngine DEF OpenCache, MainGoto, ProcessTypes, CursorInv, CursorOpen
  <2> QED  BY <2>1, <2>2, <2>3
<1>3. ASSUME NEW p \in Processes, BeginClose(p) PROVE ProcessInv'
  BY <1>3, HostOfEngine
  DEF BeginClose, MainGoto, ProcessTypes, LockInv, CursorInv, CursorOpen
<1>4. ASSUME NEW p \in Processes, EndClose(p) PROVE ProcessInv'
  <2>1. ProcessTypes'
    BY <1>4 DEF EndClose, MainGoto, ProcessTypes
  <2>2. LockInv'
    BY <1>4, ProcessesAssumption DEF EndClose, MainGoto, ProcessTypes, LockInv
  <2>3. CursorInv'      \* Close has waited for the cursors of p
    BY <1>4, HostOfEngine DEF EndClose, MainGoto, ProcessTypes, CursorInv, CursorOpen
  <2> QED  BY <2>1, <2>2, <2>3
<1>5. ASSUME NEW p \in Processes, Terminate(p) PROVE ProcessInv'
  BY <1>5 DEF Terminate, ProcessTypes, LockInv, CursorInv, CursorOpen
<1>6. ASSUME NEW p \in Processes, EndProcess(p) PROVE ProcessInv'
  <2>1. ProcessTypes'
    BY <1>6 DEF EndProcess, MainGoto, ProcessTypes
  <2>2. LockInv'
    BY <1>6, ProcessesAssumption DEF EndProcess, MainGoto, ProcessTypes, LockInv
  <2>3. CursorInv'      \* the cursors of p are gone with it
    BY <1>6, HostOfEngine DEF EndProcess, MainGoto, ProcessTypes, CursorInv, CursorOpen
  <2> QED  BY <2>1, <2>2, <2>3
<1>7. ASSUME NEW e \in Engines, NewCursor(e) PROVE ProcessInv'
  <2>1. cycle' \in [Engines -> {"none", "setup", "cursor", "transfer", "release",
                                "record", "wait", "ended"}]
    BY <1>7 DEF NewCursor, CycleGoto, Pause, ProcessTypes
  <2>2. CursorInv'
    BY <1>7 DEF NewCursor, CycleGoto, Pause, ProcessTypes, CursorInv, CursorOpen
  <2> QED  BY <1>7, <2>1, <2>2 DEF NewCursor, ProcessTypes, LockInv
<1>8. ASSUME NEW e \in Engines,
             \/ StartEngine(e) \/ SetUp(e) \/ EndTransfer(e) \/ CloseCursor(e)
             \/ PutMany(e) \/ NextCycle(e) \/ Resume(e)
      PROVE  ProcessInv'
  <2>1. UNCHANGED <<cast, main, rootDone, fileLock>>
    BY <1>8 DEF StartEngine, SetUp, EndTransfer, CloseCursor, PutMany, NextCycle, Resume
  <2>2. \/ UNCHANGED cycle
        \/ \E place \in {"none", "setup", "cursor", "release", "record", "wait", "ended"} :
              /\ cycle' = [cycle EXCEPT ![e] = place]
              /\ place = "release" => CursorOpen(e)
    BY <1>8 DEF StartEngine, SetUp, EndTransfer, CloseCursor, PutMany, NextCycle, Resume,
       CycleGoto, Pause, CursorOpen
  <2>3. ProcessTypes' /\ LockInv'
    BY <2>1, <2>2 DEF ProcessTypes, LockInv
  <2>4. CursorInv'
    BY <2>1, <2>2 DEF ProcessTypes, CursorInv, CursorOpen
  <2> QED  BY <2>3, <2>4
<1>9. CASE Edit \/ Foreigner
  BY <1>9 DEF Edit, Foreigner, processVars, ProcessTypes, LockInv, CursorInv, CursorOpen
<1> QED  BY <1>1, <1>2, <1>3, <1>4, <1>5, <1>6, <1>7, <1>8, <1>9
         DEF Next, Main, Exit, Crash, Cycle

-----------------------------------------------------------------------------
(* The invariant and what it implies.                                      *)

(* A program not yet started has the invariant ...                         *)

LEMMA InitInv == Init => IInv
<1> SUFFICES ASSUME Init PROVE IInv
  OBVIOUS
<1>1. SetupInv
  <2>1. <<wanted, lenient>> \in Cases
    <3>1. PICK c \in Cases : wanted = c[1] /\ lenient = c[2]
      BY DEF Init, SetupInit
    <3>2. c = <<wanted, lenient>>
      BY <3>1, CasesAssumption
    <3> QED  BY <3>2
  <2>2. target = NoTarget \/ (target \in Settings /\ Consistent(target))
    BY ForeignAssumption DEF Init, SetupInit
  <2> QED  BY <2>1, <2>2
           DEF Init, SetupInit, SetupInv, SetupTypeOK, Requests, SetupProgress, Silent, Creates
<1>2. TableInv
  <2>1. PICK keyed \in BOOLEAN : bucketRow = Encrypted(Plain("secret"), keyed)
    BY DEF Init, TableInit
  <2>2. Plain("secret") \in Credential /\ Plain("secret").layers = 0
        /\ Plain("secret").text = "secret"
    BY DEF Plain, Credential, Texts
  <2>3. bucketRow \in Credential /\ bucketRow.text = "secret"
    BY <2>1, <2>2, EncryptedType
  <2> QED  BY <2>3 DEF Init, TableInit, TableInv, TableTypeOK, Told
<1>3. ProcessInv
  BY ProcessesAssumption
  DEF Init, ProcessInv, ProcessTypes, LockInv, CursorInv, CursorOpen
<1> QED  BY <1>1, <1>2, <1>3 DEF IInv

(* ... and every step, or none, preserves it.                              *)

LEMMA NextInv == IInv /\ [Next]_vars => IInv'
<1> SUFFICES ASSUME IInv, [Next]_vars PROVE IInv'
  OBVIOUS
<1>1. UNCHANGED setupVars => SetupInv'
  BY DEF IInv, SetupInv, setupVars, SetupTypeOK, SetupProgress, Silent, Creates
<1>2. UNCHANGED tableVars => TableInv'
  BY DEF IInv, TableInv, tableVars, TableTypeOK, Told
<1>3. CASE Next
  <2>1. SetupNext => SetupInv'
    BY SetupStepInv, KillInv, ForeignCreateInv DEF IInv, SetupNext
  <2>2. TableNext => TableInv'
    BY TableStepInv DEF IInv
  <2> QED  BY <1>1, <1>2, <1>3, <2>1, <2>2, StepParts, ProcessStepInv DEF IInv
<1>4. CASE UNCHANGED vars
  <2>1. UNCHANGED <<setupVars, tableVars, processVars>>
    BY <1>4 DEF vars
  <2>2. ProcessInv'
    BY <2>1 DEF IInv, ProcessInv, processVars, ProcessTypes, LockInv, CursorInv, CursorOpen
  <2> QED  BY <1>1, <1>2, <2>1, <2>2 DEF IInv
<1> QED  BY <1>3, <1>4

(* The invariant of the composition holds of every behaviour.              *)

THEOREM Invariance == Spec => []IInv
<1> QED  BY InitInv, NextInv, PTL DEF Spec

(* Types and the owner of the lock, for any processes, engines, editors    *)
(* and clients.                                                            *)

THEOREM TypesCorrect == Spec => []TypeOK
<1>1. IInv => TypeOK
  BY DEF IInv, SetupInv, TableInv, ProcessInv, ProcessTypes, LockInv, TypeOK
<1> QED  BY <1>1, Invariance, PTL

(* Two engines transfer at the same time only within one process: both     *)
(* have a cursor open, so both hosts have the cache file locked.           *)

THEOREM ExclusiveTransfers == Spec => []TransfersExclusive
<1>1. IInv => TransfersExclusive
  <2> SUFFICES ASSUME IInv, NEW e \in Engines, NEW f \in Engines,
                      cycle[e] = "transfer", cycle[f] = "transfer"
               PROVE  Host(e) = Host(f)
    BY DEF TransfersExclusive
  <2>1. fileLock = Host(e) /\ fileLock = Host(f)
    BY HostOfEngine DEF IInv, ProcessInv, LockInv, CursorInv, CursorOpen
  <2> QED  BY <2>1
<1> QED  BY <1>1, Invariance, PTL

(* A setup without a warning has the versioning and the object lock the    *)
(* row asks for, whatever the row asks for, however many engines set the   *)
(* bucket up and whoever else creates it; and the retention rule, if it    *)
(* found no bucket itself.                                                 *)

THEOREM SilentSetups == Spec => []SilentSetup
<1>1. IInv => SilentSetup
  BY DEF IInv, SetupInv, Silent, SilentSetup
<1> QED  BY <1>1, Invariance, PTL

(* However many commands, with and without the key, update the row, a      *)
(* process with the key reads its credentials.                             *)

THEOREM ReadableCredentials == Spec => []CredentialsStayReadable
<1>1. IInv => CredentialsStayReadable
  <2> SUFFICES ASSUME IInv, bucketRow # NoBucket
               PROVE  LET c == Decrypted(bucketRow, TRUE)
                      IN  c.layers = 0 /\ (c.text = "blank" => blanked)
    BY DEF CredentialsStayReadable
  <2>1. bucketRow \in Credential /\ Told(bucketRow)
    BY DEF IInv, TableInv, TableTypeOK
  <2> QED  BY <2>1, DecryptedType DEF Told
<1> QED  BY <1>1, Invariance, PTL


-----------------------------------------------------------------------------
(* What a setup may do to the target.                                      *)

(* An engine with a request to send to a bucket that no setup created is   *)
(* at CreateBucket, which is refused, unless S3 is lenient.  A bucket that *)
(* a setup created has the row's retention rule, or none.                  *)

MadeInv ==
    /\ target # NoTarget /\ ~made /\ ~lenient =>
           \A e \in Engines : Creates(e) => setupPc[e] = "create"
    /\ made => target # NoTarget /\ (target.retained => wanted.retained)

(* What a step of the setups does: S3 performs at most one request, or     *)
(* somebody else creates the bucket; and an engine gets past CreateBucket  *)
(* if that created the bucket, or S3 is lenient.                           *)

Effects ==
    /\ UNCHANGED <<wanted, lenient>> /\ (made => made')
    /\ \/ UNCHANGED <<target, made>>
       \/ \E e \in Engines : Performed(e)
       \/ target = NoTarget /\ UNCHANGED made
    /\ \A f \in Engines : Creates(f)' =>
          \/ setupPc'[f] = "create" \/ setupPc[f] \in {"putVersioning", "putLock"}
          \/ made' \/ lenient

(* Every step of the setups does that and no more.                         *)

LEMMA SetupEffects ==
    ASSUME SetupInv, SetupNext
    PROVE  Effects
<1>1. ASSUME NEW e \in Engines, BeginSetup(e) \/ SetupStep(e)
      PROVE  Effects
  <2>1. UNCHANGED <<wanted, lenient>> /\ (UNCHANGED <<target, made>> \/ Performed(e))
    BY <1>1 DEF BeginSetup, SetupStep, Head, CreateBucket, CreateRefused, PutVersioning,
       PutObjectLock, RequestFails, Performed, GetVersioning, GetObjectLock, Check
  <2>2. \A f \in Engines : f # e => setupPc'[f] = setupPc[f]
    BY <1>1 DEF SetupInv, SetupTypeOK, BeginSetup, SetupStep, SetupGoto, Head, CreateBucket,
       CreateRefused, PutVersioning, PutObjectLock, RequestFails, GetVersioning,
       GetObjectLock, Check
  <2>3. Creates(e)' => \/ setupPc'[e] = "create"
                       \/ setupPc[e] \in {"putVersioning", "putLock"}
                       \/ made' \/ lenient
    BY <1>1 DEF SetupInv, SetupTypeOK, Creates, BeginSetup, SetupStep, SetupGoto, Head,
       FirstCheck, SecondCheck, CreateGranted, CreateBucket, CreateRefused, PutVersioning,
       PutObjectLock, RequestFails, GetVersioning, GetObjectLock, Check
  <2>4. \A f \in Engines : f # e => (Creates(f)' =>
           setupPc'[f] = "create" \/ setupPc[f] \in {"putVersioning", "putLock"})
    BY <2>2 DEF Creates
  <2> QED  BY <2>1, <2>3, <2>4 DEF Effects, Performed, SetupInv, SetupTypeOK
<1>2. ASSUME NEW es \in SUBSET Engines, KillSetups(es)
      PROVE  Effects
  <2>1. \A f \in Engines : Creates(f)' =>
           setupPc'[f] = "create" \/ setupPc[f] \in {"putVersioning", "putLock"}
    BY <1>2 DEF KillSetups, Creates
  <2>2. /\ UNCHANGED <<wanted, lenient>>
        /\ UNCHANGED <<target, made>> \/ \E e \in Engines : Performed(e)
    BY <1>2 DEF KillSetups
  <2> QED  BY <2>1, <2>2 DEF Effects, Performed, SetupInv, SetupTypeOK
<1>3. CASE ForeignCreate
  BY <1>3 DEF ForeignCreate, Effects, Creates
<1> QED  BY <1>1, <1>2, <1>3 DEF SetupNext

(* The request performed is that of an engine that found no bucket, and    *)
(* what it leaves grew.                                                    *)

LEMMA PerformedGrows ==
    ASSUME SetupInv, UNCHANGED <<wanted, lenient>>, NEW e \in Engines, Performed(e)
    PROVE  creating[e] /\ Creates(e) /\ Grows
<1>1. creating[e] /\ Creates(e)
  BY DEF SetupInv, SetupTypeOK, Creates, Performed
<1> QED  BY <1>1, RequestsGrow DEF SetupInv, Performed

(* Setups preserve the origin of the bucket's retention rule ...           *)

LEMMA MadeStep ==
    ASSUME SetupInv, MadeInv, SetupNext PROVE MadeInv'
<1>1. Effects /\ wanted \in Settings /\ made \in BOOLEAN
  BY SetupEffects, CasesAssumption DEF SetupInv, SetupTypeOK
<1>2. ASSUME ~made', ~lenient, NEW f \in Engines, Creates(f)'
      PROVE  setupPc'[f] = "create"
  <2>1. setupPc'[f] = "create" \/ setupPc[f] \in {"putVersioning", "putLock"}
    BY <1>1, <1>2 DEF Effects
  <2>2. setupPc[f] \notin {"putVersioning", "putLock"}
    BY <1>1, <1>2 DEF Effects, MadeInv, SetupInv, SetupTypeOK, Creates
  <2> QED  BY <2>1, <2>2
<1>3. made' => target' # NoTarget /\ (target'.retained => wanted.retained)
  <2>1. CASE UNCHANGED <<target, made>> \/ (target = NoTarget /\ UNCHANGED made)
    BY <2>1 DEF MadeInv
  <2>2. ASSUME NEW e \in Engines, Performed(e), made'
        PROVE  target' # NoTarget /\ (target'.retained => wanted.retained)
    <3>1. CASE target = NoTarget
      <4>1. setupPc[e] = "create" /\ target' = Created
        BY <2>2, <3>1 DEF Performed, SetupInv, SetupTypeOK
      <4>2. target' = [versioned |-> wanted.locked, locked |-> wanted.locked,
                       retained |-> FALSE]
        BY <3>1, <4>1 DEF Created, Nothing
      <4>3. target' # NoTarget
        BY <1>1, <4>1, CreatedExists
      <4> QED  BY <4>2, <4>3
    <3>2. CASE target # NoTarget
      <4>1. made /\ target \in Settings /\ (target.retained => wanted.retained)
        BY <2>2, <3>2 DEF Performed, SetupInv, SetupTypeOK, MadeInv
      <4>2. \/ target' = target
            \/ target' = [target EXCEPT !.versioned = TRUE]
            \/ target' = [target EXCEPT !.locked = TRUE, !.retained = wanted.retained]
        BY <2>2, <3>2 DEF Performed, Created, Versioned, LockedAs
      <4>3. target' # NoTarget
        BY <1>1, <2>2, <3>2, PerformedGrows DEF Effects, Grows
      <4> QED  BY <4>1, <4>2, <4>3 DEF Settings
    <3> QED  BY <3>1, <3>2
  <2> QED  BY <1>1, <2>1, <2>2 DEF Effects
<1> QED  BY <1>1, <1>2, <1>3 DEF MadeInv, Effects

(* ... and therefore never take away a setting of a bucket they created,   *)
(* nor touch another, unless S3 is lenient and it came after a HEAD.       *)

Keeps ==
    target # NoTarget =>
        /\ target' # NoTarget
        /\ ~made => target' = target \/ (lenient /\ \E e \in Engines : creating[e])
        /\ target.versioned => target'.versioned
        /\ target.locked => target'.locked
        /\ made /\ target.retained => target'.retained

(* Every step of the setups keeps that much.                               *)

LEMMA SetupKeeps ==
    ASSUME SetupInv, MadeInv, SetupNext
    PROVE  Keeps
<1> SUFFICES ASSUME target # NoTarget
             PROVE  /\ target' # NoTarget
                    /\ ~made => target' = target \/ (lenient /\ \E e \in Engines : creating[e])
                    /\ target.versioned => target'.versioned
                    /\ target.locked => target'.locked
                    /\ made /\ target.retained => target'.retained
  BY DEF Keeps
<1>1. CASE UNCHANGED target
  BY <1>1
<1>2. ASSUME NEW e \in Engines, Performed(e)
      PROVE  /\ Grows /\ (made /\ target.retained => wanted.retained)
             /\ ~made => target' = target \/ (lenient /\ creating[e])
  <2>1. creating[e] /\ Creates(e) /\ Grows
    BY <1>2, SetupEffects, PerformedGrows DEF Effects
  <2>2. ~made /\ ~lenient => setupPc[e] = "create"
    BY <2>1 DEF MadeInv
  <2>3. setupPc[e] = "create" => target' = target
    BY <1>2 DEF Performed, Created
  <2> QED  BY <2>1, <2>2, <2>3, CasesAssumption DEF MadeInv, SetupInv, SetupTypeOK
<1> QED  BY <1>1, <1>2, SetupEffects DEF Effects, Grows

(* A bucket that was there is never reconfigured, nor one that somebody    *)
(* else creates while engines are about to - unless S3 lets them create it *)
(* again - and a setting made by a setup is never taken away: for any      *)
(* number of processes and engines with one target, whatever its row asks  *)
(* for, and whoever is killed.                                             *)

THEOREM SettingsGrow == Spec => SettingsOnlyGrow
<1>1. Init => MadeInv
  BY DEF Init, SetupInit, MadeInv, Creates
<1>2. IInv /\ MadeInv /\ [Next]_vars => MadeInv' /\ [Keeps]_setupVars
  <2> SUFFICES ASSUME IInv, MadeInv, [Next]_vars
               PROVE  MadeInv' /\ [Keeps]_setupVars
    OBVIOUS
  <2>1. SetupNext \/ UNCHANGED setupVars
    BY StepParts DEF vars
  <2>2. UNCHANGED setupVars => MadeInv'
    BY DEF setupVars, MadeInv, Creates
  <2> QED  BY <2>1, <2>2, MadeStep, SetupKeeps DEF IInv
<1>3. Spec => [][Keeps]_setupVars
  BY <1>1, <1>2, Invariance, PTL DEF Spec
<1> QED  BY <1>3 DEF SettingsOnlyGrow, Keeps
=============================================================================
