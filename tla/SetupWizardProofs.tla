-------------------------- MODULE SetupWizardProofs --------------------------
(***************************************************************************)
(* Proofs about SetupWizard, for any tabs and names, any number of         *)
(* requests, lost replies, restarts, deletions and presses of "Back":      *)
(* types, that no session lacks a bucket it asks for, and that the tables  *)
(* change as Catalog says.                                                 *)
(***************************************************************************)
EXTENDS SetupWizard, TLAPS

(* A session knows the buckets of the steps it has passed.                 *)

EverStored == buckets \cup removed

KnowsSource(s) == sessions[s].source \in EverStored
KnowsTarget(s) == sessions[s].target \in EverStored

SessionsInv == \A s \in Requests :
    /\ sessions[s].step >= TargetStep => KnowsSource(s)
    /\ sessions[s].step >= PairStep => KnowsTarget(s)

(* A handler between Apply's reads and its writes: wherever the session    *)
(* has gone since, it knows what it knew at the step the request read.     *)

HandlerInv(r) ==
    /\ pc[r] = "insert" => seen[r] \in {SourceStep, TargetStep} /\ body[r].name \in Names
    /\ pc[r] \in {"insert", "advance"} /\ seen[r] >= TargetStep => KnowsSource(session[r])
    /\ pc[r] = "advance" /\ seen[r] >= PairStep => KnowsTarget(session[r])
    /\ pc[r] = "advance" /\ seen[r] < PairStep => made[r] \in EverStored
    /\ pc[r] = "insertPair" =>
          /\ seen[r] = PairStep /\ made[r] \in Pair
          /\ KnowsSource(session[r]) /\ KnowsTarget(session[r])

IInv == /\ TypeOK /\ SessionsInv
        /\ \A r \in Requests : HandlerInv(r)
        /\ \A r \in Requests : r > sent => pc[r] = "unsent"

Session == [step : SourceStep .. Done, source : Bucket \cup {NoBucket},
            target : Bucket \cup {NoBucket}]

Places == {"unsent", "apply", "insert", "insertPair", "advance", "respond",
           "failed", "gone"}

-----------------------------------------------------------------------------
(* The numbers of requests, and the steps.                                 *)

LEMMA Numbers ==
    /\ Requests \subseteq Nat \ {0} /\ 1 \in Requests /\ None \notin Requests
    /\ \A n \in Nat : n # 0 /\ n <= MaxRequests => n \in Requests
    /\ SourceStep .. Done = {1, 2, 3, 4} /\ SourceStep .. PairStep = {1, 2, 3}
BY BoundsAssumption DEF Requests, None, SourceStep, PairStep, Done

(* A bucket that exists has a name and a number.                           *)

LEMMA BucketParts ==
    ASSUME NEW b \in Bucket
    PROVE  b.id \in Requests /\ b.name \in Names /\ b # NoBucket
BY NamesAssumption, Numbers DEF Bucket, NoBucket

(* What a request says is of the right type.                               *)

LEMMA BodyParts ==
    ASSUME NEW b \in Body \cup {NoBody}
    PROVE  b.name \in Names \cup {Blank} /\ b.pair \in PairNames \cup {Blank}
BY DEF Body, NoBody

(* The forms a tab shows are bodies.                                       *)

LEMMA FormsType ==
    ASSUME NEW step \in SourceStep .. PairStep
    PROVE  Forms(step) \subseteq Body
<1>1. Role(step) \in Roles
  BY Numbers DEF Role, Roles, SourceStep, TargetStep, PairStep
<1> QED  BY <1>1 DEF Forms, Body

-----------------------------------------------------------------------------
(* Steps that leave the sessions, the tables and the handlers past Apply   *)
(* alone preserve what is known of them.                                   *)

Busy(r) == pc[r] \in {"insert", "insertPair", "advance"}

(* What is known of the sessions and of those handlers is untouched by     *)
(* such a step.                                                            *)

LEMMA QuietStep ==
    ASSUME IInv, EverStored' = EverStored, UNCHANGED <<sessions, seen, made>>,
           \A r \in Requests :
               Busy(r)' => pc'[r] = pc[r] /\ body'[r] = body[r] /\ session'[r] = session[r]
    PROVE  SessionsInv' /\ \A r \in Requests : HandlerInv(r)'
<1>1. SessionsInv'
  BY DEF IInv, SessionsInv, EverStored, KnowsSource, KnowsTarget
<1>2. ASSUME NEW r \in Requests
      PROVE  HandlerInv(r)'
  BY <1>2 DEF IInv, HandlerInv, EverStored, KnowsSource, KnowsTarget, Busy
<1> QED  BY <1>1, <1>2

(* The tab sends a form.                                                   *)

LEMMA SubmitInv ==
    ASSUME IInv, NEW t \in Tabs, Submit(t)
    PROVE  IInv'
<1> DEFINE r == sent + 1
<1>1. r \in Requests /\ shows[t] \in SourceStep .. PairStep /\ pc[r] = "unsent" /\ sent \in Nat
  BY Numbers DEF Submit, IInv, TypeOK, SourceStep, PairStep, Done
<1>2. PICK b \in Forms(shows[t]) : body' = [body EXCEPT ![r] = b]
  BY DEF Submit
<1>3. b \in Body
  BY <1>1, <1>2, FormsType
<1>4. SessionOf(t, r) \in Requests
  BY <1>1 DEF SessionOf, IInv, TypeOK
<1>5. /\ sent' = r
      /\ tab' = [tab EXCEPT ![r] = t]
      /\ session' = [session EXCEPT ![r] = SessionOf(t, r)]
      /\ pc' = [pc EXCEPT ![r] = "apply"]
      /\ waits' = [waits EXCEPT ![t] = r]
      /\ UNCHANGED <<buckets, removed, pairs, sessions, seen, made, shows, knows, troubles>>
  BY DEF Submit, tables, local
<1>6. disturbed' \subseteq Requests \cup {None}
  BY <1>1, <1>4, <1>5 DEF Submit, IInv, TypeOK
<1>7. sent' \in 0 .. MaxRequests
  BY <1>1, <1>5 DEF Requests
<1> HIDE DEF r
<1>8. TypeOK'
  BY <1>1, <1>2, <1>3, <1>4, <1>5, <1>6, <1>7 DEF IInv, TypeOK
<1>9. SessionsInv' /\ \A q \in Requests : HandlerInv(q)'
  <2>1. ASSUME NEW q \in Requests, Busy(q)'
        PROVE  pc'[q] = pc[q] /\ body'[q] = body[q] /\ session'[q] = session[q]
    BY <1>1, <1>2, <1>5, <2>1 DEF Busy, IInv, TypeOK
  <2> QED  BY <1>5, <2>1, QuietStep DEF EverStored
<1>10. \A q \in Requests : q > sent' => pc'[q] = "unsent"
  <2>1. \A q \in Requests : q > sent' => q > sent /\ q # r
    BY <1>1, <1>5, Numbers DEF r
  <2> QED  BY <1>5, <2>1 DEF IInv, TypeOK
<1> QED  BY <1>8, <1>9, <1>10 DEF IInv

(* The other steps of a tab: they end a request or change what is shown.   *)

LEMMA TroubleType ==
    ASSUME IInv, NEW ss \in SUBSET (Requests \cup {None}), Trouble(ss)
    PROVE  troubles' \in 0 .. MaxTroubles /\ disturbed' \subseteq Requests \cup {None}
<1>1. troubles \in 0 .. MaxTroubles /\ troubles < MaxTroubles /\ troubles' = troubles + 1
  BY DEF Trouble, IInv, TypeOK
<1>2. disturbed \subseteq Requests \cup {None} /\ disturbed' = disturbed \cup ss
  BY DEF Trouble, IInv, TypeOK
<1>3. troubles' \in 0 .. MaxTroubles
  BY <1>1, BoundsAssumption
<1> QED  BY <1>2, <1>3

(* The sessions a tab has something to do with are sessions.               *)

LEMMA SessionsOfType ==
    ASSUME IInv, NEW t \in Tabs
    PROVE  SessionsOf(t) \in SUBSET (Requests \cup {None})
<1>1. \A r \in 1 .. sent : r \in Requests
  <2>1. sent \in Nat /\ sent <= MaxRequests
    BY BoundsAssumption DEF IInv, TypeOK
  <2> QED  BY <2>1, BoundsAssumption DEF Requests
<1> QED  BY <1>1 DEF SessionsOf, IInv, TypeOK

(* "Back" changes what a tab shows, and nothing else.                      *)

LEMMA BackInv ==
    ASSUME IInv, NEW t \in Tabs, Back(t)
    PROVE  IInv'
<1>1. /\ shows' = [shows EXCEPT ![t] = shows[t] - 1]
      /\ shows[t] \in {TargetStep, PairStep}
      /\ UNCHANGED <<buckets, removed, pairs, sessions, sent, body, tab, session, pc, seen,
                     made, waits, knows>>
  BY DEF Back, tables, mail, local
<1>2. shows' \in [Tabs -> SourceStep .. Done]
  BY <1>1 DEF IInv, TypeOK, SourceStep, TargetStep, PairStep, Done
<1>3. troubles' \in 0 .. MaxTroubles /\ disturbed' \subseteq Requests \cup {None}
  BY SessionsOfType, TroubleType DEF Back
<1>4. TypeOK'
  BY <1>1, <1>2, <1>3 DEF IInv, TypeOK
<1>5. SessionsInv' /\ \A r \in Requests : HandlerInv(r)'
  BY <1>1, QuietStep DEF EverStored
<1> QED  BY <1>1, <1>4, <1>5 DEF IInv

(* A lost reply leaves the tab where it was.                               *)

LEMMA NetworkErrorInv ==
    ASSUME IInv, NEW t \in Tabs, NetworkError(t)
    PROVE  IInv'
<1>1. /\ waits' = [waits EXCEPT ![t] = None] /\ waits[t] \in Requests
      /\ \/ UNCHANGED pc
         \/ pc[waits[t]] = "apply" /\ pc' = [pc EXCEPT ![waits[t]] = "gone"]
      /\ UNCHANGED <<buckets, removed, pairs, sessions, sent, body, tab, session, seen,
                     made, shows, knows>>
  BY DEF NetworkError, tables, mail, local, IInv, TypeOK
<1>2. troubles' \in 0 .. MaxTroubles /\ disturbed' \subseteq Requests \cup {None}
  BY SessionsOfType, TroubleType DEF NetworkError
<1>3. TypeOK'
  BY <1>1, <1>2 DEF IInv, TypeOK
<1>4. SessionsInv' /\ \A r \in Requests : HandlerInv(r)'
  <2>1. ASSUME NEW r \in Requests, Busy(r)'
        PROVE  pc'[r] = pc[r] /\ body'[r] = body[r] /\ session'[r] = session[r]
    BY <1>1, <2>1 DEF Busy, IInv, TypeOK
  <2> QED  BY <1>1, <2>1, QuietStep DEF EverStored
<1>5. \A r \in Requests : r > sent' => pc'[r] = "unsent"
  BY <1>1 DEF IInv, TypeOK
<1> QED  BY <1>3, <1>4, <1>5 DEF IInv

(* A restart forgets the sessions and ends every request that was sent.    *)

LEMMA RestartInv ==
    ASSUME IInv, Restart
    PROVE  IInv'
<1>1. /\ sessions' = [s \in Requests |-> NewSetupState]
      /\ pc' = [r \in Requests |-> IF r <= sent THEN "gone" ELSE pc[r]]
      /\ waits' = [t \in Tabs |-> None]
      /\ UNCHANGED <<buckets, removed, pairs, sent, body, tab, session, seen, made, shows, knows>>
  BY DEF Restart, tables, mail, local
<1>2. NewSetupState \in Session /\ NewSetupState.step = SourceStep
  BY Numbers DEF NewSetupState, Session, SourceStep
<1>3. troubles' \in 0 .. MaxTroubles /\ disturbed' \subseteq Requests \cup {None}
  BY TroubleType DEF Restart
<1>4. TypeOK'
  BY <1>1, <1>2, <1>3 DEF IInv, TypeOK, Session
<1>5. SessionsInv'
  BY <1>1, <1>2 DEF SessionsInv, SourceStep, TargetStep, PairStep
<1>6. \A r \in Requests : pc'[r] \in {"unsent", "gone"}
  <2> SUFFICES ASSUME NEW r \in Requests PROVE pc'[r] \in {"unsent", "gone"}
    OBVIOUS
  <2>1. r <= sent \/ r > sent
    BY Numbers DEF IInv, TypeOK
  <2> QED  BY <1>1, <2>1 DEF IInv
<1>7. \A r \in Requests : HandlerInv(r)'
  BY <1>6 DEF HandlerInv
<1>8. \A r \in Requests : r > sent' => pc'[r] = "unsent"
  <2> SUFFICES ASSUME NEW r \in Requests, r > sent PROVE pc'[r] = "unsent"
    BY <1>1
  <2>1. ~(r <= sent)
    BY Numbers DEF IInv, TypeOK
  <2> QED  BY <1>1, <2>1 DEF IInv
<1> QED  BY <1>4, <1>5, <1>7, <1>8 DEF IInv

(* A bucket that is deleted has been stored.                               *)

LEMMA DeleteBucketInv ==
    ASSUME IInv, NEW b \in buckets, DeleteBucket(b)
    PROVE  IInv'
<1>1. /\ buckets' = buckets \ {b} /\ removed' = removed \cup {b}
      /\ UNCHANGED <<pairs, sessions, sent, body, tab, session, pc, seen, made, shows,
                     waits, knows>>
  BY DEF DeleteBucket, mail, local, tabs
<1>2. HoldersOf(b) \in SUBSET (Requests \cup {None})
  BY DEF HoldersOf, IInv, TypeOK
<1>3. troubles' \in 0 .. MaxTroubles /\ disturbed' \subseteq Requests \cup {None}
  BY <1>2, TroubleType DEF DeleteBucket
<1>4. TypeOK'
  BY <1>1, <1>3 DEF IInv, TypeOK
<1>5. SessionsInv' /\ \A r \in Requests : HandlerInv(r)'
  <2>1. EverStored' = EverStored
    BY <1>1 DEF EverStored
  <2> QED  BY <1>1, <2>1, QuietStep DEF Busy
<1> QED  BY <1>1, <1>4, <1>5 DEF IInv

-----------------------------------------------------------------------------
(* Apply.  A refusal, a cancellation or a finished session only end it.    *)

Kept(r) == UNCHANGED <<buckets, removed, pairs, sent, body, tab, session, shows, waits,
                       knows, troubles, disturbed>>

(* A request that Apply refuses changes nothing.                           *)

LEMMA EndsApplyInv ==
    ASSUME IInv, NEW r \in Requests, pc[r] = "apply", Kept(r), Fails(r),
           UNCHANGED <<sessions, seen, made>>
    PROVE  IInv'
<1>1. TypeOK'
  BY DEF IInv, TypeOK, Fails, Kept
<1>2. SessionsInv' /\ \A q \in Requests : HandlerInv(q)'
  <2>1. ASSUME NEW q \in Requests, Busy(q)'
        PROVE  pc'[q] = pc[q] /\ body'[q] = body[q] /\ session'[q] = session[q]
    BY <2>1 DEF Busy, IInv, TypeOK, Fails, Kept
  <2> QED  BY <2>1, QuietStep DEF EverStored, Kept
<1>3. \A q \in Requests : q > sent' => pc'[q] = "unsent"
  BY DEF IInv, TypeOK, Fails, Kept
<1> QED  BY <1>1, <1>2, <1>3 DEF IInv

(* The bucket of a form exists, or will be inserted.                       *)

LEMMA FindsBucketInv ==
    ASSUME IInv, NEW r \in Requests, pc[r] = "apply", Kept(r), FindsBucket(r)
    PROVE  IInv'
<1>1. /\ At(r).step \in {SourceStep, TargetStep} /\ body[r].name \in Names
      /\ seen' = [seen EXCEPT ![r] = At(r).step]
      /\ UNCHANGED sessions
  BY BodyParts DEF FindsBucket, IInv, TypeOK
<1>2. session[r] \in Requests /\ At(r) = sessions[session[r]]
  BY DEF At, IInv, TypeOK
<1>3. \/ /\ pc' = [pc EXCEPT ![r] = "advance"]
         /\ \E b \in buckets : made' = [made EXCEPT ![r] = b]
      \/ pc' = [pc EXCEPT ![r] = "insert"] /\ made' = made
  <2>1. Exists(body[r].name) => Named(body[r].name) \in buckets
    BY DEF Exists, Named
  <2> QED  BY <2>1 DEF FindsBucket
<1>4. /\ \A q \in Requests : q # r => /\ pc'[q] = pc[q] /\ seen'[q] = seen[q]
                                      /\ made'[q] = made[q]
      /\ seen'[r] = At(r).step /\ pc'[r] \in {"insert", "advance"}
      /\ pc'[r] = "advance" => made'[r] \in EverStored
  BY <1>1, <1>3 DEF IInv, TypeOK, EverStored
<1>5. TypeOK'
  <2>1. seen' \in [Requests -> SourceStep .. PairStep]
    BY <1>1 DEF IInv, TypeOK, SourceStep, TargetStep, PairStep
  <2>2. made' \in [Requests -> Bucket \cup {NoBucket} \cup Pair]
    BY <1>3 DEF IInv, TypeOK
  <2>3. pc' \in [Requests -> Places]
    BY <1>3 DEF IInv, TypeOK, Places
  <2> QED  BY <1>1, <2>1, <2>2, <2>3 DEF IInv, TypeOK, Kept, Places
<1>6. SessionsInv'
  BY <1>1 DEF IInv, SessionsInv, EverStored, KnowsSource, KnowsTarget, Kept
<1>7. ASSUME NEW q \in Requests  PROVE HandlerInv(q)'
  <2>1. CASE q = r
    <3>1. At(r).step >= TargetStep => KnowsSource(session[r])
      BY <1>2 DEF IInv, SessionsInv
    <3>2. ~(At(r).step >= PairStep)
      BY <1>1 DEF SourceStep, TargetStep, PairStep
    <3> QED  BY <1>1, <1>4, <2>1, <3>1, <3>2
             DEF HandlerInv, EverStored, KnowsSource, KnowsTarget, Kept
  <2>2. CASE q # r
    BY <1>1, <1>4, <2>2 DEF IInv, HandlerInv, EverStored, KnowsSource, KnowsTarget, Kept
  <2> QED  BY <2>1, <2>2
<1>8. \A q \in Requests : q > sent' => pc'[q] = "unsent"
  BY <1>4 DEF IInv, Kept
<1> QED  BY <1>5, <1>6, <1>7, <1>8 DEF IInv

(* Back, in the API: from the pair to the target.                          *)

LEMMA GoesBackInv ==
    ASSUME IInv, NEW r \in Requests, pc[r] = "apply", Kept(r), GoesBack(r)
    PROVE  IInv'
<1> DEFINE s == session[r]
<1>1. /\ s \in Requests /\ sessions[s].step = PairStep
      /\ sessions' = [sessions EXCEPT ![s].step = TargetStep]
      /\ pc' = [pc EXCEPT ![r] = "respond"]
      /\ UNCHANGED <<seen, made>>
  BY DEF GoesBack, At, IInv, TypeOK, local
<1>2. sessions \in [Requests -> Session] /\ TargetStep \in SourceStep .. Done
  BY DEF IInv, TypeOK, Session, SourceStep, TargetStep, Done
<1> HIDE DEF s
<1>3. /\ sessions' \in [Requests -> Session]
      /\ \A u \in Requests : /\ sessions'[u].source = sessions[u].source
                             /\ sessions'[u].target = sessions[u].target
                             /\ sessions'[u].step = IF u = s THEN TargetStep ELSE sessions[u].step
  BY <1>1, <1>2 DEF Session
<1>4. TypeOK'
  BY <1>1, <1>3 DEF IInv, TypeOK, Kept, Session
<1>5. SessionsInv'
  BY <1>1, <1>3 DEF IInv, SessionsInv, EverStored, KnowsSource, KnowsTarget, Kept, TargetStep, PairStep
<1>6. \A q \in Requests : HandlerInv(q)'
  <2> SUFFICES ASSUME NEW q \in Requests PROVE HandlerInv(q)'
    OBVIOUS
  <2>1. session[q] \in Requests
    BY DEF IInv, TypeOK
  <2>2. Busy(q)' => pc'[q] = pc[q]
    BY <1>1 DEF Busy, IInv, TypeOK
  <2> QED  BY <1>1, <1>3, <2>1, <2>2 DEF IInv, HandlerInv, Busy, EverStored, KnowsSource, KnowsTarget, Kept
<1>7. \A q \in Requests : q > sent' => pc'[q] = "unsent"
  BY <1>1 DEF IInv, TypeOK, Kept
<1> QED  BY <1>4, <1>5, <1>6, <1>7 DEF IInv

(* The pair's row takes the buckets of the session, which has both.        *)

LEMMA PreparesPairInv ==
    ASSUME IInv, NEW r \in Requests, pc[r] = "apply", Kept(r), PreparesPair(r)
    PROVE  IInv'
<1>1. /\ session[r] \in Requests /\ sessions[session[r]].step = PairStep
      /\ seen' = [seen EXCEPT ![r] = PairStep]
      /\ made' = [made EXCEPT ![r] = PairOf(r)]
      /\ pc' = [pc EXCEPT ![r] = "insertPair"]
      /\ UNCHANGED sessions
  BY DEF PreparesPair, At, IInv, TypeOK
<1>2. KnowsSource(session[r]) /\ KnowsTarget(session[r])
  BY <1>1 DEF IInv, SessionsInv, TargetStep, PairStep
<1>3. /\ sessions[session[r]].source \in Bucket
      /\ sessions[session[r]].target \in Bucket
  BY <1>2 DEF EverStored, KnowsSource, KnowsTarget, IInv, TypeOK
<1>4. /\ PairOf(r) \in Pair
      /\ PairOf(r).source = sessions[session[r]].source.id
      /\ PairOf(r).target = sessions[session[r]].target.id
  <2>1. (IF body[r].pair # Blank THEN body[r].pair
         ELSE <<At(r).source.name, At(r).target.name>>) \in PairNames \cup (Names \X Names)
    <3>1. body[r].pair \in PairNames \cup {Blank}
      BY BodyParts DEF IInv, TypeOK
    <3> QED  BY <1>3, <3>1, BucketParts DEF At
  <2>2. At(r).source.id \in Requests /\ At(r).target.id \in Requests
    BY <1>3, BucketParts DEF At
  <2> QED  BY <2>1, <2>2 DEF PairOf, Pair, At
<1>5. /\ \A q \in Requests : q # r => /\ pc'[q] = pc[q] /\ seen'[q] = seen[q]
                                      /\ made'[q] = made[q]
      /\ seen'[r] = PairStep /\ pc'[r] = "insertPair" /\ made'[r] = PairOf(r)
  BY <1>1 DEF IInv, TypeOK
<1>6. TypeOK'
  <2>1. seen' \in [Requests -> SourceStep .. PairStep]
    BY <1>1 DEF IInv, TypeOK, SourceStep, PairStep
  <2>2. made' \in [Requests -> Bucket \cup {NoBucket} \cup Pair]
    BY <1>1, <1>4 DEF IInv, TypeOK
  <2>3. pc' \in [Requests -> Places]
    BY <1>1 DEF IInv, TypeOK, Places
  <2> QED  BY <1>1, <2>1, <2>2, <2>3 DEF IInv, TypeOK, Kept, Places
<1>7. SessionsInv'
  BY <1>1 DEF IInv, SessionsInv, EverStored, KnowsSource, KnowsTarget, Kept
<1>8. ASSUME NEW q \in Requests  PROVE HandlerInv(q)'
  <2>1. CASE q = r
    BY <1>1, <1>2, <1>4, <1>5, <2>1 DEF HandlerInv, EverStored, KnowsSource, KnowsTarget, Kept
  <2>2. CASE q # r
    BY <1>1, <1>5, <2>2 DEF IInv, HandlerInv, EverStored, KnowsSource, KnowsTarget, Kept
  <2> QED  BY <2>1, <2>2
<1>9. \A q \in Requests : q > sent' => pc'[q] = "unsent"
  BY <1>5 DEF IInv, Kept
<1> QED  BY <1>6, <1>7, <1>8, <1>9 DEF IInv

(* Apply reads the session: what the handler takes from it is what it      *)
(* knows.                                                                  *)

LEMMA ApplyInv ==
    ASSUME IInv, NEW r \in Requests, Apply(r)
    PROVE  IInv'
<1>1. pc[r] = "apply" /\ Kept(r)
  BY DEF Apply, Stays, tables, mail, tabs, upsets, Kept
<1>2. \/ Cancelled(r) \/ RefusesBucket(r) \/ FindsBucket(r) \/ GoesBack(r)
      \/ PreparesPair(r) \/ Complete(r)
  BY DEF Apply
<1>3. CASE Cancelled(r) \/ RefusesBucket(r) \/ Complete(r)
  BY <1>1, <1>3, EndsApplyInv DEF Cancelled, RefusesBucket, Complete, local
<1> QED  BY <1>1, <1>2, <1>3, FindsBucketInv, GoesBackInv, PreparesPairInv

-----------------------------------------------------------------------------
(* The writes.  What was stored once was, so what is known of a bucket     *)
(* stays.                                                                  *)

LEMMA InsertInv ==
    ASSUME IInv, NEW r \in Requests, Insert(r)
    PROVE  IInv'
<1> DEFINE b == [id |-> r, name |-> body[r].name]
<1>1. /\ pc[r] = "insert"
      /\ UNCHANGED <<removed, pairs, sessions, sent, body, tab, session, seen, shows, waits,
                     knows, troubles, disturbed>>
  BY DEF Insert, mail, tabs, upsets
<1>2. seen[r] \in {SourceStep, TargetStep} /\ body[r].name \in Names
  BY <1>1 DEF IInv, HandlerInv
<1>3. b \in Bucket
  BY <1>2 DEF Bucket
<1> HIDE DEF b
<1>4. \/ pc' = [pc EXCEPT ![r] = "failed"] /\ UNCHANGED <<buckets, made>>
      \/ /\ buckets' = buckets \cup {b}
         /\ made' = [made EXCEPT ![r] = b]
         /\ pc' = [pc EXCEPT ![r] = "advance"]
  BY DEF Insert, Fails, b
<1>5. /\ \A q \in Requests : q # r => pc'[q] = pc[q] /\ made'[q] = made[q]
      /\ pc'[r] \in {"failed", "advance"} /\ EverStored \subseteq EverStored'
      /\ pc'[r] = "advance" => made'[r] \in EverStored'
  BY <1>1, <1>4 DEF IInv, TypeOK, EverStored
<1>6. TypeOK'
  <2>1. made' \in [Requests -> Bucket \cup {NoBucket} \cup Pair] /\ buckets' \subseteq Bucket
    BY <1>3, <1>4 DEF IInv, TypeOK
  <2>2. pc' \in [Requests -> Places]
    BY <1>4 DEF IInv, TypeOK, Places
  <2> QED  BY <1>1, <2>1, <2>2 DEF IInv, TypeOK, Places
<1>7. SessionsInv'
  BY <1>1, <1>5 DEF IInv, SessionsInv, EverStored, KnowsSource, KnowsTarget
<1>8. ASSUME NEW q \in Requests  PROVE HandlerInv(q)'
  <2>1. CASE q = r
    <3>1. ~(seen[r] >= PairStep)
      BY <1>2 DEF SourceStep, TargetStep, PairStep
    <3>2. seen[r] >= TargetStep => KnowsSource(session[r])'
      BY <1>1, <1>5 DEF IInv, HandlerInv, EverStored, KnowsSource
    <3> QED  BY <1>1, <1>5, <2>1, <3>1, <3>2 DEF HandlerInv
  <2>2. CASE q # r
    BY <1>1, <1>5, <2>2 DEF IInv, HandlerInv, EverStored, KnowsSource, KnowsTarget
  <2> QED  BY <2>1, <2>2
<1>9. \A q \in Requests : q > sent' => pc'[q] = "unsent"
  BY <1>1, <1>5 DEF IInv
<1> QED  BY <1>6, <1>7, <1>8, <1>9 DEF IInv

(* The session still knows the two buckets the pair that is stored joins.  *)

LEMMA InsertPairInv ==
    ASSUME IInv, NEW r \in Requests, InsertPair(r)
    PROVE  IInv'
<1>1. /\ pc[r] = "insertPair"
      /\ \/ pc' = [pc EXCEPT ![r] = "failed"] /\ UNCHANGED pairs
         \/ pc' = [pc EXCEPT ![r] = "advance"] /\ pairs' = pairs \cup {made[r]}
      /\ UNCHANGED <<buckets, removed, sessions, sent, body, tab, session, seen, made, shows,
                     waits, knows, troubles, disturbed>>
  BY DEF InsertPair, Fails, mail, local, tabs, upsets
<1>2. /\ seen[r] = PairStep /\ made[r] \in Pair
      /\ KnowsSource(session[r]) /\ KnowsTarget(session[r])
  BY <1>1 DEF IInv, HandlerInv
<1>3. TypeOK'
  <2>1. pairs' \subseteq Pair
    BY <1>1, <1>2 DEF IInv, TypeOK
  <2>2. pc' \in [Requests -> Places]
    BY <1>1 DEF IInv, TypeOK, Places
  <2> QED  BY <1>1, <2>1, <2>2 DEF IInv, TypeOK, Places
<1>4. SessionsInv'
  BY <1>1, <1>2 DEF IInv, SessionsInv, EverStored, KnowsSource, KnowsTarget
<1>5. ASSUME NEW q \in Requests  PROVE HandlerInv(q)'
  <2>1. pc'[q] = IF q = r THEN pc'[r] ELSE pc[q]
    BY <1>1 DEF IInv, TypeOK
  <2>2. pc'[r] \in {"failed", "advance"}
    BY <1>1 DEF IInv, TypeOK
  <2>3. CASE q = r
    BY <1>1, <1>2, <2>2, <2>3 DEF HandlerInv, EverStored, KnowsSource, KnowsTarget, PairStep
  <2>4. CASE q # r
    BY <1>1, <2>1, <2>4 DEF IInv, HandlerInv, EverStored, KnowsSource, KnowsTarget
  <2> QED  BY <2>3, <2>4
<1>6. \A q \in Requests : q > sent' => pc'[q] = "unsent"
  BY <1>1 DEF IInv, TypeOK
<1> QED  BY <1>3, <1>4, <1>5, <1>6 DEF IInv

(* A session moves on to the step after the one the request read, wherever *)
(* it has gone since: it knows what that step takes for granted.           *)

LEMMA AdvanceInv ==
    ASSUME IInv, NEW r \in Requests, Advance(r)
    PROVE  IInv'
<1> DEFINE s == session[r]
           new == [sessions[s] EXCEPT
                     !.source = IF seen[r] = SourceStep THEN made[r] ELSE sessions[s].source,
                     !.target = IF seen[r] = TargetStep THEN made[r] ELSE sessions[s].target,
                     !.step = seen[r] + 1]
<1>1. /\ pc[r] = "advance"
      /\ pc' = [pc EXCEPT ![r] = "respond"]
      /\ UNCHANGED <<buckets, removed, pairs, sent, body, tab, session, seen, made, shows,
                     waits, knows, troubles, disturbed>>
  BY DEF Advance, Stays, local, tables, mail, tabs, upsets
<1>2. s \in Requests /\ sessions \in [Requests -> Session] /\ EverStored \subseteq Bucket
  BY DEF IInv, TypeOK, Session, EverStored
<1>3. seen[r] \in {1, 2, 3}
  BY Numbers DEF IInv, TypeOK
<1>4. /\ seen[r] >= TargetStep => KnowsSource(s)
      /\ seen[r] >= PairStep => KnowsTarget(s)
      /\ seen[r] < PairStep => made[r] \in EverStored
  BY <1>1 DEF IInv, HandlerInv
<1>5. sessions' = [sessions EXCEPT ![s] = new]
  BY <1>2 DEF Advance, Session
<1>6. new.step = seen[r] + 1 /\ new.step \in SourceStep .. Done
  BY <1>2, <1>3, Numbers DEF Session
<1>7. /\ new.source \in Bucket \cup {NoBucket}
      /\ new.source \in EverStored \/ new.source = sessions[s].source
      /\ new.step >= TargetStep => new.source \in EverStored
  BY <1>2, <1>3, <1>4, <1>6 DEF Session, EverStored, KnowsSource, SourceStep, TargetStep, PairStep
<1>8. /\ new.target \in Bucket \cup {NoBucket}
      /\ new.target \in EverStored \/ new.target = sessions[s].target
      /\ new.step >= PairStep => new.target \in EverStored
  BY <1>2, <1>3, <1>4, <1>6 DEF Session, KnowsTarget, SourceStep, TargetStep, PairStep
<1>9. new \in Session
  BY <1>2, <1>6, <1>7, <1>8 DEF Session
<1> HIDE DEF new, s
<1>10. \A u \in Requests : u # s => sessions'[u] = sessions[u]
  BY <1>2, <1>5
<1>11. sessions'[s] = new /\ sessions' \in [Requests -> Session]
  BY <1>2, <1>5, <1>9
<1>12. \A u \in Requests : /\ KnowsSource(u) => KnowsSource(u)'
                           /\ KnowsTarget(u) => KnowsTarget(u)'
  BY <1>1, <1>7, <1>8, <1>10, <1>11 DEF EverStored, KnowsSource, KnowsTarget
<1>13. TypeOK'
  <2>1. pc' \in [Requests -> Places]
    BY <1>1 DEF IInv, TypeOK, Places
  <2> QED  BY <1>1, <1>11, <2>1 DEF IInv, TypeOK, Session, Places
<1>14. SessionsInv'
  <2> SUFFICES ASSUME NEW u \in Requests
               PROVE  /\ sessions'[u].step >= TargetStep => KnowsSource(u)'
                      /\ sessions'[u].step >= PairStep => KnowsTarget(u)'
    BY DEF SessionsInv
  <2>1. CASE u = s
    BY <1>1, <1>7, <1>8, <1>11, <2>1 DEF EverStored, KnowsSource, KnowsTarget
  <2>2. CASE u # s
    BY <1>10, <1>12, <2>2 DEF IInv, SessionsInv
  <2> QED  BY <2>1, <2>2
<1>15. ASSUME NEW q \in Requests  PROVE HandlerInv(q)'
  <2>1. session[q] \in Requests
    BY DEF IInv, TypeOK
  <2>2. Busy(q)' => pc'[q] = pc[q]
    BY <1>1 DEF Busy, IInv, TypeOK
  <2>3. /\ KnowsSource(session[q]) => KnowsSource(session[q])'
        /\ KnowsTarget(session[q]) => KnowsTarget(session[q])'
    BY <1>1, <1>12, <2>1 DEF EverStored, KnowsSource, KnowsTarget
  <2>4. EverStored' = EverStored
    BY <1>1 DEF EverStored
  <2> QED  BY <1>1, <2>2, <2>3, <2>4 DEF IInv, HandlerInv, Busy
<1>16. \A q \in Requests : q > sent' => pc'[q] = "unsent"
  BY <1>1 DEF IInv, TypeOK
<1> QED  BY <1>13, <1>14, <1>15, <1>16 DEF IInv

(* The reply.                                                              *)

LEMMA RespondInv ==
    ASSUME IInv, NEW r \in Requests, Respond(r)
    PROVE  IInv'
<1>1. /\ pc' = [pc EXCEPT ![r] = "gone"] /\ pc[r] \in {"respond", "failed"}
      /\ waits' = [t \in Tabs |-> IF t \in Waiting(r) THEN None ELSE waits[t]]
      /\ UNCHANGED <<buckets, removed, pairs, sessions, sent, body, tab, session, seen, made,
                     troubles, disturbed>>
  BY DEF Respond, tables, mail, local, upsets
<1>2. session[r] \in Requests /\ At(r).step \in SourceStep .. Done
  BY DEF At, IInv, TypeOK
<1>3. /\ shows' \in [Tabs -> SourceStep .. Done]
      /\ knows' \in [Tabs -> Requests \cup {None}]
      /\ waits' \in [Tabs -> Requests \cup {None}]
  <2>1. CASE pc[r] = "failed"
    BY <1>1, <2>1 DEF Respond, IInv, TypeOK
  <2>2. CASE pc[r] # "failed"
    BY <1>1, <1>2, <2>2 DEF Respond, IInv, TypeOK
  <2> QED  BY <2>1, <2>2
<1>4. TypeOK'
  <2>1. pc' \in [Requests -> Places]
    BY <1>1 DEF IInv, TypeOK, Places
  <2> QED  BY <1>1, <1>3, <2>1 DEF IInv, TypeOK, Places
<1>5. SessionsInv' /\ \A q \in Requests : HandlerInv(q)'
  <2>1. ASSUME NEW q \in Requests, Busy(q)'
        PROVE  pc'[q] = pc[q] /\ body'[q] = body[q] /\ session'[q] = session[q]
    BY <1>1, <2>1 DEF Busy, IInv, TypeOK
  <2> QED  BY <1>1, <2>1, QuietStep DEF EverStored
<1>6. \A q \in Requests : q > sent' => pc'[q] = "unsent"
  BY <1>1 DEF IInv, TypeOK
<1> QED  BY <1>4, <1>5, <1>6 DEF IInv

-----------------------------------------------------------------------------
(* The invariant holds at first.                                           *)

LEMMA InitInv == Init => IInv
<1> SUFFICES ASSUME Init PROVE IInv
  OBVIOUS
<1>1. NewSetupState \in Session /\ NewSetupState.step = SourceStep
  BY Numbers DEF NewSetupState, Session, SourceStep
<1>2. TypeOK
  <2>1. 0 \in 0 .. MaxRequests /\ 0 \in 0 .. MaxTroubles
    BY BoundsAssumption
  <2> QED  BY <1>1, <2>1, Numbers DEF Init, TypeOK, Session, SourceStep
<1>3. SessionsInv
  BY <1>1 DEF Init, SessionsInv, SourceStep, TargetStep, PairStep
<1>4. \A r \in Requests : HandlerInv(r) /\ pc[r] = "unsent"
  BY DEF Init, HandlerInv
<1> QED  BY <1>2, <1>3, <1>4 DEF IInv

(* And every step preserves it.                                            *)

LEMMA NextInv == IInv /\ [Next]_vars => IInv'
<1> SUFFICES ASSUME IInv, [Next]_vars PROVE IInv'
  OBVIOUS
<1>1. ASSUME NEW t \in Tabs, Submit(t) \/ Back(t) \/ NetworkError(t)
      PROVE  IInv'
  BY <1>1, SubmitInv, BackInv, NetworkErrorInv
<1>2. ASSUME NEW r \in Requests, Handler(r)
      PROVE  IInv'
  BY <1>2, ApplyInv, InsertInv, InsertPairInv, AdvanceInv, RespondInv DEF Handler
<1>3. CASE Restart \/ \E b \in buckets : DeleteBucket(b)
  BY <1>3, RestartInv, DeleteBucketInv
<1>4. CASE UNCHANGED vars
  <2>1. TypeOK'
    BY <1>4 DEF vars, tables, mail, local, tabs, upsets, IInv, TypeOK
  <2>2. SessionsInv' /\ \A r \in Requests : HandlerInv(r)'
    BY <1>4, QuietStep DEF EverStored, vars, tables, mail, local
  <2> QED  BY <1>4, <2>1, <2>2 DEF vars, mail, IInv
<1> QED  BY <1>1, <1>2, <1>3, <1>4 DEF Next, Rest

(* The invariant holds in every state the wizard can reach.                *)

THEOREM Invariance == Spec => []IInv
<1> QED  BY InitInv, NextInv, PTL DEF Spec

(* The variables have their types.                                         *)

THEOREM TypesCorrect == Spec => []TypeOK
<1>1. IInv => TypeOK
  BY DEF IInv
<1> QED  BY <1>1, Invariance, PTL

(* A session that asks for the pair has both buckets, so that Apply        *)
(* dereferences no nil, whatever replies are lost or come late.            *)

THEOREM NoNilBucket == Spec => []BothBucketsKnown
<1>1. IInv => BothBucketsKnown
  <2> SUFFICES ASSUME IInv, NEW s \in Requests, sessions[s].step >= PairStep
               PROVE  sessions[s].source # NoBucket /\ sessions[s].target # NoBucket
    BY DEF BothBucketsKnown
  <2>1. sessions[s].step >= TargetStep
    BY Numbers DEF IInv, TypeOK, TargetStep, PairStep
  <2>2. sessions[s].source \in Bucket /\ sessions[s].target \in Bucket
    BY <2>1 DEF IInv, TypeOK, SessionsInv, EverStored, KnowsSource, KnowsTarget
  <2> QED  BY <2>2, BucketParts
<1> QED  BY <1>1, Invariance, PTL

-----------------------------------------------------------------------------
(* The refinement of Catalog: the id of a bucket is the number of a        *)
(* request that has inserted already, no row is both stored and removed,   *)
(* and a pair about to be inserted has the name it was given or its        *)
(* buckets'.                                                               *)

UsedUp == \A b \in EverStored : pc[b.id] \notin {"unsent", "apply", "insert"}

Joins(p, b, c) ==
    \E name \in PairNames \cup {<<b.name, c.name>>} :
        p = [name |-> name, source |-> b.id, target |-> c.id]

WellMade == \A r \in Requests : pc[r] = "insertPair" =>
                \E b, c \in EverStored : Joins(made[r], b, c)

CatalogInv == IInv /\ UsedUp /\ buckets \cap removed = {} /\ WellMade

(* A request's pair is made of the buckets its session knows.              *)

LEMMA PreparedJoins ==
    ASSUME IInv, NEW r \in Requests, pc[r] = "apply", PreparesPair(r)
    PROVE  \E b, c \in EverStored : Joins(made'[r], b, c)
<1>1. /\ session[r] \in Requests /\ sessions[session[r]].step = PairStep
      /\ made' = [made EXCEPT ![r] = PairOf(r)] /\ DOMAIN made = Requests
      /\ body[r] \in Body \cup {NoBody}
  BY DEF PreparesPair, At, IInv, TypeOK
<1>2. sessions[session[r]].source \in EverStored /\ sessions[session[r]].target \in EverStored
  <2>1. PairStep >= TargetStep /\ PairStep >= PairStep
    BY DEF TargetStep, PairStep
  <2> QED  BY <1>1, <2>1 DEF IInv, SessionsInv, EverStored, KnowsSource, KnowsTarget
<1>3. Joins(made'[r], sessions[session[r]].source, sessions[session[r]].target)
  BY <1>1, BodyParts DEF PairOf, At, Joins
<1> QED  BY <1>2, <1>3

(* A step adds nothing to the tables, a bucket or a pair.                  *)

LEMMA TablesStep ==
    ASSUME CatalogInv, [Next]_vars
    PROVE  CatalogInv' /\ (C!CNext \/ UNCHANGED <<buckets, removed, pairs>>)
<1>1. IInv'
  BY NextInv DEF CatalogInv
<1>2. /\ pc \in [Requests -> Places] /\ DOMAIN made = Requests
      /\ \A b \in EverStored : b.id \in Requests
  BY BucketParts DEF CatalogInv, IInv, TypeOK, Places, EverStored
<1>3. ASSUME EverStored' = EverStored,
             \A q \in Requests : pc'[q] \in {"unsent", "apply", "insert"} =>
                                    pc[q] \in {"unsent", "apply", "insert"},
             \A q \in Requests : pc'[q] = "insertPair" =>
                                    pc[q] = "insertPair" /\ made'[q] = made[q]
      PROVE  UsedUp' /\ WellMade'
  BY <1>2, <1>3 DEF CatalogInv, UsedUp, WellMade
<1>4. CASE \E t \in Tabs : Submit(t) \/ Back(t) \/ NetworkError(t)
  <2>1. /\ UNCHANGED <<buckets, removed, pairs, made>>
        /\ \A q \in Requests : \/ pc'[q] = pc[q]
                               \/ pc[q] = "unsent" /\ pc'[q] = "apply"
                               \/ pc'[q] = "gone"
    <3>1. ASSUME NEW t \in Tabs, Submit(t)
          PROVE  pc[sent + 1] = "unsent" /\ sent + 1 \in Requests
      BY <3>1, BoundsAssumption DEF Submit, CatalogInv, IInv, TypeOK, Requests
    <3> QED  BY <1>2, <1>4, <3>1
             DEF Submit, Back, NetworkError, tables, local, mail
  <2> QED  BY <1>1, <1>3, <2>1 DEF CatalogInv, EverStored
<1>5. CASE Restart
  <2>1. /\ UNCHANGED <<buckets, removed, pairs, made>>
        /\ \A q \in Requests : pc'[q] \in {"gone", pc[q]}
    BY <1>5 DEF Restart, tables, local
  <2> QED  BY <1>1, <1>3, <2>1 DEF CatalogInv, EverStored
<1>6. CASE \E r \in Requests : Apply(r)
  <2>1. PICK r \in Requests : Apply(r)
    BY <1>6
  <2>2. /\ UNCHANGED <<buckets, removed, pairs>> /\ pc[r] = "apply"
        /\ \A q \in Requests : q # r => pc'[q] = pc[q] /\ made'[q] = made[q]
    BY <1>2, <2>1
       DEF Apply, Stays, tables, local, Cancelled, RefusesBucket, FindsBucket, GoesBack,
           PreparesPair, Complete, Fails
  <2>3. pc'[r] = "insertPair" => PreparesPair(r)
    BY <1>2, <2>1
       DEF Apply, Cancelled, RefusesBucket, FindsBucket, GoesBack, Complete, Fails
  <2>4. WellMade'
    <3>1. pc'[r] = "insertPair" => \E b, c \in EverStored : Joins(made'[r], b, c)
      BY <2>2, <2>3, PreparedJoins DEF CatalogInv
    <3> QED  BY <2>2, <3>1 DEF CatalogInv, WellMade, EverStored
  <2>5. UsedUp'
    BY <1>2, <2>2 DEF CatalogInv, UsedUp, EverStored
  <2> QED  BY <1>1, <2>2, <2>4, <2>5 DEF CatalogInv
<1>7. CASE \E r \in Requests : Insert(r)
  <2>1. PICK r \in Requests : Insert(r)
    BY <1>7
  <2>2. /\ pc[r] = "insert" /\ UNCHANGED <<removed, pairs>> /\ body[r].name \in Names
        /\ pc'[r] \in {"failed", "advance"}
        /\ \A q \in Requests : q # r => pc'[q] = pc[q] /\ made'[q] = made[q]
    BY <1>2, <2>1 DEF Insert, Fails, CatalogInv, IInv, HandlerInv
  <2>3. \/ buckets' = buckets
        \/ /\ ~Exists(body[r].name)
           /\ buckets' = buckets \cup {[id |-> r, name |-> body[r].name]}
    BY <2>1 DEF Insert
  <2>4. \A b \in EverStored : b.id # r
    BY <2>2 DEF CatalogInv, UsedUp
  <2>5. UsedUp' /\ WellMade' /\ (buckets \cap removed = {})'
    <3>1. EverStored \subseteq EverStored'
      BY <2>2, <2>3 DEF EverStored
    <3>2. UsedUp'
      BY <1>2, <2>2, <2>3 DEF CatalogInv, UsedUp, EverStored
    <3>3. WellMade'
      BY <2>2, <3>1 DEF CatalogInv, WellMade
    <3>4. (buckets \cap removed = {})'
      BY <2>2, <2>3, <2>4 DEF CatalogInv, EverStored
    <3> QED  BY <3>2, <3>3, <3>4
  <2>6. buckets' = buckets \/ C!AddBucket(r, body[r].name)
    BY <2>2, <2>3, <2>4 DEF Exists, C!AddBucket, EverStored, C!EverStored
  <2> QED  BY <1>1, <2>2, <2>5, <2>6 DEF CatalogInv, C!CNext
<1>8. CASE \E r \in Requests : InsertPair(r)
  <2>1. PICK r \in Requests : InsertPair(r)
    BY <1>8
  <2>2. /\ pc[r] = "insertPair" /\ UNCHANGED <<buckets, removed, made>>
        /\ pc'[r] \in {"failed", "advance"} /\ \A q \in Requests : q # r => pc'[q] = pc[q]
        /\ \/ pairs' = pairs
           \/ /\ \A p \in pairs : p.name # made[r].name
              /\ pairs' = pairs \cup {made[r]}
    BY <1>2, <2>1 DEF InsertPair, Fails, local
  <2>3. UsedUp' /\ WellMade'
    <3>1. \A q \in Requests : pc'[q] # pc[q] => pc'[q] \in {"failed", "advance"}
      BY <2>2
    <3> QED  BY <1>3, <2>2, <3>1 DEF EverStored
  <2>4. PICK b \in EverStored, c \in EverStored : Joins(made[r], b, c)
    BY <2>2 DEF CatalogInv, WellMade
  <2>5. PICK name \in PairNames \cup {<<b.name, c.name>>} :
           made[r] = [name |-> name, source |-> b.id, target |-> c.id]
    BY <2>4 DEF Joins
  <2>6. pairs' = pairs \/ C!AddPair(b, c, name)
    BY <2>2, <2>5 DEF C!AddPair
  <2> QED  BY <1>1, <2>2, <2>3, <2>4, <2>6 DEF CatalogInv, C!CNext, EverStored, C!EverStored
<1>9. CASE \E r \in Requests : Advance(r) \/ Respond(r)
  <2>1. /\ UNCHANGED <<buckets, removed, pairs, made>>
        /\ \A q \in Requests : pc'[q] \in {"respond", "gone", pc[q]}
    BY <1>2, <1>9 DEF Advance, Respond, Stays, tables, local
  <2> QED  BY <1>1, <1>3, <2>1 DEF CatalogInv, EverStored
<1>10. CASE Rest \/ UNCHANGED vars
  <2>1. UNCHANGED <<buckets, removed, pairs, made, pc>>
    BY <1>10 DEF Rest, vars, tables, local
  <2> QED  BY <1>1, <1>3, <2>1 DEF CatalogInv, EverStored
<1>11. CASE \E b \in buckets : DeleteBucket(b)
  <2>1. PICK b \in buckets : DeleteBucket(b)
    BY <1>11
  <2>2. /\ buckets' = buckets \ {b} /\ removed' = removed \cup {b}
        /\ UNCHANGED <<pairs, pc, made>>
    BY <2>1 DEF DeleteBucket, local
  <2>3. EverStored' = EverStored /\ (buckets \cap removed = {})'
    BY <2>2 DEF EverStored, CatalogInv
  <2>4. C!RemoveBucket(b)
    BY <2>2 DEF C!RemoveBucket
  <2> QED  BY <1>1, <1>3, <2>2, <2>3, <2>4 DEF CatalogInv, C!CNext
<1> QED  BY <1>4, <1>5, <1>6, <1>7, <1>8, <1>9, <1>10, <1>11 DEF Next, Handler

(* For any tabs and names, and however requests overlap, get lost or are   *)
(* cut off by a restart, the wizard implements Catalog: rows of new names  *)
(* are added one by one, and a pair joins buckets that were stored - they  *)
(* may have been deleted since, which nothing prevents - and is named      *)
(* after them by default.                                                  *)

THEOREM FillsCatalog == Spec => ImplementsCatalog
<1>1. Init => CatalogInv /\ C!CInit
  BY InitInv DEF Init, CatalogInv, UsedUp, WellMade, C!CInit, EverStored
<1>2. CatalogInv /\ [Next]_vars => CatalogInv' /\ [C!CNext]_<<buckets, removed, pairs>>
  BY TablesStep
<1> QED  BY <1>1, <1>2, PTL DEF Spec, ImplementsCatalog, C!CSpec
=============================================================================
