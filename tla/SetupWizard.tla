----------------------------- MODULE SetupWizard -----------------------------
(***************************************************************************)
(* The web setup wizard: SetupState.Apply of internal/config/setup.go, the *)
(* handler setup of internal/api/handlers.go, the table of sessions of     *)
(* router.go, the two tables it fills, and the browser tab that drives it  *)
(* (web/static/app.js, web/templates/setup.html).                          *)
(*                                                                         *)
(* A tab numbers the form it shows, and so does the session on the server: *)
(* the requests carry neither number.  Replies get lost while the handler  *)
(* goes on, "Back" changes the tab only, and a restart forgets the         *)
(* sessions but not the tables.  Buckets are deleted meanwhile, whether    *)
(* sessions or pairs refer to them or not.  Every database call is a step  *)
(* of its own, and nothing locks a session between them.                   *)
(***************************************************************************)
EXTENDS Integers, FiniteSets

CONSTANTS
    Tabs,
    Names,        \* bucket config names users type
    PairNames,    \* pair names users type; Blank: "<source>-to-<target>"
    Blank,        \* the empty string
    Extras,       \* what callers of the API send besides the forms
    MaxRequests,  \* bound: requests sent
    MaxTroubles   \* bound: lost replies, restarts, deletions, presses of "Back"

ASSUME NamesAssumption == Blank \notin Names \cup PairNames
ASSUME ExtrasAssumption == Extras \subseteq {"back", "cancel"}
ASSUME BoundsAssumption == MaxRequests \in Nat \ {0} /\ MaxTroubles \in Nat

Requests   == 1 .. MaxRequests
None       == 0
SourceStep == 1
TargetStep == 2
PairStep   == 3
Done       == 4

Role(step) == CASE step = SourceStep -> "source"
                [] step = TargetStep -> "target"
                [] step = PairStep   -> "pair"

Roles  == {"source", "target", "pair"}
Bucket == [id : Requests, name : Names]   \* the id is the request that made it
NoBucket == [id |-> None, name |-> Blank]
Pair   == [name : PairNames \cup (Names \X Names),
           source : Requests \cup {None}, target : Requests \cup {None}]
Body   == [form : Roles \cup Extras, name : Names \cup {Blank},
           pair : PairNames \cup {Blank}]
NoBody == [form |-> Blank, name |-> Blank, pair |-> Blank]

VARIABLES
    buckets, pairs,   \* the tables
    removed,          \* the rows of buckets that were deleted
    sessions,         \* setupStates, by the number of the first request
    sent,             \* requests sent so far
    body, tab, session,   \* per request: content, sender, X-Setup-Session
    pc, seen, made,   \* per request: handler's place, the step it read, its row
    shows, waits, knows,  \* per tab: step, request in flight, session id
    troubles, disturbed   \* bounds MaxTroubles; the sessions they may have upset

tables == <<buckets, removed, pairs>>
mail   == <<sent, body, tab, session>>
local  == <<seen, made>>
tabs   == <<shows, waits, knows>>
upsets == <<troubles, disturbed>>
vars   == <<tables, sessions, mail, pc, local, tabs, upsets>>

NewSetupState == [step |-> SourceStep, source |-> NoBucket, target |-> NoBucket]

Init ==
    /\ buckets = {} /\ removed = {} /\ pairs = {}
    /\ sessions = [s \in Requests |-> NewSetupState]
    /\ sent = 0
    /\ body = [r \in Requests |-> NoBody]
    /\ tab = [r \in Requests |-> Blank]
    /\ session = [r \in Requests |-> r]
    /\ pc = [r \in Requests |-> "unsent"]
    /\ seen = [r \in Requests |-> SourceStep]
    /\ made = [r \in Requests |-> NoBucket]
    /\ shows = [t \in Tabs |-> SourceStep]
    /\ waits = [t \in Tabs |-> None]
    /\ knows = [t \in Tabs |-> None]
    /\ troubles = 0 /\ disturbed = {}

-----------------------------------------------------------------------------
(* The tab: submit of app.js, whose flag loading allows one request at a   *)
(* time, and the Back buttons, which nothing disables.                     *)

Forms(step) ==
    [form : {Role(step)}, name : IF step = PairStep THEN {Blank} ELSE Names,
     pair : IF step = PairStep THEN PairNames \cup {Blank} ELSE {Blank}]
    \cup [form : Extras, name : {Blank}, pair : {Blank}]

SharedSession(t, r) ==   \* seeded: no id is made up for a request without one
    IF knows[t] = None THEN 1 ELSE knows[t]

SessionOf(t, r) == IF knows[t] = None THEN r ELSE knows[t]

Submit(t) ==
    LET r == sent + 1 IN
    /\ waits[t] = None /\ shows[t] # Done /\ r \in Requests
    /\ \E b \in Forms(shows[t]) : body' = [body EXCEPT ![r] = b]
    /\ sent' = r
    /\ tab' = [tab EXCEPT ![r] = t]
    /\ session' = [session EXCEPT ![r] = SessionOf(t, r)]
    /\ pc' = [pc EXCEPT ![r] = "apply"]
    /\ waits' = [waits EXCEPT ![t] = r]
    /\ disturbed' = IF body'[r].form \in Extras
                    THEN disturbed \cup {session'[r]} ELSE disturbed
    /\ UNCHANGED <<tables, sessions, local, shows, knows, troubles>>

Trouble(ss) ==
    /\ troubles < MaxTroubles
    /\ troubles' = troubles + 1
    /\ disturbed' = disturbed \cup ss

SessionsOf(t) ==
    {knows[t]} \cup {session[r] : r \in {q \in 1 .. sent : tab[q] = t}}

Back(t) ==
    /\ shows[t] \in {TargetStep, PairStep}
    /\ shows' = [shows EXCEPT ![t] = @ - 1]
    /\ Trouble(SessionsOf(t))
    /\ UNCHANGED <<tables, sessions, mail, pc, local, waits, knows>>

(* The catch of app.js: "Network error".  The handler may be anywhere, or  *)
(* the request may never reach it.                                         *)

NetworkError(t) ==
    /\ waits[t] # None
    /\ waits' = [waits EXCEPT ![t] = None]
    /\ \/ UNCHANGED pc
       \/ /\ pc[waits[t]] = "apply"
          /\ pc' = [pc EXCEPT ![waits[t]] = "gone"]
    /\ Trouble(SessionsOf(t))
    /\ UNCHANGED <<tables, sessions, mail, local, shows, knows>>

Restart ==
    /\ sent > 0
    /\ sessions' = [s \in Requests |-> NewSetupState]
    /\ pc' = [r \in Requests |-> IF r <= sent THEN "gone" ELSE pc[r]]
    /\ waits' = [t \in Tabs |-> None]
    /\ Trouble(Requests)
    /\ UNCHANGED <<tables, mail, local, shows, knows>>

(* Another request, or bucket delete, removes a bucket.  It upsets the     *)
(* sessions that hold it, and those about to.                              *)

HoldersOf(b) ==
    {s \in Requests : b \in {sessions[s].source, sessions[s].target}}
    \cup {session[r] : r \in {q \in Requests : pc[q] = "advance" /\ made[q] = b}}

DeleteBucket(b) ==
    /\ b \in buckets
    /\ buckets' = buckets \ {b}
    /\ removed' = removed \cup {b}
    /\ Trouble(HoldersOf(b))
    /\ UNCHANGED <<pairs, sessions, mail, pc, local, tabs>>

-----------------------------------------------------------------------------
(* The handler setup: Apply up to its first database write.                *)

At(r) == sessions[session[r]]

Stays == UNCHANGED <<tables, mail, tabs, upsets>>

Fails(r) == pc' = [pc EXCEPT ![r] = "failed"]

Cancelled(r) ==
    /\ body[r].form = "cancel"
    /\ Fails(r)
    /\ UNCHANGED <<sessions, local>>

(* validateBucket: only the name is left out of a form of another step.    *)

RefusesBucket(r) ==
    /\ At(r).step \in {SourceStep, TargetStep} /\ body[r].name = Blank
    /\ Fails(r)
    /\ UNCHANGED <<sessions, local>>

Exists(name) == \E b \in buckets : b.name = name
Named(name)  == CHOOSE b \in buckets : b.name = name

FindsBucket(r) ==   \* getOrCreateBucket: GetBucketByName
    /\ At(r).step \in {SourceStep, TargetStep} /\ body[r].name # Blank
    /\ seen' = [seen EXCEPT ![r] = At(r).step]
    /\ IF Exists(body[r].name)
       THEN /\ made' = [made EXCEPT ![r] = Named(body[r].name)]
            /\ pc' = [pc EXCEPT ![r] = "advance"]
       ELSE /\ pc' = [pc EXCEPT ![r] = "insert"]
            /\ UNCHANGED made
    /\ UNCHANGED sessions

GoesBackAnywhere(r) ==   \* seeded: "back" is taken at every step
    /\ body[r].form = "back"
    /\ sessions' = [sessions EXCEPT ![session[r]].step = @ - 1]
    /\ pc' = [pc EXCEPT ![r] = "respond"]
    /\ UNCHANGED local

GoesBack(r) ==
    /\ At(r).step = PairStep /\ body[r].form = "back"
    /\ sessions' = [sessions EXCEPT ![session[r]].step = TargetStep]
    /\ pc' = [pc EXCEPT ![r] = "respond"]
    /\ UNCHANGED local

PairOf(r) ==   \* the ids are the session's, and so is a name left out
    [name |-> IF body[r].pair # Blank THEN body[r].pair
              ELSE <<At(r).source.name, At(r).target.name>>,
     source |-> At(r).source.id, target |-> At(r).target.id]

PreparesPair(r) ==
    /\ At(r).step = PairStep /\ body[r].form # "back"
    /\ seen' = [seen EXCEPT ![r] = PairStep]
    /\ made' = [made EXCEPT ![r] = PairOf(r)]
    /\ pc' = [pc EXCEPT ![r] = "insertPair"]
    /\ UNCHANGED sessions

Complete(r) ==   \* "setup already complete"
    /\ At(r).step = Done
    /\ Fails(r)
    /\ UNCHANGED <<sessions, local>>

Apply(r) ==
    /\ pc[r] = "apply"
    /\ Stays
    /\ \/ Cancelled(r)
       \/ /\ body[r].form # "cancel"
          /\ \/ RefusesBucket(r) \/ FindsBucket(r) \/ GoesBack(r)
             \/ PreparesPair(r) \/ Complete(r)

(* CreateBucket and CreateSyncPair: the names are UNIQUE.                  *)

InsertUnchecked(r) ==   \* seeded: the error of CreateBucket is ignored
    /\ pc[r] = "insert"
    /\ LET b == [id |-> r, name |-> body[r].name] IN
         /\ buckets' = IF Exists(b.name) THEN buckets ELSE buckets \cup {b}
         /\ made' = [made EXCEPT ![r] = b]
    /\ pc' = [pc EXCEPT ![r] = "advance"]
    /\ UNCHANGED <<removed, pairs, sessions, mail, seen, tabs, upsets>>

Insert(r) ==
    /\ pc[r] = "insert"
    /\ LET b == [id |-> r, name |-> body[r].name] IN
         IF Exists(b.name)
         THEN Fails(r) /\ UNCHANGED <<buckets, made>>
         ELSE /\ buckets' = buckets \cup {b}
              /\ made' = [made EXCEPT ![r] = b]
              /\ pc' = [pc EXCEPT ![r] = "advance"]
    /\ UNCHANGED <<removed, pairs, sessions, mail, seen, tabs, upsets>>

InsertPair(r) ==
    /\ pc[r] = "insertPair"
    /\ IF \E p \in pairs : p.name = made[r].name
       THEN Fails(r) /\ UNCHANGED pairs
       ELSE /\ pairs' = pairs \cup {made[r]}
            /\ pc' = [pc EXCEPT ![r] = "advance"]
    /\ UNCHANGED <<buckets, removed, sessions, mail, local, tabs, upsets>>

(* The rest of Apply: the step follows the one the request read.           *)

AdvanceFromNow(r) ==   \* seeded: the step is counted up from where it is now
    /\ pc[r] = "advance"
    /\ sessions' = [sessions EXCEPT
            ![session[r]].source = IF seen[r] = SourceStep THEN made[r] ELSE @,
            ![session[r]].target = IF seen[r] = TargetStep THEN made[r] ELSE @,
            ![session[r]].step = IF @ = Done THEN Done ELSE @ + 1]
    /\ pc' = [pc EXCEPT ![r] = "respond"]
    /\ Stays /\ UNCHANGED local

Advance(r) ==
    /\ pc[r] = "advance"
    /\ sessions' = [sessions EXCEPT
            ![session[r]].source = IF seen[r] = SourceStep THEN made[r] ELSE @,
            ![session[r]].target = IF seen[r] = TargetStep THEN made[r] ELSE @,
            ![session[r]].step = seen[r] + 1]
    /\ pc' = [pc EXCEPT ![r] = "respond"]
    /\ Stays /\ UNCHANGED local

(* The reply: a success tells the session and its step, as it is by now.   *)

Waiting(r) == {t \in Tabs : waits[t] = r}

Respond(r) ==
    /\ pc[r] \in {"respond", "failed"}
    /\ IF pc[r] = "failed" THEN UNCHANGED <<shows, knows>>
       ELSE /\ shows' = [t \in Tabs |-> IF t \in Waiting(r) THEN At(r).step
                                        ELSE shows[t]]
            /\ knows' = [t \in Tabs |-> IF t \in Waiting(r) THEN session[r]
                                        ELSE knows[t]]
    /\ waits' = [t \in Tabs |-> IF t \in Waiting(r) THEN None ELSE waits[t]]
    /\ pc' = [pc EXCEPT ![r] = "gone"]
    /\ UNCHANGED <<tables, sessions, mail, local, upsets>>

Handler(r) == Apply(r) \/ Insert(r) \/ InsertPair(r) \/ Advance(r) \/ Respond(r)

-----------------------------------------------------------------------------

Rest ==   \* nobody asks anything any more
    /\ \A r \in Requests : pc[r] \in {"unsent", "gone"}
    /\ UNCHANGED vars

Next == \/ \E t \in Tabs : Submit(t) \/ Back(t) \/ NetworkError(t)
        \/ \E r \in Requests : Handler(r)
        \/ \E b \in buckets : DeleteBucket(b)
        \/ Restart \/ Rest

Spec == Init /\ [][Next]_vars

-----------------------------------------------------------------------------
(* Properties.                                                             *)

TypeOK ==
    /\ buckets \subseteq Bucket /\ removed \subseteq Bucket
    /\ pairs \subseteq Pair
    /\ sessions \in [Requests -> [step : SourceStep .. Done,
                                 source : Bucket \cup {NoBucket},
                                 target : Bucket \cup {NoBucket}]]
    /\ sent \in 0 .. MaxRequests
    /\ body \in [Requests -> Body \cup {NoBody}]
    /\ tab \in [Requests -> Tabs \cup {Blank}]
    /\ session \in [Requests -> Requests]
    /\ pc \in [Requests -> {"unsent", "apply", "insert", "insertPair", "advance",
                            "respond", "failed", "gone"}]
    /\ seen \in [Requests -> SourceStep .. PairStep]
    /\ made \in [Requests -> Bucket \cup {NoBucket} \cup Pair]
    /\ shows \in [Tabs -> SourceStep .. Done]
    /\ waits \in [Tabs -> Requests \cup {None}]
    /\ knows \in [Tabs -> Requests \cup {None}]
    /\ troubles \in 0 .. MaxTroubles
    /\ disturbed \subseteq Requests \cup {None}

(* A session that asks for the pair has both buckets, so Apply never       *)
(* dereferences a nil bucket, although a request whose reply was lost may  *)
(* still move the session behind the back of its successor.                *)

BothBucketsKnown ==
    \A s \in Requests : sessions[s].step >= PairStep =>
        sessions[s].source # NoBucket /\ sessions[s].target # NoBucket

(* In a session that lost no reply and none of its buckets, saw no "Back"  *)
(* and no restart, the pair mirrors the bucket its last source form named  *)
(* into the one its last target form named, whatever other tabs do to the  *)
(* same names.                                                             *)

LastNamed(s, role) ==
    LET rs == {r \in 1 .. sent : session[r] = s /\ body[r].form = role}
    IN  {body[r].name : r \in {q \in rs : \A o \in rs : o <= q}}

IdsOf(names) == {b.id : b \in {c \in buckets : c.name \in names}}

FormsFillTheirSlots ==
    [][\A r \in Requests :
           pc[r] = "insertPair" /\ pc'[r] = "advance" /\ session[r] \notin disturbed =>
               /\ body[r].form = "pair"
               /\ {made[r].source} = IdsOf(LastNamed(session[r], "source"))
               /\ {made[r].target} = IdsOf(LastNamed(session[r], "target"))]_vars

(* Whatever tabs race for a name and however sessions are upset, each      *)
(* change of the tables adds a bucket of a new name, or a pair of a new    *)
(* name and two buckets that were stored, named after them by default, or  *)
(* deletes a bucket.  A bucket may be gone when its pair comes, or go      *)
(* before it: nothing enforces the REFERENCES of db.go:47-48.              *)

C == INSTANCE Catalog WITH Ids <- Requests

ImplementsCatalog == C!CSpec

=============================================================================
