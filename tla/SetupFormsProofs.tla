-------------------------- MODULE SetupFormsProofs --------------------------
(***************************************************************************)
(* Proof of FormsFillTheirSlots: in a session without trouble, the pair    *)
(* mirrors the bucket of its last source form into the one of its last     *)
(* target form, for any tabs and names and any number of requests, lost    *)
(* replies, restarts and deleted buckets.                                  *)
(***************************************************************************)
EXTENDS SetupWizardProofs

(* What the tabs and the table of sessions agree about, in any trouble: a  *)
(* session belongs to the tab that began it, and a tab waits for its last  *)
(* request.                                                                *)

TabsInv ==
    /\ \A r \in 1 .. sent : /\ session[r] \in 1 .. sent
                            /\ session[session[r]] = session[r]
                            /\ tab[r] \in Tabs /\ tab[session[r]] = tab[r]
    /\ \A s \in Requests : s > sent => sessions[s] = NewSetupState
    /\ \A t \in Tabs :
          /\ waits[t] # None =>
                /\ waits[t] \in 1 .. sent /\ tab[waits[t]] = t
                /\ session[waits[t]] = SessionOf(t, waits[t])
                /\ pc[waits[t]] # "gone"
                /\ \A q \in 1 .. sent : tab[q] = t => q <= waits[t]
          /\ knows[t] # None => /\ knows[t] \in 1 .. sent /\ tab[knows[t]] = t
                                /\ session[knows[t]] = knows[t]
          /\ knows[t] = None => shows[t] = SourceStep

(* Names are unique, and the bucket made for a form is the one it names.   *)

NamesInv ==
    /\ \A b, c \in buckets : b.name = c.name => b = c
    /\ \A r \in Requests : pc[r] = "advance" /\ seen[r] < PairStep =>
          made[r].name = body[r].name

(* A session without trouble: its tab waits for every request of it that   *)
(* is under way, shows its step, and sends the form of that step; and what *)
(* it has chosen is what its last forms named.                             *)

Steady(s) == s \in 1 .. sent /\ session[s] = s /\ s \notin disturbed

UnderWay(r) == pc[r] \in {"apply", "insert", "insertPair", "advance"}

LastForm(s, role, q) ==
    /\ q \in 1 .. sent /\ session[q] = s /\ body[q].form = role
    /\ \A o \in 1 .. sent : session[o] = s /\ body[o].form = role => o <= q

Chosen(s, role, b) == \E q \in 1 .. sent : LastForm(s, role, q) /\ b.name = body[q].name

InStep(s) ==
    /\ \A r \in 1 .. sent : session[r] = s /\ pc[r] # "gone" => waits[tab[s]] = r
    /\ \A r \in 1 .. sent : session[r] = s /\ UnderWay(r) =>
          /\ body[r].form = Role(sessions[s].step) /\ sessions[s].step <= PairStep
          /\ pc[r] # "apply" => seen[r] = sessions[s].step
          /\ pc[r] = "insertPair" => /\ made[r].source = sessions[s].source.id
                                     /\ made[r].target = sessions[s].target.id
    /\ \A r \in 1 .. sent : session[r] = s /\ (UnderWay(r) \/ pc[r] = "failed") =>
          shows[tab[s]] = sessions[s].step
    /\ knows[tab[s]] = s /\ waits[tab[s]] = None => shows[tab[s]] = sessions[s].step

SlotsFilled(s) ==
    /\ sessions[s].step >= TargetStep => Chosen(s, "source", sessions[s].source)
    /\ sessions[s].step >= PairStep => Chosen(s, "target", sessions[s].target)

SteadyInv == \A s \in Requests : Steady(s) => InStep(s) /\ SlotsFilled(s)

Forming == IInv /\ TabsInv /\ NamesInv /\ SteadyInv

-----------------------------------------------------------------------------
(* The requests sent are numbered from 1, and the others are not there.    *)

LEMMA Sent ==
    ASSUME IInv
    PROVE  /\ sent \in Nat /\ sent <= MaxRequests /\ 1 .. sent \subseteq Requests
           /\ \A r \in Requests : pc[r] # "unsent" => r \in 1 .. sent
<1>1. sent \in Nat /\ sent <= MaxRequests
  BY BoundsAssumption DEF IInv, TypeOK
<1>2. 1 .. sent \subseteq Requests
  BY <1>1, BoundsAssumption DEF Requests
<1>3. ASSUME NEW r \in Requests, pc[r] # "unsent"
      PROVE  r \in 1 .. sent
  <2>1. ~(r > sent)
    BY <1>3 DEF IInv
  <2> QED  BY <1>1, <2>1, BoundsAssumption DEF Requests
<1> QED  BY <1>1, <1>2, <1>3

(* The step of a role is known by its name, which no extra request has.    *)

LEMMA RoleNames ==
    /\ Role(SourceStep) = "source" /\ Role(TargetStep) = "target" /\ Role(PairStep) = "pair"
    /\ \A step \in SourceStep .. PairStep : Role(step) \notin {"back", "cancel"}
    /\ \A step \in SourceStep .. PairStep :
          /\ Role(step) = "source" <=> step = SourceStep
          /\ Role(step) = "target" <=> step = TargetStep
          /\ Role(step) = "pair" <=> step = PairStep
BY Numbers DEF Role, SourceStep, TargetStep, PairStep

(* A session belongs to one tab, and a request of it to the same.          *)

LEMMA TabOfSession ==
    ASSUME Forming, NEW s, Steady(s), NEW r \in 1 .. sent, session[r] = s
    PROVE  tab[r] = tab[s] /\ tab[s] \in Tabs /\ s \in Requests /\ r \in Requests
BY Sent DEF Forming, TabsInv, Steady

(* Of a session without trouble, only the request its tab waits for is     *)
(* anywhere.                                                               *)

LEMMA OnlyOne ==
    ASSUME Forming, NEW s, Steady(s), NEW r \in 1 .. sent, session[r] = s, pc[r] # "gone"
    PROVE  /\ waits[tab[s]] = r
           /\ \A o \in 1 .. sent : session[o] = s /\ o # r => pc[o] = "gone"
           /\ \A o \in 1 .. sent : session[o] = s => o <= r
<1>1. s \in Requests /\ InStep(s)
  BY TabOfSession DEF Forming, SteadyInv
<1>2. waits[tab[s]] = r /\ \A o \in 1 .. sent : session[o] = s /\ o # r => pc[o] = "gone"
  BY <1>1 DEF InStep
<1>3. ASSUME NEW o \in 1 .. sent, session[o] = s
      PROVE  o <= r
  <2>1. tab[o] = tab[s] /\ tab[s] \in Tabs
    BY <1>3, TabOfSession
  <2>2. r # None
    BY Sent, Numbers DEF Forming
  <2> QED  BY <1>2, <2>1, <2>2 DEF Forming, TabsInv
<1> QED  BY <1>2, <1>3

-----------------------------------------------------------------------------
(* The names.                                                              *)

(* A step that makes no bucket and lets no handler on to "advance" leaves  *)
(* the names as they are.                                                  *)

LEMMA NamesKept ==
    ASSUME NamesInv, UNCHANGED buckets,
           \A r \in Requests : pc'[r] = "advance" /\ seen'[r] < PairStep =>
               /\ pc[r] = "advance"
               /\ seen'[r] = seen[r] /\ made'[r] = made[r] /\ body'[r] = body[r]
    PROVE  NamesInv'
BY DEF NamesInv

-----------------------------------------------------------------------------
(* The tab's steps.                                                        *)

(* A form is sent: of the session's requests it is the newest.             *)

LEMMA SubmitForms ==
    ASSUME Forming, NEW t \in Tabs, Submit(t)
    PROVE  TabsInv' /\ NamesInv' /\ SteadyInv'
<1> DEFINE r == sent + 1
<1> DEFINE k == SessionOf(t, r)
<1>1. /\ r \in Requests /\ sent \in Nat /\ r \notin 1 .. sent /\ 1 .. sent \subseteq Requests
      /\ r \in 1 .. r /\ \A q : q \in 1 .. r <=> q \in 1 .. sent \/ q = r
      /\ \A q \in 1 .. sent : q <= r /\ q # r
      /\ \A q \in Requests : q > r => q > sent
      /\ r > sent /\ r # None /\ r <= r
  BY Sent, Numbers DEF Submit, Forming, None
<1>2. /\ waits[t] = None /\ shows[t] \in SourceStep .. PairStep
  BY DEF Submit, Forming, IInv, TypeOK, SourceStep, PairStep, Done
<1>3. PICK b \in Forms(shows[t]) : body' = [body EXCEPT ![r] = b]
  BY DEF Submit
<1>4. /\ sent' = r /\ tab'[r] = t /\ session'[r] = k /\ pc'[r] = "apply" /\ body'[r] = b
      /\ \A q \in 1 .. sent : /\ tab'[q] = tab[q] /\ session'[q] = session[q]
                              /\ pc'[q] = pc[q] /\ body'[q] = body[q]
      /\ waits' = [waits EXCEPT ![t] = r] /\ waits \in [Tabs -> Requests \cup {None}]
      /\ UNCHANGED <<buckets, pairs, sessions, seen, made, shows, knows>>
  BY <1>1, <1>3 DEF Submit, tables, local, Forming, IInv, TypeOK
<1>5. /\ disturbed \subseteq disturbed'
      /\ b.form \in Extras => k \in disturbed'
  BY <1>4 DEF Submit
<1>6. b.form = Role(shows[t]) \/ b.form \in Extras
  BY <1>3 DEF Forms
<1>7. k = IF knows[t] = None THEN r ELSE knows[t]
  BY DEF SessionOf
<1>8. /\ knows[t] # None => knows[t] \in 1 .. sent /\ tab[knows[t]] = t /\ session[knows[t]] = knows[t]
      /\ knows[t] = None => shows[t] = SourceStep
  BY DEF Forming, TabsInv
<1>9. \A q \in 1 .. sent : /\ session[q] \in 1 .. sent
                           /\ session[session[q]] = session[q]
                           /\ tab[q] \in Tabs /\ tab[session[q]] = tab[q]
  BY DEF Forming, TabsInv
<1>10. \A u \in Tabs : /\ u = t => waits'[u] = r
                       /\ u # t => waits'[u] = waits[u]
  BY <1>4
<1> HIDE DEF r, k
<1>11. TabsInv'
  <2>1. \A q \in 1 .. r : /\ session'[q] \in 1 .. r
                          /\ session'[session'[q]] = session'[q]
                          /\ tab'[q] \in Tabs /\ tab'[session'[q]] = tab'[q]
    <3>1. ASSUME NEW q \in 1 .. sent
          PROVE  /\ session'[q] \in 1 .. r /\ session'[session'[q]] = session'[q]
                 /\ tab'[q] \in Tabs /\ tab'[session'[q]] = tab'[q]
      BY <1>1, <1>4, <1>9
    <3>2. /\ session'[r] \in 1 .. r /\ session'[session'[r]] = session'[r]
          /\ tab'[r] \in Tabs /\ tab'[session'[r]] = tab'[r]
      BY <1>1, <1>4, <1>7, <1>8
    <3> QED  BY <1>1, <3>1, <3>2
  <2>2. \A s \in Requests : s > r => sessions'[s] = NewSetupState
    BY <1>1, <1>4 DEF Forming, TabsInv
  <2>3. ASSUME NEW u \in Tabs
        PROVE  /\ waits'[u] # None =>
                     /\ waits'[u] \in 1 .. r /\ tab'[waits'[u]] = u
                     /\ session'[waits'[u]] = IF knows'[u] = None THEN waits'[u] ELSE knows'[u]
                     /\ pc'[waits'[u]] # "gone"
                     /\ \A q \in 1 .. r : tab'[q] = u => q <= waits'[u]
               /\ knows'[u] # None => /\ knows'[u] \in 1 .. r /\ tab'[knows'[u]] = u
                                      /\ session'[knows'[u]] = knows'[u]
               /\ knows'[u] = None => shows'[u] = SourceStep
    <3>1. CASE u = t
      BY <1>1, <1>4, <1>7, <1>8, <1>10, <3>1
    <3>2. CASE u # t
      BY <1>1, <1>4, <1>10, <3>2 DEF Forming, TabsInv, SessionOf
    <3> QED  BY <3>1, <3>2
  <2> QED  BY <1>4, <2>1, <2>2, <2>3 DEF TabsInv, SessionOf
<1>12. NamesInv'
  <2>1. ASSUME NEW q \in Requests, pc'[q] = "advance"
        PROVE  pc[q] = "advance" /\ body'[q] = body[q]
    BY <1>1, <1>3, <1>4, <2>1 DEF Submit, Forming, IInv, TypeOK
  <2> QED  BY <1>4, <2>1, NamesKept DEF Forming
<1>13. ASSUME NEW s \in Requests, Steady(s)'
       PROVE  InStep(s)' /\ SlotsFilled(s)'
  <2>1. /\ s \in 1 .. r /\ session'[s] = s /\ s \notin disturbed /\ s \notin disturbed'
        /\ s \in 1 .. sent \/ s = r
    BY <1>1, <1>4, <1>5, <1>13 DEF Steady
  <2>2. CASE s = r
    <3>1. knows[t] = None /\ k = r
      BY <1>1, <1>4, <1>7, <1>8, <2>1, <2>2
    <3>2. \A q \in 1 .. r : session'[q] = s => q = r
      BY <1>1, <1>4, <1>9, <2>2
    <3>3. sessions[s] = NewSetupState /\ shows[t] = SourceStep
      BY <1>1, <1>8, <2>2, <3>1 DEF Forming, TabsInv
    <3>4. b.form = Role(SourceStep)
      BY <1>5, <1>6, <2>1, <2>2, <3>1, <3>3
    <3>5. InStep(s)'
      BY <1>4, <1>1, <1>10, <2>2, <3>2, <3>3, <3>4 DEF InStep, UnderWay, NewSetupState, SourceStep, PairStep
    <3>6. SlotsFilled(s)'
      BY <1>4, <3>3 DEF SlotsFilled, NewSetupState, SourceStep, TargetStep, PairStep
    <3> QED  BY <3>5, <3>6
  <2>3. CASE s \in 1 .. sent
    <3>1. Steady(s) /\ InStep(s) /\ SlotsFilled(s)
      BY <1>4, <2>1, <2>3 DEF Steady, Forming, SteadyInv
    <3>2. tab[s] \in Tabs /\ tab'[s] = tab[s] /\ s # r
      BY <1>1, <1>4, <1>9, <2>3
    <3>3. CASE k # s
      <4>1. \A q \in 1 .. r : session'[q] = s => q \in 1 .. sent /\ session[q] = s
        BY <1>1, <1>4, <3>3
      <4>2. InStep(s)'
        <5>1. CASE tab[s] = t
          <6>1. \A q \in 1 .. sent : session[q] = s => pc[q] = "gone"
            BY <1>1, <1>2, <3>1, <5>1, Numbers DEF InStep, None
          <6>2. \A q \in 1 .. r : session'[q] = s => pc'[q] = "gone"
            BY <1>4, <4>1, <6>1
          <6>3. waits'[tab'[s]] # None
            BY <1>1, <1>10, <3>2, <5>1
          <6> QED  BY <1>4, <6>2, <6>3 DEF InStep, UnderWay
        <5>2. CASE tab[s] # t
          <6>1. waits'[tab'[s]] = waits[tab[s]]
            BY <1>10, <3>2, <5>2
          <6> QED  BY <1>4, <3>1, <3>2, <4>1, <6>1 DEF InStep, UnderWay
        <5> QED  BY <5>1, <5>2
      <4>3. SlotsFilled(s)'
        <5>1. ASSUME NEW role, NEW c, Chosen(s, role, c)
              PROVE  \E q \in 1 .. r : /\ session'[q] = s /\ body'[q].form = role
                                       /\ \A o \in 1 .. r : session'[o] = s /\ body'[o].form = role => o <= q
                                       /\ c.name = body'[q].name
          <6>1. PICK q \in 1 .. sent : LastForm(s, role, q) /\ c.name = body[q].name
            BY <5>1 DEF Chosen
          <6> QED  BY <1>1, <1>4, <4>1, <6>1 DEF LastForm
        <5>2. sessions' = sessions /\ sent' = r
          BY <1>4
        <5>3. ASSUME NEW role, NEW c, Chosen(s, role, c)
              PROVE  Chosen(s, role, c)'
          BY <5>1, <5>2, <5>3 DEF Chosen, LastForm
        <5> QED  BY <3>1, <5>2, <5>3 DEF SlotsFilled
      <4> QED  BY <4>2, <4>3
    <3>4. CASE k = s
      <4>1. knows[t] = s /\ tab[s] = t
        BY <1>7, <1>8, <3>2, <3>4
      <4>2. shows[t] = sessions[s].step
        BY <1>2, <3>1, <4>1 DEF InStep
      <4>3. b.form = Role(sessions[s].step)
        BY <1>5, <1>6, <2>1, <3>4, <4>2
      <4>4. \A q \in 1 .. sent : session[q] = s => pc[q] = "gone"
        BY <1>1, <1>2, <3>1, <4>1, Numbers DEF InStep, None
      <4>5. \A q \in 1 .. r : session'[q] = s => q = r \/ (q \in 1 .. sent /\ session[q] = s /\ pc'[q] = "gone")
        BY <1>1, <1>4, <4>4
      <4>6. InStep(s)'
        <5>1. waits'[tab'[s]] = r /\ sessions[s].step <= PairStep
          BY <1>2, <1>10, <3>2, <4>1, <4>2, Numbers DEF PairStep
        <5> QED  BY <1>1, <1>4, <3>2, <4>1, <4>2, <4>3, <4>5, <5>1 DEF InStep, UnderWay
      <4>7. ASSUME NEW role, NEW c, Chosen(s, role, c), role # b.form
            PROVE  \E q \in 1 .. r : /\ session'[q] = s /\ body'[q].form = role
                                     /\ \A o \in 1 .. r : session'[o] = s /\ body'[o].form = role => o <= q
                                     /\ c.name = body'[q].name
        <5>1. PICK q \in 1 .. sent : LastForm(s, role, q) /\ c.name = body[q].name
          BY <4>7 DEF Chosen
        <5>2. \A o \in 1 .. r : session'[o] = s /\ body'[o].form = role => o <= q
          BY <1>4, <4>5, <4>7, <5>1 DEF LastForm
        <5> QED  BY <1>1, <1>4, <5>1, <5>2 DEF LastForm
      <4>8. /\ sessions[s].step >= TargetStep => b.form # "source"
            /\ sessions[s].step >= PairStep => b.form # "target"
        BY <1>2, <4>2, <4>3, RoleNames, Numbers DEF SourceStep, TargetStep, PairStep
      <4>9. SlotsFilled(s)'
        <5>1. ASSUME sessions[s].step >= TargetStep
              PROVE  Chosen(s, "source", sessions[s].source) /\ b.form # "source"
          BY <3>1, <4>8, <5>1 DEF SlotsFilled
        <5>2. ASSUME sessions[s].step >= PairStep
              PROVE  Chosen(s, "target", sessions[s].target) /\ b.form # "target"
          BY <3>1, <4>8, <5>2 DEF SlotsFilled
        <5>3. sessions' = sessions /\ sent' = r
          BY <1>4
        <5>4. (sessions[s].step >= TargetStep => Chosen(s, "source", sessions[s].source))'
          BY <4>7, <5>1, <5>3 DEF Chosen, LastForm
        <5>5. (sessions[s].step >= PairStep => Chosen(s, "target", sessions[s].target))'
          BY <4>7, <5>2, <5>3 DEF Chosen, LastForm
        <5> QED  BY <5>4, <5>5 DEF SlotsFilled
      <4> QED  BY <4>6, <4>9
    <3> QED  BY <3>3, <3>4
  <2> QED  BY <2>1, <2>2, <2>3
<1> QED  BY <1>11, <1>12, <1>13 DEF SteadyInv

(* "Back" troubles every session of the tab.                               *)

LEMMA BackForms ==
    ASSUME Forming, NEW t \in Tabs, Back(t)
    PROVE  TabsInv' /\ NamesInv' /\ SteadyInv'
<1>1. /\ shows[t] \in {TargetStep, PairStep}
      /\ \A u \in Tabs : u # t => shows'[u] = shows[u]
      /\ disturbed' = disturbed \cup SessionsOf(t)
      /\ UNCHANGED <<buckets, sessions, sent, body, tab, session, pc, seen, made,
                     waits, knows>>
  BY DEF Back, Trouble, tables, mail, local, Forming, IInv, TypeOK
<1>2. shows[t] # SourceStep
  BY <1>1 DEF SourceStep, TargetStep, PairStep
<1>3. TabsInv'
  <2>1. \A u \in Tabs : knows[u] = None => u # t
    BY <1>2 DEF Forming, TabsInv
  <2> QED  BY <1>1, <2>1 DEF Forming, TabsInv, SessionOf
<1>4. NamesInv'
  BY <1>1 DEF Forming, NamesInv
<1>5. ASSUME NEW s \in Requests, Steady(s)'
      PROVE  InStep(s)' /\ SlotsFilled(s)'
  <2>1. Steady(s) /\ InStep(s) /\ SlotsFilled(s)
    BY <1>1, <1>5 DEF Steady, Forming, SteadyInv
  <2>2. tab[s] \in Tabs /\ tab[s] # t
    <3>1. tab[s] = t => s \in SessionsOf(t)
      BY <2>1 DEF Steady, SessionsOf
    <3> QED  BY <1>1, <1>5, <2>1, <3>1 DEF Steady, Forming, TabsInv
  <2>3. shows'[tab[s]] = shows[tab[s]]
    BY <1>1, <2>2
  <2> QED  BY <1>1, <2>1, <2>3 DEF InStep, SlotsFilled, UnderWay, Chosen, LastForm
<1> QED  BY <1>3, <1>4, <1>5 DEF SteadyInv

(* So does a lost reply.                                                   *)

LEMMA NetworkErrorForms ==
    ASSUME Forming, NEW t \in Tabs, NetworkError(t)
    PROVE  TabsInv' /\ NamesInv' /\ SteadyInv'
<1> DEFINE r == waits[t]
<1>1. /\ r # None /\ waits'[t] = None
      /\ \A u \in Tabs : u # t => waits'[u] = waits[u]
      /\ r \in 1 .. sent /\ r \in Requests /\ tab[r] = t
      /\ \A q \in Requests : q # r => pc'[q] = pc[q]
      /\ pc'[r] \in {pc[r], "gone"}
      /\ disturbed' = disturbed \cup SessionsOf(t)
      /\ UNCHANGED <<buckets, sessions, sent, body, tab, session, seen, made,
                     shows, knows>>
  <2>1. r \in 1 .. sent /\ tab[r] = t /\ r \in Requests /\ r # None
    BY Sent DEF NetworkError, Forming, TabsInv
  <2> QED  BY <2>1 DEF NetworkError, Trouble, tables, mail, local, Forming, IInv, TypeOK
<1> HIDE DEF r
<1>2. TabsInv'
  <2>1. \A u \in Tabs : u # t /\ waits[u] # None => waits[u] \in Requests /\ waits[u] # r
    BY <1>1, Sent DEF Forming, TabsInv
  <2>2. \A u \in Tabs : waits'[u] # None => u # t /\ waits'[u] = waits[u] /\ pc'[waits[u]] = pc[waits[u]]
    BY <1>1, <2>1
  <2> QED  BY <1>1, <2>2 DEF Forming, TabsInv, SessionOf
<1>3. NamesInv'
  <2>1. \A q \in Requests : pc'[q] = "advance" => pc[q] = "advance"
    BY <1>1
  <2> QED  BY <1>1, <2>1, NamesKept DEF Forming
<1>4. ASSUME NEW s \in Requests, Steady(s)'
      PROVE  InStep(s)' /\ SlotsFilled(s)'
  <2>1. Steady(s) /\ InStep(s) /\ SlotsFilled(s)
    BY <1>1, <1>4 DEF Steady, Forming, SteadyInv
  <2>2. tab[s] \in Tabs /\ tab[s] # t
    <3>1. tab[s] = t => s \in SessionsOf(t)
      BY <2>1 DEF Steady, SessionsOf
    <3> QED  BY <1>1, <1>4, <2>1, <3>1 DEF Steady, Forming, TabsInv
  <2>3. waits'[tab[s]] = waits[tab[s]]
    BY <1>1, <2>2
  <2>4. \A q \in 1 .. sent : session[q] = s => pc'[q] = pc[q]
    BY <1>1, <2>1, <2>2, TabOfSession
  <2> QED  BY <1>1, <2>1, <2>3, <2>4 DEF InStep, SlotsFilled, UnderWay, Chosen, LastForm
<1> QED  BY <1>2, <1>3, <1>4 DEF SteadyInv

(* A restart leaves no session without trouble.                            *)

LEMMA RestartForms ==
    ASSUME Forming, Restart
    PROVE  TabsInv' /\ NamesInv' /\ SteadyInv'
<1>1. /\ sessions' = [s \in Requests |-> NewSetupState]
      /\ waits' = [t \in Tabs |-> None]
      /\ disturbed' = disturbed \cup Requests
      /\ \A r \in Requests : pc'[r] = pc[r] \/ pc'[r] = "gone"
      /\ UNCHANGED <<buckets, sent, body, tab, session, seen, made, shows, knows>>
  BY DEF Restart, Trouble, tables, mail, local
<1>2. TabsInv'
  BY <1>1 DEF Forming, TabsInv
<1>3. NamesInv'
  <2>1. \A q \in Requests : pc'[q] = "advance" => pc[q] = "advance"
    BY <1>1
  <2> QED  BY <1>1, <2>1, NamesKept DEF Forming
<1>4. SteadyInv'
  BY <1>1 DEF SteadyInv, Steady
<1> QED  BY <1>2, <1>3, <1>4

(* A deleted bucket troubles the sessions that hold it.                    *)

LEMMA DeleteBucketForms ==
    ASSUME Forming, NEW b \in buckets, DeleteBucket(b)
    PROVE  TabsInv' /\ NamesInv' /\ SteadyInv'
<1>1. /\ buckets' = buckets \ {b} /\ disturbed \subseteq disturbed'
      /\ UNCHANGED <<sessions, sent, body, tab, session, pc, seen, made, shows, waits, knows>>
  BY DEF DeleteBucket, Trouble, mail, local, tabs
<1>2. TabsInv' /\ NamesInv'
  BY <1>1 DEF Forming, TabsInv, NamesInv, SessionOf
<1>3. ASSUME NEW s \in Requests, Steady(s)'
      PROVE  InStep(s)' /\ SlotsFilled(s)'
  <2>1. InStep(s) /\ SlotsFilled(s)
    BY <1>1, <1>3 DEF Steady, Forming, SteadyInv
  <2> QED  BY <1>1, <2>1 DEF InStep, SlotsFilled, UnderWay, Chosen, LastForm
<1> QED  BY <1>2, <1>3 DEF SteadyInv

-----------------------------------------------------------------------------
(* The handler.  Before it replies, a request r moves nothing but its own  *)
(* place, what it read and made, and its session.                          *)

Moves(r) ==
    /\ UnderWay(r) /\ pc'[r] # "gone"
    /\ \A q \in Requests : q # r => /\ pc'[q] = pc[q] /\ seen'[q] = seen[q]
                                    /\ made'[q] = made[q]
    /\ \A s \in Requests : s # session[r] => sessions'[s] = sessions[s]
    /\ UNCHANGED <<sent, body, tab, session, shows, waits, knows, disturbed>>

(* What is known of the tabs and of the other sessions stays.              *)

LEMMA MovesElsewhere ==
    ASSUME Forming, NEW r \in Requests, Moves(r)
    PROVE  /\ TabsInv'
           /\ \A s \in Requests : s # session[r] /\ Steady(s)' => InStep(s)' /\ SlotsFilled(s)'
<1>1. /\ sent \in Nat /\ r \in 1 .. sent /\ 1 .. sent \subseteq Requests
      /\ session[r] \in 1 .. sent /\ session[r] <= sent
  BY Sent DEF Forming, TabsInv, Moves, UnderWay
<1>2. TabsInv'
  <2>1. \A s \in Requests : s > sent => sessions'[s] = NewSetupState
    <3>1. \A s \in Requests : s > sent => s # session[r]
      BY <1>1
    <3> QED  BY <3>1 DEF Moves, Forming, TabsInv
  <2>2. \A q \in 1 .. sent : pc[q] # "gone" => pc'[q] # "gone"
    BY <1>1 DEF Moves
  <2> QED  BY <2>1, <2>2 DEF Moves, Forming, TabsInv, SessionOf
<1>3. ASSUME NEW s \in Requests, s # session[r], Steady(s)'
      PROVE  InStep(s)' /\ SlotsFilled(s)'
  <2>1. Steady(s) /\ InStep(s) /\ SlotsFilled(s)
    BY <1>3 DEF Steady, Forming, SteadyInv, Moves
  <2>2. \A q \in 1 .. sent : session[q] = s =>
            pc'[q] = pc[q] /\ seen'[q] = seen[q] /\ made'[q] = made[q]
    BY <1>1, <1>3 DEF Moves
  <2>3. sessions'[s] = sessions[s]
    BY <1>3 DEF Moves
  <2> QED  BY <2>1, <2>2, <2>3 DEF Moves, InStep, SlotsFilled, UnderWay, Chosen, LastForm
<1> QED  BY <1>2, <1>3

(* And of its own, if it reads and prepares what the session is at.        *)

LEMMA MovesWithin ==
    ASSUME Forming, NEW r \in Requests, Moves(r), UNCHANGED sessions,
           Steady(session[r]) /\ UnderWay(r)' =>
               /\ pc'[r] # "apply" /\ seen'[r] = At(r).step
               /\ pc'[r] = "insertPair" => /\ made'[r].source = At(r).source.id
                                           /\ made'[r].target = At(r).target.id,
           Steady(session[r]) => pc'[r] # "respond"
    PROVE  TabsInv' /\ SteadyInv'
<1>1. r \in 1 .. sent /\ 1 .. sent \subseteq Requests /\ pc[r] # "gone"
  BY Sent DEF Forming, Moves, UnderWay
<1>s. PICK s \in Requests : s = session[r]
  BY <1>1 DEF Forming, TabsInv
<1>2. ASSUME Steady(s)'
      PROVE  InStep(s)' /\ SlotsFilled(s)'
  <2>1. Steady(s)
    BY <1>1, <1>2 DEF Steady, Moves
  <2>2. InStep(s) /\ SlotsFilled(s)
    BY <2>1 DEF Forming, SteadyInv
  <2>3. /\ waits[tab[s]] = r
        /\ \A o \in 1 .. sent : session[o] = s /\ o # r => pc[o] = "gone"
    BY <1>1, <1>s, <2>1, OnlyOne
  <2>4. \A o \in 1 .. sent : session[o] = s /\ o # r => pc'[o] = "gone"
    BY <1>1, <2>3 DEF Moves
  <2>5. /\ body[r].form = Role(sessions[s].step) /\ sessions[s].step <= PairStep
        /\ shows[tab[s]] = sessions[s].step
    BY <1>1, <1>s, <2>2 DEF InStep, Moves
  <2>6. r # None
    BY Numbers
  <2>7. InStep(s)'
    BY <1>1, <1>s, <2>1, <2>3, <2>4, <2>5, <2>6 DEF InStep, UnderWay, Moves, At
  <2>8. SlotsFilled(s)'
    BY <2>2 DEF SlotsFilled, Chosen, LastForm, Moves
  <2> QED  BY <2>7, <2>8
<1>3. \A q \in Requests : Steady(q)' => InStep(q)' /\ SlotsFilled(q)'
  BY <1>s, <1>2, MovesElsewhere
<1> QED  BY <1>3, MovesElsewhere DEF SteadyInv

(* Apply up to its first write: "cancel" and "back" are no forms of a      *)
(* session without trouble.                                                *)

LEMMA ApplyForms ==
    ASSUME Forming, NEW r \in Requests, Apply(r)
    PROVE  TabsInv' /\ NamesInv' /\ SteadyInv'
<1> DEFINE s == session[r]
<1>1. /\ pc[r] = "apply" /\ UnderWay(r) /\ s \in Requests /\ r \in 1 .. sent
      /\ UNCHANGED <<buckets, sent, body, tab, session, shows, waits, knows, disturbed>>
      /\ pc \in [Requests -> Places]
      /\ DOMAIN seen = Requests /\ DOMAIN made = Requests /\ DOMAIN sessions = Requests
  <2>1. r \in 1 .. sent
    BY Sent DEF Apply, Forming
  <2> QED  BY <2>1 DEF Apply, Stays, UnderWay, tables, mail, tabs, upsets, Forming, IInv, TypeOK, Places
<1>2. Steady(s) => /\ body[r].form = Role(At(r).step)
                   /\ At(r).step \in SourceStep .. PairStep
  <2>1. At(r).step \in SourceStep .. Done
    BY <1>1 DEF At, Forming, IInv, TypeOK
  <2>2. Steady(s) => body[r].form = Role(At(r).step) /\ At(r).step <= PairStep
    BY <1>1 DEF At, Forming, SteadyInv, InStep
  <2> QED  BY <2>1, <2>2 DEF SourceStep, PairStep, Done
<1>3. Steady(s) => body[r].form \notin {"back", "cancel"} /\ At(r).step # Done
  BY <1>2, RoleNames, Numbers DEF Done
<1>4. CASE Cancelled(r) \/ RefusesBucket(r) \/ Complete(r)
  <2>1. pc' = [pc EXCEPT ![r] = "failed"] /\ UNCHANGED <<sessions, seen, made>>
    BY <1>4 DEF Cancelled, RefusesBucket, Complete, Fails, local
  <2>2. Moves(r) /\ pc'[r] = "failed"
    BY <1>1, <2>1 DEF Moves
  <2>3. TabsInv' /\ SteadyInv'
    BY <2>1, <2>2, MovesWithin DEF UnderWay
  <2>4. NamesInv'
    BY <1>1, <2>1, <2>2, NamesKept DEF Moves, Forming
  <2> QED  BY <2>3, <2>4
<1>5. CASE FindsBucket(r)
  <2>1. /\ seen' = [seen EXCEPT ![r] = At(r).step] /\ UNCHANGED sessions
        /\ \/ /\ Exists(body[r].name) /\ pc' = [pc EXCEPT ![r] = "advance"]
              /\ made' = [made EXCEPT ![r] = Named(body[r].name)]
           \/ pc' = [pc EXCEPT ![r] = "insert"] /\ UNCHANGED made
    BY <1>5 DEF FindsBucket
  <2>2. Moves(r) /\ pc'[r] \in {"advance", "insert"} /\ seen'[r] = At(r).step
    BY <1>1, <2>1 DEF Moves
  <2>3. TabsInv' /\ SteadyInv'
    BY <2>1, <2>2, MovesWithin
  <2>4. pc'[r] = "advance" => made'[r].name = body'[r].name
    <3>1. Exists(body[r].name) => Named(body[r].name).name = body[r].name
      BY DEF Exists, Named
    <3> QED  BY <1>1, <2>1, <3>1
  <2>5. NamesInv'
    BY <1>1, <2>2, <2>4 DEF Moves, NamesInv, Forming
  <2> QED  BY <2>3, <2>5
<1>6. CASE GoesBack(r)
  <2>1. /\ body[r].form = "back" /\ pc' = [pc EXCEPT ![r] = "respond"]
        /\ sessions' = [sessions EXCEPT ![s].step = TargetStep] /\ UNCHANGED <<seen, made>>
    BY <1>6 DEF GoesBack, local
  <2>2. Moves(r) /\ ~Steady(s) /\ pc'[r] = "respond"
    BY <1>1, <1>3, <2>1 DEF Moves
  <2>3. \A q \in Requests : Steady(q)' => q # session[r]
    BY <2>2 DEF Moves, Steady
  <2>4. TabsInv' /\ SteadyInv'
    BY <2>2, <2>3, MovesElsewhere DEF SteadyInv
  <2>5. NamesInv'
    BY <1>1, <2>1, <2>2, NamesKept DEF Moves, Forming
  <2> QED  BY <2>4, <2>5
<1>7. CASE PreparesPair(r)
  <2>1. /\ At(r).step = PairStep /\ seen' = [seen EXCEPT ![r] = PairStep]
        /\ made' = [made EXCEPT ![r] = PairOf(r)]
        /\ pc' = [pc EXCEPT ![r] = "insertPair"] /\ UNCHANGED sessions
    BY <1>7 DEF PreparesPair
  <2>2. Moves(r) /\ pc'[r] = "insertPair" /\ seen'[r] = At(r).step /\ made'[r] = PairOf(r)
    BY <1>1, <2>1 DEF Moves
  <2>3. PairOf(r).source = At(r).source.id /\ PairOf(r).target = At(r).target.id
    BY DEF PairOf
  <2>4. TabsInv' /\ SteadyInv'
    BY <2>1, <2>2, <2>3, MovesWithin
  <2>5. NamesInv'
    BY <1>1, <2>1, <2>2, NamesKept DEF Moves, Forming
  <2> QED  BY <2>4, <2>5
<1> QED  BY <1>4, <1>5, <1>6, <1>7 DEF Apply

(* A new name is inserted under the name of its form.                      *)

LEMMA InsertForms ==
    ASSUME Forming, NEW r \in Requests, Insert(r)
    PROVE  TabsInv' /\ NamesInv' /\ SteadyInv'
<1>1. /\ pc[r] = "insert" /\ UnderWay(r) /\ r \in 1 .. sent /\ session[r] \in Requests
      /\ UNCHANGED <<sessions, sent, body, tab, session, seen, shows, waits, knows, disturbed>>
      /\ pc \in [Requests -> Places] /\ DOMAIN made = Requests
  <2>1. r \in 1 .. sent
    BY Sent DEF Insert, Forming
  <2> QED  BY <2>1 DEF Insert, UnderWay, mail, tabs, upsets, Forming, IInv, TypeOK, Places
<1>2. Steady(session[r]) => seen[r] = At(r).step
  BY <1>1 DEF At, Forming, SteadyInv, InStep
<1>3. CASE Exists(body[r].name)
  <2>1. pc' = [pc EXCEPT ![r] = "failed"] /\ UNCHANGED <<buckets, made>>
    BY <1>3 DEF Insert, Fails
  <2>2. Moves(r) /\ pc'[r] = "failed"
    BY <1>1, <2>1 DEF Moves
  <2>3. TabsInv' /\ SteadyInv'
    BY <1>1, <2>2, MovesWithin DEF UnderWay
  <2>4. NamesInv'
    BY <1>1, <2>1, <2>2, NamesKept DEF Moves, Forming
  <2> QED  BY <2>3, <2>4
<1>4. CASE ~Exists(body[r].name)
  <2> DEFINE b == [id |-> r, name |-> body[r].name]
  <2>1. /\ pc' = [pc EXCEPT ![r] = "advance"] /\ made' = [made EXCEPT ![r] = b]
        /\ buckets' = buckets \cup {b}
    BY <1>4 DEF Insert
  <2>2. Moves(r) /\ pc'[r] = "advance" /\ made'[r] = b
    BY <1>1, <2>1 DEF Moves
  <2>3. TabsInv' /\ SteadyInv'
    BY <1>1, <1>2, <2>2, MovesWithin
  <2>4. NamesInv'
    <3>1. \A c \in buckets : c.name # b.name
      BY <1>4 DEF Exists
    <3>2. \A c, d \in buckets' : c.name = d.name => c = d
      BY <2>1, <3>1 DEF Forming, NamesInv
    <3>3. \A q \in Requests : pc'[q] = "advance" /\ seen'[q] < PairStep => made'[q].name = body'[q].name
      BY <1>1, <2>2 DEF Moves, Forming, NamesInv
    <3> QED  BY <3>2, <3>3 DEF NamesInv
  <2> QED  BY <2>3, <2>4
<1> QED  BY <1>3, <1>4

(* The pair is inserted, or its name is taken.                             *)

LEMMA InsertPairForms ==
    ASSUME Forming, NEW r \in Requests, InsertPair(r)
    PROVE  TabsInv' /\ NamesInv' /\ SteadyInv'
<1>1. /\ pc[r] = "insertPair" /\ UnderWay(r) /\ r \in 1 .. sent /\ session[r] \in Requests
      /\ seen[r] = PairStep
      /\ UNCHANGED <<buckets, sessions, sent, body, tab, session, seen, made, shows, waits,
                     knows, disturbed>>
      /\ pc' = [pc EXCEPT ![r] = "failed"] \/ pc' = [pc EXCEPT ![r] = "advance"]
      /\ pc \in [Requests -> Places]
  <2>1. r \in 1 .. sent
    BY Sent DEF InsertPair, Forming
  <2> QED  BY <2>1 DEF InsertPair, Fails, UnderWay, mail, local, tabs, upsets, Forming, IInv,
                       HandlerInv, TypeOK, Places
<1>2. Steady(session[r]) => seen[r] = At(r).step
  BY <1>1 DEF At, Forming, SteadyInv, InStep
<1>3. Moves(r) /\ pc'[r] \in {"failed", "advance"}
  BY <1>1 DEF Moves
<1>4. TabsInv' /\ SteadyInv'
  BY <1>1, <1>2, <1>3, MovesWithin
<1>5. NamesInv'
  <2>1. ~(seen'[r] < PairStep)
    BY <1>1 DEF PairStep
  <2> QED  BY <1>1, <1>3, <2>1, NamesKept DEF Moves, Forming
<1> QED  BY <1>4, <1>5

(* The session moves on, with the bucket its newest form named.            *)

LEMMA AdvanceForms ==
    ASSUME Forming, NEW r \in Requests, Advance(r)
    PROVE  TabsInv' /\ NamesInv' /\ SteadyInv'
<1> DEFINE s == session[r]
<1>1. /\ pc[r] = "advance" /\ UnderWay(r) /\ r \in 1 .. sent /\ s \in Requests
      /\ UNCHANGED <<buckets, sent, body, tab, session, seen, made, shows, waits, knows,
                     disturbed>>
      /\ pc' = [pc EXCEPT ![r] = "respond"] /\ pc \in [Requests -> Places]
      /\ sessions \in [Requests -> Session]
  <2>1. r \in 1 .. sent
    BY Sent DEF Advance, Forming
  <2> QED  BY <2>1 DEF Advance, Stays, UnderWay, tables, mail, local, tabs, upsets, Forming, IInv,
                       TypeOK, Places, Session
<1>2. /\ \A q \in Requests : q # s => sessions'[q] = sessions[q]
      /\ sessions'[s].step = seen[r] + 1
      /\ sessions'[s].source = IF seen[r] = SourceStep THEN made[r] ELSE sessions[s].source
      /\ sessions'[s].target = IF seen[r] = TargetStep THEN made[r] ELSE sessions[s].target
  BY <1>1 DEF Advance, Session
<1>3. Moves(r) /\ pc'[r] = "respond"
  BY <1>1, <1>2 DEF Moves
<1>4. NamesInv'
  BY <1>1, <1>3, NamesKept DEF Moves, Forming
<1>5. ASSUME Steady(s)'
      PROVE  InStep(s)' /\ SlotsFilled(s)'
  <2>1. Steady(s) /\ InStep(s) /\ SlotsFilled(s)
    BY <1>1, <1>5 DEF Steady, Forming, SteadyInv
  <2>2. /\ waits[tab[s]] = r
        /\ \A o \in 1 .. sent : session[o] = s /\ o # r => pc[o] = "gone"
        /\ \A o \in 1 .. sent : session[o] = s => o <= r
    BY <1>1, <2>1, OnlyOne
  <2>3. \A o \in 1 .. sent : session[o] = s /\ o # r => pc'[o] = "gone"
    BY <1>1, <2>2, Sent DEF Moves, Forming
  <2>4. InStep(s)'
    BY <1>1, <1>3, <2>2, <2>3, Numbers DEF InStep, UnderWay
  <2>5. /\ body[r].form = Role(seen[r]) /\ sessions[s].step = seen[r]
        /\ seen[r] \in SourceStep .. PairStep
    BY <1>1, <2>1 DEF InStep, Forming, IInv, TypeOK
  <2>6. seen[r] < PairStep => made[r].name = body[r].name
    BY <1>1 DEF Forming, NamesInv
  <2>7. LastForm(s, Role(seen[r]), r)
    BY <1>1, <2>2, <2>5 DEF LastForm
  <2>8. (sessions[s].step >= TargetStep => Chosen(s, "source", sessions[s].source))'
    <3>1. CASE seen[r] = SourceStep
      <4>1. Chosen(s, "source", made[r])
        BY <1>1, <2>6, <2>7, <3>1, RoleNames DEF Chosen, SourceStep, PairStep
      <4>2. sessions'[s].source = made[r]
        BY <1>2, <3>1
      <4> QED  BY <1>1, <4>1, <4>2 DEF Chosen, LastForm
    <3>2. CASE seen[r] # SourceStep
      <4>1. sessions[s].step >= TargetStep
        BY <2>5, <3>2 DEF SourceStep, TargetStep, PairStep
      <4>2. sessions'[s].source = sessions[s].source
        BY <1>2, <3>2
      <4> QED  BY <1>1, <2>1, <4>1, <4>2 DEF SlotsFilled, Chosen, LastForm
    <3> QED  BY <3>1, <3>2
  <2>9. (sessions[s].step >= PairStep => Chosen(s, "target", sessions[s].target))'
    <3>1. CASE seen[r] = SourceStep
      <4>1. ~(sessions'[s].step >= PairStep)
        BY <1>2, <3>1 DEF SourceStep, PairStep
      <4> QED  BY <1>1, <4>1
    <3>2. CASE seen[r] = TargetStep
      <4>1. Chosen(s, "target", made[r])
        BY <1>1, <2>6, <2>7, <3>2, RoleNames DEF Chosen, TargetStep, PairStep
      <4>2. sessions'[s].target = made[r]
        BY <1>2, <3>2
      <4> QED  BY <1>1, <4>1, <4>2 DEF Chosen, LastForm
    <3>3. CASE seen[r] = PairStep
      <4>1. sessions[s].step >= PairStep
        BY <2>5, <3>3 DEF PairStep
      <4>2. sessions'[s].target = sessions[s].target
        BY <1>2, <3>3 DEF TargetStep, PairStep
      <4> QED  BY <1>1, <2>1, <4>1, <4>2 DEF SlotsFilled, Chosen, LastForm
    <3> QED  BY <2>5, <3>1, <3>2, <3>3, Numbers DEF SourceStep, TargetStep, PairStep
  <2> QED  BY <2>4, <2>8, <2>9 DEF SlotsFilled
<1>6. \A q \in Requests : Steady(q)' => InStep(q)' /\ SlotsFilled(q)'
  BY <1>1, <1>3, <1>5, MovesElsewhere
<1> QED  BY <1>3, <1>4, <1>6, MovesElsewhere DEF SteadyInv

(* The reply: the tab shows the step of the session it asked for.          *)

LEMMA RespondForms ==
    ASSUME Forming, NEW r \in Requests, Respond(r)
    PROVE  TabsInv' /\ NamesInv' /\ SteadyInv'
<1>1. /\ pc[r] \in {"respond", "failed"} /\ r \in 1 .. sent
      /\ UNCHANGED <<buckets, sessions, sent, body, tab, session, seen, made, disturbed>>
      /\ pc'[r] = "gone" /\ \A q \in Requests : q # r => pc'[q] = pc[q]
      /\ 1 .. sent \subseteq Requests /\ None \notin 1 .. sent
  <2>1. r \in 1 .. sent /\ 1 .. sent \subseteq Requests /\ None \notin Requests
    BY Sent, Numbers DEF Respond, Forming
  <2> QED  BY <2>1 DEF Respond, tables, mail, local, upsets, Forming, IInv, TypeOK
<1>2. \A t \in Tabs : waits[t] # r =>
          waits'[t] = waits[t] /\ shows'[t] = shows[t] /\ knows'[t] = knows[t]
  BY DEF Respond, Waiting, Forming, IInv, TypeOK
<1>3. \A t \in Tabs : waits[t] = r =>
          /\ waits'[t] = None
          /\ pc[r] = "failed" => shows'[t] = shows[t] /\ knows'[t] = knows[t]
          /\ pc[r] = "respond" => /\ shows'[t] = sessions[session[r]].step
                                  /\ knows'[t] = session[r]
  BY DEF Respond, Waiting, At, Forming, IInv, TypeOK
<1>4. /\ session[r] \in 1 .. sent /\ session[session[r]] = session[r]
      /\ tab[session[r]] = tab[r]
      /\ \A t \in Tabs : waits[t] = r => tab[r] = t /\ session[r] = SessionOf(t, r)
  BY <1>1 DEF Forming, TabsInv
<1>5. TabsInv'
  <2>1. ASSUME NEW t \in Tabs
        PROVE  /\ waits'[t] # None =>
                     /\ waits[t] = waits'[t] /\ waits[t] # r /\ knows'[t] = knows[t]
                     /\ pc'[waits[t]] # "gone"
               /\ knows'[t] # None => /\ knows'[t] \in 1 .. sent /\ tab[knows'[t]] = t
                                      /\ session[knows'[t]] = knows'[t]
               /\ knows'[t] = None => shows'[t] = SourceStep
    <3>1. CASE waits[t] = r
      BY <1>1, <1>3, <1>4, <3>1 DEF Forming, TabsInv
    <3>2. CASE waits[t] # r
      BY <1>1, <1>2, <3>2 DEF Forming, TabsInv
    <3> QED  BY <3>1, <3>2
  <2> QED  BY <1>1, <2>1 DEF Forming, TabsInv, SessionOf
<1>6. NamesInv'
  <2>1. \A q \in Requests : pc'[q] = "advance" => pc[q] = "advance"
    BY <1>1
  <2> QED  BY <1>1, <2>1, NamesKept DEF Forming
<1>7. ASSUME NEW s \in Requests, Steady(s)'
      PROVE  InStep(s)' /\ SlotsFilled(s)'
  <2>1. Steady(s) /\ InStep(s) /\ SlotsFilled(s) /\ s \in 1 .. sent /\ tab[s] \in Tabs
    BY <1>1, <1>7 DEF Steady, Forming, SteadyInv, TabsInv
  <2>2. SlotsFilled(s)'
    BY <1>1, <2>1 DEF SlotsFilled, Chosen, LastForm
  <2>3. CASE waits[tab[s]] # r
    <3>1. \A q \in 1 .. sent : session[q] = s => pc'[q] = pc[q]
      BY <1>1, <2>1, <2>3 DEF InStep
    <3> QED  BY <1>1, <1>2, <2>1, <2>2, <2>3, <3>1 DEF InStep, UnderWay
  <2>4. CASE waits[tab[s]] = r
    <3>1. \A q \in 1 .. sent : session[q] = s => pc'[q] = "gone"
      BY <1>1, <2>1, <2>4 DEF InStep
    <3>2. knows'[tab[s]] = s => shows'[tab[s]] = sessions[s].step
      <4>1. CASE pc[r] = "respond"
        BY <1>3, <2>1, <2>4, <4>1
      <4>2. CASE pc[r] = "failed"
        <5>1. ASSUME knows[tab[s]] = s
              PROVE  session[r] = s
          BY <1>1, <1>4, <2>1, <2>4, <5>1 DEF SessionOf
        <5> QED  BY <1>1, <1>3, <2>1, <2>4, <4>2, <5>1 DEF InStep
      <4> QED  BY <1>1, <4>1, <4>2
    <3> QED  BY <1>1, <2>2, <3>1, <3>2 DEF InStep, UnderWay
  <2> QED  BY <2>3, <2>4
<1> QED  BY <1>5, <1>6, <1>7 DEF SteadyInv

-----------------------------------------------------------------------------
(* The theorem.                                                            *)

(* In every state reached, sessions without trouble are in step with their *)
(* tab and know what their last forms named.                               *)

THEOREM SessionsInStep == Spec => []Forming
<1>1. Init => Forming
  <2> SUFFICES ASSUME Init PROVE Forming
    OBVIOUS
  <2>1. IInv
    BY InitInv
  <2>2. \A r : r \notin 1 .. sent
    BY DEF Init
  <2>3. TabsInv
    BY <2>2, Numbers DEF Init, TabsInv, None
  <2>4. NamesInv
    BY DEF Init, NamesInv
  <2>5. SteadyInv
    BY <2>2 DEF SteadyInv, Steady
  <2> QED  BY <2>1, <2>3, <2>4, <2>5 DEF Forming
<1>2. Forming /\ [Next]_vars => Forming'
  <2> SUFFICES ASSUME Forming, [Next]_vars PROVE Forming'
    OBVIOUS
  <2>1. IInv'
    BY NextInv DEF Forming
  <2>2. TabsInv' /\ NamesInv' /\ SteadyInv'
    <3>1. ASSUME NEW t \in Tabs, Submit(t) \/ Back(t) \/ NetworkError(t)
          PROVE  TabsInv' /\ NamesInv' /\ SteadyInv'
      BY <3>1, SubmitForms, BackForms, NetworkErrorForms
    <3>2. ASSUME NEW r \in Requests, Handler(r)
          PROVE  TabsInv' /\ NamesInv' /\ SteadyInv'
      BY <3>2, ApplyForms, InsertForms, InsertPairForms, AdvanceForms, RespondForms DEF Handler
    <3>3. CASE Restart
      BY <3>3, RestartForms
    <3>4. ASSUME NEW b \in buckets, DeleteBucket(b)
          PROVE  TabsInv' /\ NamesInv' /\ SteadyInv'
      BY <3>4, DeleteBucketForms
    <3>5. CASE UNCHANGED vars
      BY <3>5 DEF Forming, TabsInv, NamesInv, SteadyInv, Steady, InStep, SlotsFilled, UnderWay,
                  Chosen, LastForm, SessionOf, vars, tables, mail, local, tabs, upsets
    <3> QED  BY <3>1, <3>2, <3>3, <3>4, <3>5 DEF Next, Rest
  <2> QED  BY <2>1, <2>2 DEF Forming
<1> QED  BY <1>1, <1>2, PTL DEF Spec

(* A session without trouble holds no deleted bucket, and neither does a   *)
(* request about to give it one.                                           *)

HoldsInv == \A s \in Requests \ disturbed :
    /\ sessions[s].source \notin removed /\ sessions[s].target \notin removed
    /\ \A r \in Requests : session[r] = s /\ pc[r] = "advance" /\ seen[r] < PairStep =>
          made[r] \notin removed

Holding == Forming /\ CatalogInv /\ HoldsInv

(* Steps that delete nothing keep that, if what they hand over is stored.  *)

LEMMA HoldsKept ==
    ASSUME HoldsInv, UNCHANGED removed, disturbed \subseteq disturbed',
           \A s \in Requests \ disturbed' :
               /\ sessions'[s].source \in {sessions[s].source, NoBucket}
                  \/ sessions'[s].source \notin removed
               /\ sessions'[s].target \in {sessions[s].target, NoBucket}
                  \/ sessions'[s].target \notin removed,
           NoBucket \notin removed,
           \A r \in Requests : pc'[r] = "advance" /\ seen'[r] < PairStep =>
               \/ made'[r] \notin removed
               \/ /\ pc[r] = "advance" /\ made'[r] = made[r] /\ seen'[r] = seen[r]
                  /\ session'[r] = session[r]
    PROVE  HoldsInv'
BY DEF HoldsInv

(* Every step keeps it: a name found is a stored bucket, a name inserted   *)
(* a new one, and a deletion troubles whoever holds its bucket.            *)

LEMMA StepHolds ==
    ASSUME Holding, [Next]_vars
    PROVE  HoldsInv'
<1>1. /\ NoBucket \notin removed /\ buckets \cap removed = {} /\ UsedUp /\ HoldsInv
      /\ pc \in [Requests -> Places] /\ session \in [Requests -> Requests]
      /\ DOMAIN made = Requests /\ DOMAIN seen = Requests
      /\ sessions \in [Requests -> Session]
  BY BucketParts DEF Holding, CatalogInv, IInv, TypeOK, Places, Session
<1>2. ASSUME UNCHANGED <<removed, sessions>>, disturbed \subseteq disturbed',
             \A r \in Requests : pc'[r] = "advance" /\ seen'[r] < PairStep =>
               \/ made'[r] \notin removed
               \/ /\ pc[r] = "advance" /\ made'[r] = made[r] /\ seen'[r] = seen[r]
                  /\ session'[r] = session[r]
      PROVE  HoldsInv'
  BY <1>1, <1>2, HoldsKept
<1>3. ASSUME NEW t \in Tabs, Submit(t) \/ Back(t) \/ NetworkError(t)
      PROVE  HoldsInv'
  <2>1. /\ UNCHANGED <<removed, sessions, seen, made>> /\ disturbed \subseteq disturbed'
        /\ \A r \in Requests : pc'[r] = "advance" =>
              pc[r] = "advance" /\ session'[r] = session[r]
    <3>1. CASE Submit(t)
      <4>1. pc[sent + 1] = "unsent" /\ sent + 1 \in Requests
        BY <3>1, Numbers, BoundsAssumption DEF Submit, Holding, CatalogInv, IInv, TypeOK, Requests
      <4> QED  BY <1>1, <3>1, <4>1 DEF Submit, tables, local
    <3>2. CASE Back(t) \/ NetworkError(t)
      BY <1>1, <3>2 DEF Back, NetworkError, Trouble, tables, mail, local
    <3> QED  BY <1>3, <3>1, <3>2
  <2> QED  BY <1>2, <2>1
<1>4. CASE Restart
  BY <1>4 DEF Restart, Trouble, HoldsInv
<1>5. ASSUME NEW b \in buckets, DeleteBucket(b)
      PROVE  HoldsInv'
  <2>1. /\ removed' = removed \cup {b} /\ disturbed' = disturbed \cup HoldersOf(b)
        /\ UNCHANGED <<sessions, session, pc, seen, made>>
    BY <1>5 DEF DeleteBucket, Trouble, mail, local
  <2>2. ASSUME NEW s \in Requests, s \notin HoldersOf(b)
        PROVE  /\ sessions[s].source # b /\ sessions[s].target # b
               /\ \A r \in Requests : session[r] = s /\ pc[r] = "advance" => made[r] # b
    BY <2>2 DEF HoldersOf
  <2> QED  BY <1>1, <2>1, <2>2 DEF HoldsInv
<1>6. ASSUME NEW r \in Requests, Apply(r)
      PROVE  HoldsInv'
  <2>1. /\ pc[r] = "apply" /\ UNCHANGED <<removed, session, disturbed>>
        /\ \A q \in Requests : q # r => /\ pc'[q] = pc[q] /\ seen'[q] = seen[q]
                                        /\ made'[q] = made[q]
        /\ \A s \in Requests : /\ sessions'[s].source = sessions[s].source
                                /\ sessions'[s].target = sessions[s].target
        /\ pc'[r] = "advance" => FindsBucket(r)
    BY <1>1, <1>6 DEF Apply, Stays, tables, mail, local, upsets, Cancelled, RefusesBucket,
           FindsBucket, GoesBack, PreparesPair, Complete, Fails, Session
  <2>2. pc'[r] = "advance" => made'[r] \notin removed
    <3>1. ASSUME FindsBucket(r), pc'[r] = "advance"
          PROVE  made'[r] \in buckets
      <4>1. Exists(body[r].name) /\ made'[r] = Named(body[r].name)
        BY <1>1, <3>1 DEF FindsBucket
      <4> QED  BY <4>1 DEF Exists, Named
    <3> QED  BY <1>1, <2>1, <3>1
  <2> QED  BY <1>1, <2>1, <2>2, HoldsKept
<1>7. ASSUME NEW r \in Requests, Insert(r)
      PROVE  HoldsInv'
  <2>1. /\ pc[r] = "insert" /\ UNCHANGED <<removed, sessions, session, seen, disturbed>>
        /\ \A q \in Requests : q # r => pc'[q] = pc[q] /\ made'[q] = made[q]
        /\ pc'[r] = "advance" => made'[r] = [id |-> r, name |-> body[r].name]
    BY <1>1, <1>7 DEF Insert, Fails, mail, upsets
  <2>2. pc'[r] = "advance" => made'[r] \notin removed
    BY <1>1, <2>1 DEF UsedUp, EverStored
  <2> QED  BY <1>2, <2>1, <2>2
<1>8. ASSUME NEW r \in Requests, InsertPair(r)
      PROVE  HoldsInv'
  <2>1. /\ seen[r] = PairStep
        /\ UNCHANGED <<removed, sessions, session, seen, made, disturbed>>
        /\ \A q \in Requests : q # r => pc'[q] = pc[q]
    BY <1>1, <1>8 DEF InsertPair, Fails, mail, local, upsets, Holding, CatalogInv, IInv,
                      HandlerInv
  <2>2. ~(seen'[r] < PairStep)
    BY <2>1 DEF PairStep
  <2> QED  BY <1>2, <2>1, <2>2
<1>9. ASSUME NEW r \in Requests, Advance(r)
      PROVE  HoldsInv'
  <2>1. /\ pc[r] = "advance" /\ pc'[r] = "respond"
        /\ UNCHANGED <<removed, session, seen, made, disturbed>>
        /\ \A q \in Requests : q # r => pc'[q] = pc[q]
        /\ \A s \in Requests : s # session[r] => sessions'[s] = sessions[s]
        /\ sessions'[session[r]].source \in
               {sessions[session[r]].source} \cup (IF seen[r] = SourceStep THEN {made[r]} ELSE {})
        /\ sessions'[session[r]].target \in
               {sessions[session[r]].target} \cup (IF seen[r] = TargetStep THEN {made[r]} ELSE {})
    BY <1>1, <1>9 DEF Advance, Stays, tables, mail, local, upsets, Session
  <2>2. session[r] \notin disturbed /\ seen[r] \in {SourceStep, TargetStep} => made[r] \notin removed
    BY <1>1, <2>1 DEF HoldsInv, SourceStep, TargetStep, PairStep
  <2> QED  BY <1>1, <2>1, <2>2, HoldsKept
<1>10. ASSUME NEW r \in Requests, Respond(r)
      PROVE  HoldsInv'
  <2>1. /\ UNCHANGED <<removed, sessions, session, seen, made, disturbed>>
        /\ \A q \in Requests : pc'[q] \in {"gone", pc[q]}
    BY <1>1, <1>10 DEF Respond, tables, mail, local, upsets
  <2> QED  BY <1>2, <2>1
<1>11. CASE UNCHANGED vars
  <2>1. UNCHANGED <<removed, sessions, session, pc, seen, made, disturbed>>
    BY <1>11 DEF vars, tables, mail, local, upsets
  <2> QED  BY <1>2, <2>1
<1> QED  BY <1>3, <1>4, <1>5, <1>6, <1>7, <1>8, <1>9, <1>10, <1>11 DEF Next, Handler, Rest

(* In every state reached, sessions without trouble hold stored buckets.   *)

LEMMA SessionsHold == Spec => []Holding
<1>1. Init => CatalogInv /\ HoldsInv
  BY InitInv DEF Init, CatalogInv, UsedUp, WellMade, EverStored, HoldsInv
<1>2. CatalogInv /\ [Next]_vars => CatalogInv'
  BY TablesStep
<1>3. Forming /\ CatalogInv /\ HoldsInv /\ [Next]_vars => HoldsInv'
  BY StepHolds DEF Holding
<1> QED  BY <1>1, <1>2, <1>3, SessionsInStep, PTL DEF Spec, Holding

(* A bucket chosen by a session's last form is the only one that form      *)
(* named.                                                                  *)

LEMMA OneNamed ==
    ASSUME Forming, NEW s, NEW role, NEW b \in buckets, Chosen(s, role, b)
    PROVE  {b.id} = IdsOf(LastNamed(s, role))
<1>1. PICK q \in 1 .. sent : LastForm(s, role, q) /\ b.name = body[q].name
  BY DEF Chosen
<1>2. sent \in Nat
  BY Sent DEF Forming
<1>3. LastNamed(s, role) = {b.name}
  <2>1. \A r \in 1 .. sent :
            /\ session[r] = s /\ body[r].form = role
            /\ \A o \in {p \in 1 .. sent : session[p] = s /\ body[p].form = role} : o <= r
            => r = q
    BY <1>1, <1>2 DEF LastForm
  <2> QED  BY <1>1, <2>1 DEF LastForm, LastNamed
<1>4. {c \in buckets : c.name \in {b.name}} = {b}
  BY DEF Forming, NamesInv
<1> QED  BY <1>3, <1>4 DEF IdsOf

(* FormsFillTheirSlots: a pair that is inserted for a session without      *)
(* trouble mirrors the bucket its last source form named into the one its  *)
(* last target form named.                                                 *)

THEOREM SlotsFromForms == Spec => FormsFillTheirSlots
<1> DEFINE Mirrors(r) ==
        pc[r] = "insertPair" /\ pc'[r] = "advance" /\ session[r] \notin disturbed =>
            /\ body[r].form = "pair"
            /\ {made[r].source} = IdsOf(LastNamed(session[r], "source"))
            /\ {made[r].target} = IdsOf(LastNamed(session[r], "target"))
<1>1. ASSUME Holding, NEW r \in Requests
      PROVE  Mirrors(r)
  <2> SUFFICES ASSUME pc[r] = "insertPair", session[r] \notin disturbed
               PROVE  /\ body[r].form = "pair"
                      /\ {made[r].source} = IdsOf(LastNamed(session[r], "source"))
                      /\ {made[r].target} = IdsOf(LastNamed(session[r], "target"))
    OBVIOUS
  <2>1. PICK s \in Requests : s = session[r]
    BY <1>1 DEF Holding, Forming, IInv, TypeOK
  <2>2. r \in 1 .. sent /\ Steady(s)
    BY <1>1, <2>1, Sent DEF Holding, Forming, TabsInv, Steady
  <2>3. InStep(s) /\ SlotsFilled(s) /\ UnderWay(r)
    BY <1>1, <2>2 DEF Holding, Forming, SteadyInv, UnderWay
  <2>4. /\ seen[r] = PairStep
        /\ sessions[s].source \in buckets /\ sessions[s].target \in buckets
    BY <1>1, <2>1
       DEF Holding, HoldsInv, Forming, IInv, HandlerInv, KnowsSource, KnowsTarget, EverStored
  <2>5. /\ body[r].form = Role(PairStep) /\ sessions[s].step = PairStep
        /\ made[r].source = sessions[s].source.id
        /\ made[r].target = sessions[s].target.id
    BY <2>1, <2>2, <2>3, <2>4 DEF InStep
  <2>6. /\ Chosen(s, "source", sessions[s].source)
        /\ Chosen(s, "target", sessions[s].target)
    BY <2>3, <2>5 DEF SlotsFilled, TargetStep, PairStep
  <2> QED  BY <1>1, <2>1, <2>4, <2>5, <2>6, OneNamed, RoleNames DEF Holding
<1>2. Holding => [\A r \in Requests : Mirrors(r)]_vars
  BY <1>1
<1>3. Spec => [][\A r \in Requests : Mirrors(r)]_vars
  BY <1>2, SessionsHold, PTL
<1> QED  BY <1>3 DEF FormsFillTheirSlots

=============================================================================
