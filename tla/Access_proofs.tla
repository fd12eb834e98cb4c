---------------------------- MODULE Access_proofs ----------------------------
(***************************************************************************)
(* Proofs about sign-in and access, for any people, policies, clusters,    *)
(* flows, callbacks and times to live.                                     *)
(*                                                                         *)
(* The argument: whatever overlaps, a session that reaches a browser was   *)
(* made by SessionOf in the process whose number it carries (WellMade), so *)
(* the role names in it are those that process's policy gives its person,  *)
(* and it is only read by that process.  An access rebuilt from the names  *)
(* then has the roles that are named like one of the person's own          *)
(* (CallerIsBehind), which nothing makes just their own, and the rest is   *)
(* what one request is answered.                                           *)
(***************************************************************************)
EXTENDS Access, TLAPS

AllNames == UNION {{role.name : role \in Policies[e].roles} : e \in DOMAIN Policies}

Given(e, who) == AccessOf(Policies[e].roles, Policies[e].enforcing, who)

\* A session some process made, of a person of the provider.
WellMade(session) ==
  /\ session \in [who : People, epoch : Nat, until : Nat, roles : SUBSET AllNames]
  /\ session.roles = RoleNames(Given(session.epoch, session.who))

SignedIn(f) == f \in Flows /\ flow[f].status \in {"granted", "spent"}

InFlight == {"exchanging", "fetching", "storing", "rechecking"}

CallbackOK(called) ==
  /\ called.stage \in InFlight => SignedIn(called.flow)
  /\ called.stage = "done" /\ called.why = "verified" => WellMade(called.session)
  /\ called.stage = "done" /\ called.why = "signature" => called.token \notin called.held

LoginInv ==
  /\ now \in Nat
  /\ epoch \in DOMAIN Policies
  /\ DOMAIN flow = Flows
  /\ \A f \in Flows : SignedIn(f) => flow[f].who \in People
  /\ DOMAIN callback = Callbacks
  /\ \A c \in Callbacks : CallbackOK(callback[c])
  /\ jar = [pending |-> jar.pending, session |-> jar.session]
  /\ jar.session # Absent => WellMade(jar.session)

-----------------------------------------------------------------------------
(***************************************************************************)
(* Sessions                                                                *)
(***************************************************************************)

\* The roles of an access are roles of the policy.
LEMMA NamesAreNames ==
  ASSUME NEW e \in DOMAIN Policies, NEW who
  PROVE  RoleNames(Given(e, who)) \in SUBSET AllNames
BY DEF RoleNames, Given, AccessOf, Admin, AllNames

LEMMA SessionIsWellMade ==
  ASSUME LoginInv, NEW who \in People
  PROVE  WellMade(SessionOf(who))
<1>1. epoch \in Nat /\ epoch \in DOMAIN Policies
  BY PoliciesAreOfProcesses, Bounds DEF LoginInv
<1>2. now + SessionTtl \in Nat
  BY TimesToLive DEF LoginInv
<1>3. RoleNames(Given(epoch, who)) \in SUBSET AllNames
  BY <1>1, NamesAreNames
<1>4. SessionOf(who) = [ who |-> who, epoch |-> epoch, until |-> now + SessionTtl,
                         roles |-> RoleNames(Given(epoch, who)) ]
  BY DEF SessionOf, InForce, Given
<1> QED BY <1>1, <1>2, <1>3, <1>4 DEF WellMade

LEMMA WellMadeIsSomething ==
  ASSUME NEW session, WellMade(session)
  PROVE  session # Absent
BY AbsentIsNoSession DEF WellMade, AllNames

(***************************************************************************)
(* Every step of a login keeps them                                        *)
(***************************************************************************)

\* What one callback becomes, while nothing else it depends on changes.
LEMMA CallbackChanges ==
  ASSUME LoginInv, NEW c \in Callbacks, NEW called, CallbackOK(called),
         callback' = [callback EXCEPT ![c] = called],
         UNCHANGED <<now, epoch, jar>>,
         DOMAIN flow' = Flows,
         \A f \in Flows : (SignedIn(f)' <=> SignedIn(f)) /\ flow'[f].who = flow[f].who
  PROVE  LoginInv'
<1>1. DOMAIN callback' = Callbacks /\ \A d \in Callbacks : CallbackOK(callback'[d])
  BY DEF LoginInv
<1>2. \A f : SignedIn(f)' <=> SignedIn(f)
  BY DEF SignedIn
<1>3. \A d \in Callbacks : CallbackOK(callback[d])'
  BY <1>1, <1>2 DEF CallbackOK, WellMade
<1>4. (jar.session # Absent => WellMade(jar.session))'
  BY DEF LoginInv, WellMade
<1> QED BY <1>1, <1>3, <1>4 DEF LoginInv

\* A flow moves at the provider.
LEMMA FlowChanges ==
  ASSUME LoginInv, NEW f \in Flows, NEW made,
         ~SignedIn(f),
         made.status \in {"granted", "spent"} => made.who \in People,
         flow' = [flow EXCEPT ![f] = made],
         UNCHANGED <<now, epoch, callback>>,
         jar' = [pending |-> jar'.pending, session |-> jar.session]
  PROVE  LoginInv'
<1>1. DOMAIN flow' = Flows /\ \A g \in Flows : SignedIn(g)' => flow'[g].who \in People
  BY DEF LoginInv, SignedIn
<1>2. \A g \in Flows : SignedIn(g) => SignedIn(g)'
  BY DEF LoginInv, SignedIn
<1>3. \A d \in Callbacks : CallbackOK(callback[d])'
  BY <1>2 DEF LoginInv, CallbackOK, WellMade, SignedIn
<1>4. jar'.session = jar.session /\ jar' = [pending |-> jar'.pending, session |-> jar'.session]
  OBVIOUS
<1>5. (jar.session # Absent => WellMade(jar.session))'
  BY <1>4 DEF LoginInv, WellMade
<1> QED BY <1>1, <1>3, <1>4, <1>5 DEF LoginInv

LEMMA AnswersIsOK ==
  ASSUME NEW why \in {"start again", "refused"}
  PROVE  CallbackOK([stage |-> "done", why |-> why])
BY DEF CallbackOK, InFlight

LEMMA ArriveInvariant ==
  ASSUME LoginInv, NEW c \in Callbacks, NEW f \in Flows, Arrive(c, f)
  PROVE  LoginInv'
<1>1. /\ UNCHANGED <<now, epoch, jar, flow>>
      /\ \A g \in Flows : (SignedIn(g)' <=> SignedIn(g)) /\ flow'[g].who = flow[g].who
      /\ DOMAIN flow' = Flows
  BY DEF Arrive, LoginInv, SignedIn
<1>2. CASE Answers(c, "refused") \/ Answers(c, "start again")
  BY <1>1, <1>2, AnswersIsOK, CallbackChanges DEF Answers
<1>3. CASE /\ callback' = [callback EXCEPT ![c] = [stage |-> "exchanging", flow |-> f, keys |-> known]]
           /\ flow[f].status # "refused"
  <2> DEFINE called == [stage |-> "exchanging", flow |-> f, keys |-> known]
  <2>1. SignedIn(f)
    BY <1>3 DEF Arrive, SignedIn
  <2>2. CallbackOK(called)
    BY <2>1 DEF CallbackOK
  <2> HIDE DEF called
  <2>3. callback' = [callback EXCEPT ![c] = called]
    BY <1>3 DEF called
  <2> QED BY <1>1, <2>2, <2>3, CallbackChanges
<1> QED BY <1>2, <1>3 DEF Arrive

LEMMA ResolvesInvariant ==
  ASSUME LoginInv, NEW c \in Callbacks, NEW who \in People, Resolves(c, who),
         UNCHANGED <<now, epoch, jar>>,
         DOMAIN flow' = Flows,
         \A f \in Flows : (SignedIn(f)' <=> SignedIn(f)) /\ flow'[f].who = flow[f].who
  PROVE  LoginInv'
<1> DEFINE called == [stage |-> "done", why |-> "verified", session |-> SessionOf(who)]
<1>1. WellMade(SessionOf(who))
  BY SessionIsWellMade
<1>2. CallbackOK(called)
  BY <1>1 DEF CallbackOK, InFlight
<1> HIDE DEF called
<1>3. callback' = [callback EXCEPT ![c] = called]
  BY DEF Resolves, called
<1> QED BY <1>2, <1>3, CallbackChanges

\* A code that is exchanged is spent, and stays one of somebody signed in.
LEMMA SpentIsSignedIn ==
  ASSUME LoginInv, NEW f \in Flows, flow[f].status = "granted",
         flow' = [flow EXCEPT ![f].status = "spent"]
  PROVE  /\ DOMAIN flow' = Flows
         /\ \A g \in Flows : (SignedIn(g)' <=> SignedIn(g)) /\ flow'[g].who = flow[g].who
<1>1. DOMAIN flow = Flows
  BY DEF LoginInv
<1>2. \A g \in Flows : g # f => flow'[g] = flow[g]
  BY <1>1
<1>3. flow'[f] = [flow[f] EXCEPT !.status = "spent"]
  BY <1>1
<1>4. flow'[f].who = flow[f].who /\ flow'[f].status \in {"spent", "granted"}
  BY <1>3
<1>5. \A g \in Flows : SignedIn(g)' <=> SignedIn(g)
  BY <1>2, <1>4 DEF SignedIn
<1> QED BY <1>1, <1>2, <1>4, <1>5

LEMMA ExchangeInvariant ==
  ASSUME LoginInv, NEW c \in Callbacks, Exchange(c) \/ ExchangeFails(c)
  PROVE  LoginInv'
<1> DEFINE f == callback[c].flow
<1>1. SignedIn(f) /\ flow[f].who \in People
  <2>1. callback[c].stage = "exchanging"
    BY DEF Exchange, ExchangeFails
  <2>2. CallbackOK(callback[c])
    BY DEF LoginInv
  <2>3. SignedIn(f)
    BY <2>1, <2>2 DEF CallbackOK, InFlight
  <2> QED BY <2>3 DEF LoginInv, SignedIn
<1>2. UNCHANGED <<now, epoch, jar>>
  BY DEF Exchange, ExchangeFails
<1>3. /\ DOMAIN flow' = Flows
      /\ \A g \in Flows : (SignedIn(g)' <=> SignedIn(g)) /\ flow'[g].who = flow[g].who
  <2>1. CASE flow[f].status = "granted" /\ flow' = [flow EXCEPT ![f].status = "spent"]
    BY <1>1, <2>1, SpentIsSignedIn DEF SignedIn
  <2>2. CASE flow' = flow
    BY <2>2 DEF LoginInv, SignedIn
  <2> QED BY <2>1, <2>2 DEF Exchange, ExchangeFails
<1>4. CASE Answers(c, "refused")
  BY <1>2, <1>3, <1>4, AnswersIsOK, CallbackChanges DEF Answers
<1>5. CASE Resolves(c, flow[f].who)
  BY <1>1, <1>2, <1>3, <1>5, ResolvesInvariant
<1>6. CASE callback' = [callback EXCEPT ![c] =
               [stage |-> "fetching", flow |-> f, keys |-> callback[c].keys, token |-> signing]]
  <2> DEFINE called == [stage |-> "fetching", flow |-> f, keys |-> callback[c].keys, token |-> signing]
  <2>1. CallbackOK(called)
    BY <1>1 DEF CallbackOK
  <2> HIDE DEF called
  <2>2. callback' = [callback EXCEPT ![c] = called]
    BY <1>6 DEF called
  <2> QED BY <1>2, <1>3, <2>1, <2>2, CallbackChanges
<1>7. c \in DOMAIN callback
  BY DEF LoginInv
<1> QED BY <1>4, <1>5, <1>6, <1>7 DEF Exchange, ExchangeFails

\* The keys are asked for, stored, and the token verified once more.
LEMMA RetryInvariant ==
  ASSUME LoginInv, NEW c \in Callbacks, Fetch(c) \/ FetchFails(c) \/ Store(c) \/ Recheck(c)
  PROVE  LoginInv'
<1>1. /\ UNCHANGED <<now, epoch, jar, flow>>
      /\ \A g \in Flows : (SignedIn(g)' <=> SignedIn(g)) /\ flow'[g].who = flow[g].who
      /\ DOMAIN flow' = Flows
      /\ SignedIn(callback[c].flow) /\ flow[callback[c].flow].who \in People
      /\ c \in DOMAIN callback
  BY DEF Fetch, FetchFails, Store, Recheck, Verifies, LoginInv, SignedIn, CallbackOK, InFlight
<1>2. CASE Fetch(c)
  <2> DEFINE called == [ stage |-> "storing", flow |-> callback[c].flow, keys |-> callback[c].keys,
                         token |-> callback[c].token, fetched |-> Served ]
  <2>1. CallbackOK(called)
    BY <1>1 DEF CallbackOK
  <2>2. callback' = [callback EXCEPT ![c] = called]
    BY <1>1, <1>2 DEF Fetch
  <2> HIDE DEF called
  <2> QED BY <1>1, <2>1, <2>2, CallbackChanges
<1>3. CASE FetchFails(c)
  BY <1>1, <1>3, AnswersIsOK, CallbackChanges DEF FetchFails, Answers
<1>4. CASE Store(c)
  <2> DEFINE called == [callback[c] EXCEPT !.stage = "rechecking"]
  <2>1. called.stage \in {"rechecking", "storing"} /\ called.flow = callback[c].flow
    BY <1>4 DEF Store
  <2>2. callback' = [callback EXCEPT ![c] = called]
    BY <1>1, <1>4 DEF Store
  <2> HIDE DEF called
  <2>3. CallbackOK(called)
    BY <1>1, <2>1 DEF CallbackOK
  <2> QED BY <1>1, <2>2, <2>3, CallbackChanges
<1>5. CASE Recheck(c)
  <2>1. CASE callback[c].token \in known
    BY <1>1, <1>5, <2>1, ResolvesInvariant DEF Recheck, Verifies
  <2>2. CASE callback[c].token \notin known
    <3> DEFINE called == [ stage |-> "done", why |-> "signature", token |-> callback[c].token,
                           fetched |-> callback[c].fetched, held |-> known ]
    <3>1. CallbackOK(called)
      BY <2>2 DEF CallbackOK, InFlight
    <3>2. callback' = [callback EXCEPT ![c] = called]
      BY <1>1, <1>5, <2>2 DEF Recheck, Verifies
    <3> HIDE DEF called
    <3> QED BY <1>1, <3>1, <3>2, CallbackChanges
  <2> QED BY <2>1, <2>2
<1> QED BY <1>2, <1>3, <1>4, <1>5

\* The browser's cookies change, or the connection is lost.
LEMMA BrowserInvariant ==
  ASSUME LoginInv, NEW c \in Callbacks, Answered(c) \/ Lost(c)
  PROVE  LoginInv'
<1>1. UNCHANGED <<now, epoch, flow>> /\ callback' = [callback EXCEPT ![c] = Idle]
  BY DEF Answered, Lost
<1>2. CallbackOK(Idle)
  BY DEF CallbackOK, Idle, InFlight
<1>3. DOMAIN callback' = Callbacks /\ \A d \in Callbacks : CallbackOK(callback'[d])
  BY <1>1, <1>2 DEF LoginInv
<1>4. \A d \in Callbacks : CallbackOK(callback[d])'
  BY <1>1, <1>3 DEF CallbackOK, WellMade, SignedIn
<1>5. /\ jar' = [pending |-> jar'.pending, session |-> jar'.session]
      /\ jar'.session # Absent => WellMade(jar'.session)
  <2>1. CASE Answered(c)
    <3>1. CallbackOK(callback[c]) /\ callback[c].stage = "done" /\ jar' = Reply(c)
      BY <2>1 DEF LoginInv, Answered
    <3>2. jar'.session = IF callback[c].why = "verified" THEN callback[c].session ELSE jar.session
      BY <3>1 DEF Reply
    <3>3. jar' = [pending |-> jar'.pending, session |-> jar'.session]
      BY <3>1 DEF Reply
    <3> QED BY <3>1, <3>2, <3>3 DEF LoginInv, CallbackOK
  <2>2. CASE Lost(c)
    BY <2>2 DEF Lost, LoginInv
  <2> QED BY <2>1, <2>2
<1>6. (jar.session # Absent => WellMade(jar.session))'
  BY <1>5 DEF WellMade
<1>7. \A f \in Flows : SignedIn(f)' <=> SignedIn(f)
  BY <1>1 DEF SignedIn
<1> QED BY <1>1, <1>3, <1>4, <1>5, <1>6, <1>7 DEF LoginInv

LEMMA LogoutInvariant ==
  ASSUME LoginInv, Logout
  PROVE  LoginInv'
<1>1. /\ UNCHANGED <<now, epoch, flow, callback>>
      /\ jar' = [pending |-> jar.pending, session |-> Absent]
  BY DEF Logout, LoginInv
<1>2. \A d \in Callbacks : CallbackOK(callback[d])'
  BY <1>1 DEF LoginInv, CallbackOK, WellMade, SignedIn
<1>3. \A f \in Flows : SignedIn(f)' <=> SignedIn(f)
  BY <1>1 DEF SignedIn
<1> QED BY <1>1, <1>2, <1>3 DEF LoginInv

LEMMA RestartInvariant ==
  ASSUME LoginInv, Restart
  PROVE  LoginInv'
<1>1. /\ UNCHANGED <<now, flow, jar>>
      /\ epoch < LastEpoch /\ epoch' = epoch + 1
      /\ callback' = [c \in Callbacks |-> IF callback[c].stage = "done" THEN callback[c] ELSE Idle]
  BY DEF Restart
<1>2. epoch' \in DOMAIN Policies
  BY <1>1, PoliciesAreOfProcesses, Bounds DEF LoginInv
<1>3. CallbackOK(Idle)
  BY DEF CallbackOK, Idle, InFlight
<1>4. DOMAIN callback' = Callbacks /\ \A d \in Callbacks : CallbackOK(callback'[d])
  BY <1>1, <1>3 DEF LoginInv
<1>5. \A d \in Callbacks : CallbackOK(callback[d])'
  BY <1>1, <1>4 DEF CallbackOK, WellMade, SignedIn
<1>6. \A f \in Flows : SignedIn(f)' <=> SignedIn(f)
  BY <1>1 DEF SignedIn
<1>7. (jar.session # Absent => WellMade(jar.session))'
  BY <1>1 DEF LoginInv, WellMade
<1> QED BY <1>1, <1>2, <1>4, <1>5, <1>6, <1>7 DEF LoginInv

\* Nothing a login rests on changes but the clock.
LEMMA ElsewhereInvariant ==
  ASSUME LoginInv, now' \in Nat, UNCHANGED <<epoch, flow, callback, jar>>
  PROVE  LoginInv'
<1>1. \A d \in Callbacks : CallbackOK(callback[d])'
  BY DEF LoginInv, CallbackOK, WellMade, SignedIn
<1>2. \A f \in Flows : SignedIn(f)' <=> SignedIn(f)
  BY DEF SignedIn
<1>3. (jar.session # Absent => WellMade(jar.session))'
  BY DEF LoginInv, WellMade
<1> QED BY <1>1, <1>2, <1>3 DEF LoginInv

LEMMA FlowInvariant ==
  ASSUME LoginInv, NEW f \in Flows, StartLogin(f) \/ SignIn(f) \/ Cancel(f)
  PROVE  LoginInv'
<1>1. /\ UNCHANGED <<now, epoch, callback>> /\ ~SignedIn(f)
      /\ f \in DOMAIN flow
  BY DEF StartLogin, SignIn, Cancel, SignedIn, LoginInv
<1>2. jar' = [pending |-> jar'.pending, session |-> jar.session]
  <2>1. jar = [pending |-> jar.pending, session |-> jar.session]
    BY DEF LoginInv
  <2>2. CASE StartLogin(f)
    <3>1. jar' = [jar EXCEPT !.pending = [flow |-> f, epoch |-> epoch, gone |-> now + PendingTtl]]
      BY <2>2 DEF StartLogin
    <3>2. PICK p : p = [flow |-> f, epoch |-> epoch, gone |-> now + PendingTtl]
      OBVIOUS
    <3>3. jar' = [pending |-> p, session |-> jar.session]
      BY <2>1, <3>1, <3>2
    <3> QED BY <3>3
  <2>3. CASE SignIn(f) \/ Cancel(f)
    BY <2>1, <2>3 DEF SignIn, Cancel
  <2> QED BY <2>2, <2>3
<1>3. CASE SignIn(f)
  <2>1. PICK who \in People : flow' = [flow EXCEPT ![f] = [status |-> "granted", who |-> who]]
    BY <1>3 DEF SignIn
  <2> DEFINE made == [status |-> "granted", who |-> who]
  <2>2. made.status \in {"granted", "spent"} => made.who \in People
    OBVIOUS
  <2> HIDE DEF made
  <2>3. flow' = [flow EXCEPT ![f] = made]
    BY <2>1 DEF made
  <2> QED BY <1>1, <1>2, <2>2, <2>3, FlowChanges
<1>4. CASE StartLogin(f) \/ Cancel(f)
  <2>1. PICK status \in {"away", "refused"} : flow' = [flow EXCEPT ![f].status = status]
    BY <1>4 DEF StartLogin, Cancel
  <2> DEFINE made == [flow[f] EXCEPT !.status = status]
  <2>2. flow[f].status \notin {"granted", "spent"}
    BY <1>1 DEF SignedIn
  <2>3. made.status \in {status, flow[f].status}
    OBVIOUS
  <2>4. flow' = [flow EXCEPT ![f] = made]
    BY <1>1, <2>1
  <2> HIDE DEF made
  <2>5. made.status \notin {"granted", "spent"}
    BY <2>2, <2>3
  <2> QED BY <1>1, <1>2, <2>4, <2>5, FlowChanges
<1> QED BY <1>3, <1>4

LEMMA LoginNextInvariant == LoginInv /\ [LoginNext]_vars => LoginInv'
<1> SUFFICES ASSUME LoginInv, [LoginNext]_vars PROVE LoginInv'
  OBVIOUS
<1>1. CASE \E f \in Flows : StartLogin(f) \/ SignIn(f) \/ Cancel(f)
  BY <1>1, FlowInvariant
<1>2. ASSUME NEW c \in Callbacks,
             \/ \E f \in Flows : Arrive(c, f)
             \/ Exchange(c) \/ ExchangeFails(c) \/ Fetch(c) \/ FetchFails(c)
             \/ Store(c) \/ Recheck(c) \/ Answered(c) \/ Lost(c)
      PROVE  LoginInv'
  BY <1>2, ArriveInvariant, ExchangeInvariant, RetryInvariant, BrowserInvariant
<1>3. CASE Logout
  BY <1>3, LogoutInvariant
<1>4. CASE Restart
  BY <1>4, RestartInvariant
<1>5. CASE Rotate \/ Tick \/ UNCHANGED vars
  <2>1. now' \in Nat /\ UNCHANGED <<epoch, flow, callback, jar>>
    BY <1>5 DEF Rotate, Tick, vars, LoginInv
  <2> QED BY <2>1, ElsewhereInvariant
<1> QED BY <1>1, <1>2, <1>3, <1>4, <1>5 DEF LoginNext

LEMMA LoginInitInvariant == LoginInit => LoginInv
<1> SUFFICES ASSUME LoginInit PROVE LoginInv
  OBVIOUS
<1>1. now \in Nat /\ epoch \in DOMAIN Policies
  BY PoliciesAreOfProcesses, Bounds DEF LoginInit
<1>2. DOMAIN flow = Flows /\ \A f \in Flows : ~SignedIn(f)
  BY DEF LoginInit, SignedIn
<1>3. CallbackOK(Idle)
  BY DEF CallbackOK, Idle, InFlight
<1>4. DOMAIN callback = Callbacks /\ \A c \in Callbacks : CallbackOK(callback[c])
  BY <1>3 DEF LoginInit
<1>5. jar = [pending |-> jar.pending, session |-> jar.session] /\ jar.session = Absent
  BY DEF LoginInit
<1> QED BY <1>1, <1>2, <1>4, <1>5 DEF LoginInv

-----------------------------------------------------------------------------
(***************************************************************************)
(* Who a request is taken to be of, and who it is of                       *)
(***************************************************************************)

\* Somebody's roles have the names of their roles; where no two share a name
\* no other has.
LEMMA OwnAreNamed ==
  ASSUME NEW policy, NEW who
  PROVE  /\ OwnRoles(policy, who) \subseteq NamedRoles(policy, who)
         /\ NamedApart(policy.roles) => NamedRoles(policy, who) = OwnRoles(policy, who)
BY DEF OwnRoles, NamedRoles, NamedApart

\* The access that these roles are.
Held(policy, roles) ==
  IF policy.enforcing THEN [roles |-> roles, administrator |-> FALSE] ELSE Admin

\* An access between what is somebody's own and what is named like it.
IsOf(policy, who, access) ==
  \E roles \in SUBSET NamedRoles(policy, who) :
    OwnRoles(policy, who) \subseteq roles /\ access = Held(policy, roles)

\* The names an access was resolved to bring back the roles named so.
LEMMA NamesBringBack ==
  ASSUME NEW e \in DOMAIN Policies, NEW who \in People
  PROVE  AccessForRoles(Policies[e].roles, Policies[e].enforcing, RoleNames(Given(e, who)))
           = Held(Policies[e], NamedRoles(Policies[e], who))
<1>1. CASE ~Policies[e].enforcing
  BY <1>1 DEF AccessForRoles, Held
<1>2. CASE Policies[e].enforcing
  <2> DEFINE own   == OwnRoles(Policies[e], who)
             named == {role \in Policies[e].roles : role.name \in {other.name : other \in own}}
  <2>1. Given(e, who) = [roles |-> own, administrator |-> FALSE]
    BY <1>2 DEF Given, AccessOf, OwnRoles
  <2>2. RoleNames(Given(e, who)) = {other.name : other \in own}
    BY <2>1 DEF RoleNames
  <2>3. named = NamedRoles(Policies[e], who)
    BY DEF NamedRoles, OwnRoles
  <2>4. AccessForRoles(Policies[e].roles, Policies[e].enforcing, RoleNames(Given(e, who)))
          = [roles |-> named, administrator |-> FALSE]
    BY <1>2, <2>2 DEF AccessForRoles
  <2> QED BY <1>2, <2>3, <2>4 DEF Held
<1> QED BY <1>1, <1>2

\* The access a caller has is that of the person behind the request, and both
\* are signed in or neither is.
LEMMA CallerIsBehind ==
  ASSUME LoginInv
  PROVE  /\ IsOf(Policies[epoch], Behind, Caller.access)
         /\ Caller.who.subject = Behind.subject
<1>1. epoch \in DOMAIN Policies
  BY DEF LoginInv
<1>2. CASE Live(jar.session)
  <2>1. jar.session # Absent /\ jar.session.epoch = epoch /\ jar.session.until > now
    BY <1>2 DEF Live
  <2>2. Behind = jar.session.who
    BY <2>1 DEF Behind
  <2>3. /\ jar.session.roles = RoleNames(Given(epoch, jar.session.who))
        /\ jar.session.who \in People
    BY <2>1 DEF LoginInv, WellMade
  <2>4. /\ Caller.who.subject = jar.session.who.subject
        /\ Caller.access = AccessForRoles(InForce.roles, InForce.enforcing, jar.session.roles)
    BY <1>2 DEF Caller
  <2>5. Caller.access = Held(Policies[epoch], NamedRoles(Policies[epoch], jar.session.who))
    BY <1>1, <2>3, <2>4, NamesBringBack DEF InForce
  <2>6. IsOf(Policies[epoch], jar.session.who, Caller.access)
    BY <2>5, OwnAreNamed DEF IsOf
  <2> QED BY <2>2, <2>4, <2>6
<1>3. CASE ~Live(jar.session)
  <2>1. Behind = Anonymous
    BY <1>3 DEF Behind, Live
  <2>2. Caller = [ who |-> Anonymous, access |-> AccessOf(InForce.roles, InForce.enforcing, Anonymous) ]
    BY <1>3 DEF Caller
  <2>3. Caller.access = Held(Policies[epoch], OwnRoles(Policies[epoch], Anonymous))
    BY <2>2 DEF Held, AccessOf, OwnRoles, InForce
  <2>4. IsOf(Policies[epoch], Anonymous, Caller.access)
    BY <2>3, OwnAreNamed DEF IsOf
  <2> QED BY <2>1, <2>2, <2>4
<1> QED BY <1>2, <1>3

(***************************************************************************)
(* What one request is answered                                            *)
(***************************************************************************)

\* AnsweredByPolicy, of an answer and whom it is given.
RightTo(policy, who, asked, stage) ==
  /\ AnsweredWithin(policy, NamedRoles(policy, who), who, asked, stage)
  /\ NothingIsKeptFrom(policy, OwnRoles(policy, who), asked, stage)

\* What an access permits the roles it is within grant, and what the roles it
\* has grant it permits; only a policy that is not enforced makes
\* administrators.
LEMMA PermitsIsGrants ==
  ASSUME NEW policy, NEW roles, NEW more, roles \subseteq more,
         NEW cluster, NEW resource, NEW action, NEW name,
         RolePermits(Held(policy, roles), cluster, resource, action, name)
  PROVE  policy.enforcing /\ Grants(more, cluster, resource, action, name)
<1>1. CASE policy.enforcing
  <2>1. Held(policy, roles).roles = roles
    BY <1>1 DEF Held
  <2> QED BY <1>1, <2>1 DEF RolePermits, Grants
<1>2. CASE ~policy.enforcing
  BY <1>2 DEF Held, Admin, RolePermits
<1> QED BY <1>1, <1>2

LEMMA GrantsIsPermits ==
  ASSUME NEW policy, NEW roles, NEW fewer \in SUBSET roles, policy.enforcing,
         NEW cluster, NEW resource, NEW action, NEW name,
         Grants(fewer, cluster, resource, action, name)
  PROVE  /\ RolePermits(Held(policy, roles), cluster, resource, action, name)
         /\ Sees(Held(policy, roles), cluster)
<1>1. Held(policy, roles).roles = roles
  BY DEF Held
<1>2. PICK role \in fewer :
        /\ Selects(role, cluster)
        /\ \E permission \in role.permissions : Covers(permission, resource, action, name)
  BY DEF Grants
<1>3. role \in Held(policy, roles).roles /\ role.permissions # {}
  BY <1>1, <1>2
<1> QED BY <1>2, <1>3 DEF RolePermits, Sees

LEMMA AdministratorIsOpen ==
  ASSUME NEW policy, NEW roles
  PROVE  IF policy.enforcing THEN Held(policy, roles).administrator = FALSE
         ELSE Held(policy, roles).administrator = TRUE
BY DEF Held, Admin

LEMMA TopicIsRight ==
  ASSUME NEW policy, NEW who, NEW caller, NEW asked,
         IsOf(policy, who, caller.access), asked.kind \in {"page", "stream"}
  PROVE  RightTo(policy, who, asked, TopicAnswer(caller, asked))
<1>0. PICK roles :
        /\ roles \subseteq NamedRoles(policy, who) /\ OwnRoles(policy, who) \subseteq roles
        /\ caller.access = Held(policy, roles)
  BY DEF IsOf
<1> DEFINE found == ClusterFor(caller.access, asked.env, asked.id)
           stage == TopicAnswer(caller, asked)
<1>1. stage = IF found = {} THEN "not found"
              ELSE IF \A cluster \in found : MayReadTopic(caller.access, cluster, asked.topic)
              THEN "admitted" ELSE "forbidden"
  BY DEF TopicAnswer
<1>2. \A cluster : cluster \in found <=> cluster \in AskedFor(asked) /\ Sees(caller.access, cluster)
  BY DEF ClusterFor, VisibleIn, Visible, AskedFor
<1> HIDE DEF found
<1>3. ASSUME stage = "admitted", policy.enforcing, NEW cluster \in AskedFor(asked)
      PROVE  Grants(NamedRoles(policy, who), cluster, "topic", "messages_read", asked.topic)
  <2>1. found # {} /\ \A other \in found : MayReadTopic(caller.access, other, asked.topic)
    BY <1>1, <1>3
  <2>2. PICK other \in found : MayReadTopic(caller.access, other, asked.topic)
    BY <2>1
  <2>3. other = cluster
    BY <1>2, <1>3, ClustersAreKeyed DEF AskedFor
  <2>4. RolePermits(Held(policy, roles), cluster, "topic", "messages_read", asked.topic)
    BY <1>0, <1>3, <2>2, <2>3, AdministratorIsOpen DEF MayReadTopic, May
  <2> QED BY <1>0, <2>4, PermitsIsGrants
<1>4. ASSUME stage = "forbidden"
      PROVE  \E cluster \in AskedFor(asked), role \in NamedRoles(policy, who) :
               Selects(role, cluster) /\ role.permissions # {}
  <2>1. PICK cluster \in found : ~MayReadTopic(caller.access, cluster, asked.topic)
    BY <1>1, <1>4
  <2>2. ~caller.access.administrator
    BY <2>1 DEF MayReadTopic, May
  <2>3. PICK role \in caller.access.roles : Selects(role, cluster) /\ role.permissions # {}
    BY <1>2, <2>1, <2>2 DEF Sees
  <2>4. role \in NamedRoles(policy, who)
    BY <1>0, <2>2, <2>3 DEF Held, Admin
  <2> QED BY <1>2, <2>1, <2>3, <2>4
<1>5. ASSUME stage # "admitted", NEW cluster \in AskedFor(asked)
      PROVE  /\ policy.enforcing
             /\ ~Grants(OwnRoles(policy, who), cluster, "topic", "messages_read", asked.topic)
  <2>1. found = {} \/ \E other \in found : ~MayReadTopic(caller.access, other, asked.topic)
    BY <1>1, <1>5
  <2>2. \A other \in found : other = cluster
    BY <1>2, <1>5, ClustersAreKeyed DEF AskedFor
  <2>3. ~Sees(caller.access, cluster) \/ ~MayReadTopic(caller.access, cluster, asked.topic)
    BY <1>2, <1>5, <2>1, <2>2
  <2>4. ~caller.access.administrator
    BY <2>3 DEF Sees, MayReadTopic, May
  <2>5. policy.enforcing
    BY <1>0, <2>4, AdministratorIsOpen
  <2>6. ASSUME Grants(OwnRoles(policy, who), cluster, "topic", "messages_read", asked.topic)
        PROVE  FALSE
    <3>1. /\ RolePermits(caller.access, cluster, "topic", "messages_read", asked.topic)
          /\ Sees(caller.access, cluster)
      BY <1>0, <2>5, <2>6, GrantsIsPermits
    <3> QED BY <2>3, <3>1 DEF MayReadTopic, May
  <2> QED BY <2>5, <2>6
<1>6. stage \in {"not found", "admitted", "forbidden"}
  BY <1>1
<1> HIDE DEF stage
<1>7. stage # "granted" /\ (stage \in {"admitted", "disclosed", "failed"} => stage = "admitted")
  BY <1>6
<1>8. AnsweredWithin(policy, NamedRoles(policy, who), who, asked, stage)
  BY <1>3, <1>4, <1>7 DEF AnsweredWithin
<1>9. NothingIsKeptFrom(policy, OwnRoles(policy, who), asked, stage)
  BY <1>5 DEF NothingIsKeptFrom
<1>10. RightTo(policy, who, asked, stage)
  BY <1>8, <1>9 DEF RightTo
<1> QED BY <1>10 DEF stage

LEMMA WriteIsRight ==
  ASSUME NEW policy, NEW who, NEW caller, NEW asked,
         IsOf(policy, who, caller.access), caller.who.subject = who.subject, asked.kind = "write"
  PROVE  /\ RightTo(policy, who, asked, WriteAnswer(caller, asked))
         /\ WriteAnswer(caller, asked) \in
              {"not found", "anonymous", "not enabled", "forbidden", "granted"}
<1>0. PICK roles :
        roles \subseteq NamedRoles(policy, who) /\ caller.access = Held(policy, roles)
  BY DEF IsOf
<1> DEFINE found   == ConnectFor(caller.access, asked.env, asked.id)
           connect == CHOOSE connect \in found : TRUE
           target  == Target(connect, asked.name)
           needed  == PermissionFor(asked.operation)
           stage   == WriteAnswer(caller, asked)
<1>1. stage = IF found = {} THEN "not found"
              ELSE Authorize(caller.access, caller.who, asked.operation, target, connect.ceiling)
  BY DEF WriteAnswer
<1>2. found # {} => connect \in Connects /\ connect.env = asked.env /\ connect.id = asked.id
  BY DEF ConnectFor
<1>3. Authorize(caller.access, caller.who, asked.operation, target, connect.ceiling) =
        IF ~IsAuthenticated(caller.who) THEN "anonymous"
        ELSE IF policy.enforcing
        THEN IF asked.operation \notin connect.ceiling THEN "not enabled"
             ELSE IF RolePermits(caller.access, target.cluster, needed[1], needed[2], Named(target, needed[1]))
             THEN "granted" ELSE "forbidden"
        ELSE "anonymous"
  <2> HIDE DEF target, connect
  <2>1. CASE policy.enforcing
    <3>1. caller.access.administrator = FALSE
      BY <1>0, <2>1, AdministratorIsOpen
    <3> QED BY <2>1, <3>1 DEF Authorize, Check
  <2>2. CASE ~policy.enforcing
    <3>1. caller.access.administrator = TRUE
      BY <1>0, <2>2, AdministratorIsOpen
    <3> QED BY <2>2, <3>1 DEF Authorize, Check
  <2> QED BY <2>1, <2>2
<1> HIDE DEF target, connect, found, needed
<1>4. stage \in {"not found", "anonymous", "not enabled", "forbidden", "granted"}
  BY <1>1, <1>3
<1> HIDE DEF stage
<1>5. ASSUME stage = "granted"
      PROVE  /\ policy.enforcing /\ IsAuthenticated(who)
             /\ connect \in Connects /\ connect.env = asked.env /\ connect.id = asked.id
             /\ asked.operation \in connect.ceiling
             /\ Grants(NamedRoles(policy, who), target.cluster, needed[1], needed[2],
                       Named(target, needed[1]))
  <2>1. /\ found # {} /\ IsAuthenticated(caller.who)
        /\ policy.enforcing
        /\ asked.operation \in connect.ceiling
        /\ RolePermits(Held(policy, roles), target.cluster, needed[1], needed[2], Named(target, needed[1]))
    BY <1>0, <1>1, <1>3, <1>5
  <2>2. Grants(NamedRoles(policy, who), target.cluster, needed[1], needed[2], Named(target, needed[1]))
    BY <1>0, <2>1, PermitsIsGrants
  <2> QED BY <1>2, <2>1, <2>2 DEF IsAuthenticated
<1>6. stage \notin {"admitted", "disclosed", "failed"}
  BY <1>4
<1>7. AnsweredWithin(policy, NamedRoles(policy, who), who, asked, stage)
  BY <1>5, <1>6 DEF AnsweredWithin, target, needed
<1>8. RightTo(policy, who, asked, stage)
  BY <1>7 DEF RightTo, NothingIsKeptFrom
<1> QED BY <1>4, <1>8 DEF stage

LEMMA AnswerIsRight ==
  ASSUME LoginInv, NEW asked \in Questions
  PROVE  /\ RightTo(Policies[epoch], Behind, asked, AnswerTo(Caller, asked))
         /\ AnswerTo(Caller, asked) \notin {"disclosed", "idle"}
<1>1. PICK who, caller, policy :
        /\ who = Behind /\ caller = Caller /\ policy = Policies[epoch]
        /\ IsOf(policy, who, caller.access) /\ caller.who.subject = who.subject
  BY CallerIsBehind
<1>2. CASE asked.kind \in {"page", "stream"}
  <2>1. AnswerTo(caller, asked) = TopicAnswer(caller, asked)
    BY <1>2 DEF AnswerTo
  <2>2. TopicAnswer(caller, asked) \in {"not found", "admitted", "forbidden"}
    BY DEF TopicAnswer
  <2>3. RightTo(policy, who, asked, TopicAnswer(caller, asked))
    BY <1>1, <1>2, TopicIsRight
  <2> QED BY <1>1, <2>1, <2>2, <2>3
<1>3. CASE asked.kind = "write"
  <2>1. AnswerTo(caller, asked) = WriteAnswer(caller, asked)
    BY <1>3 DEF AnswerTo
  <2>2. /\ RightTo(policy, who, asked, WriteAnswer(caller, asked))
        /\ WriteAnswer(caller, asked) \in {"not found", "anonymous", "not enabled", "forbidden", "granted"}
    BY <1>1, <1>3, WriteIsRight
  <2> QED BY <1>1, <2>1, <2>2
<1>4. CASE asked.kind \in {"registry", "connect"}
  <2>1. AnswerTo(Caller, asked) \in {"not found", "shown"}
    BY <1>4 DEF AnswerTo, Shown
  <2>2. RightTo(policy, who, asked, AnswerTo(Caller, asked))
    BY <1>4, <2>1 DEF RightTo, AnsweredWithin, NothingIsKeptFrom
  <2> QED BY <1>1, <2>1, <2>2
<1> QED BY <1>2, <1>3, <1>4, QuestionsAssumption

-----------------------------------------------------------------------------
(***************************************************************************)
(* Requests                                                                *)
(***************************************************************************)
RequestOK ==
  request.stage # "idle" =>
    /\ request = [ stage |-> request.stage, asked |-> request.asked, caller |-> request.caller,
                   behind |-> request.behind, epoch |-> request.epoch, lines |-> request.lines ]
    /\ RightTo(Policies[request.epoch], request.behind, request.asked, request.stage)
    /\ request.caller.subject = request.behind.subject
    /\ request.stage = "disclosed" => Line \in request.lines

AccessInv == LoginInv /\ RequestOK

LEMMA AskIsOK ==
  ASSUME LoginInv, NEW asked \in Questions, Ask(asked)
  PROVE  RequestOK'
<1> DEFINE stage == AnswerTo(Caller, asked)
<1>1. RightTo(Policies[epoch], Behind, asked, stage) /\ stage # "disclosed"
  BY AnswerIsRight
<1>2. Caller.who.subject = Behind.subject
  BY CallerIsBehind
<1>3. PICK e, who, caller, answer :
        /\ e = epoch /\ who = Behind /\ caller = Caller.who /\ answer = stage
  OBVIOUS
<1>4. request' = [ stage |-> answer, asked |-> asked, caller |-> caller, behind |-> who,
                   epoch |-> e, lines |-> {} ]
  BY <1>3 DEF Ask
<1>5. RightTo(Policies[e], who, asked, answer) /\ caller.subject = who.subject /\ answer # "disclosed"
  BY <1>1, <1>2, <1>3
<1> HIDE DEF stage
<1>6. /\ request'.stage = answer /\ request'.asked = asked /\ request'.caller = caller
      /\ request'.behind = who /\ request'.epoch = e
      /\ request' = [ stage |-> request'.stage, asked |-> request'.asked, caller |-> request'.caller,
                      behind |-> request'.behind, epoch |-> request'.epoch, lines |-> request'.lines ]
  BY <1>4
<1> QED BY <1>5, <1>6 DEF RequestOK

\* What may be admitted may be disclosed, and may fail to be.
LEMMA AdmittedMayGoOn ==
  ASSUME NEW policy, NEW who, NEW asked, RightTo(policy, who, asked, "admitted"),
         NEW stage \in {"disclosed", "failed"}
  PROVE  RightTo(policy, who, asked, stage)
BY DEF RightTo, AnsweredWithin, NothingIsKeptFrom

LEMMA RecordIsOK ==
  ASSUME RequestOK, Record
  PROVE  RequestOK'
<1>1. /\ request.stage = "admitted"
      /\ request = [ stage |-> request.stage, asked |-> request.asked, caller |-> request.caller,
                     behind |-> request.behind, epoch |-> request.epoch, lines |-> request.lines ]
      /\ RightTo(Policies[request.epoch], request.behind, request.asked, "admitted")
      /\ request.caller.subject = request.behind.subject
  BY DEF Record, RequestOK
<1>2. PICK stage \in {"disclosed", "failed"}, lines \in {{Line}, {}} :
        /\ request' = [request EXCEPT !.stage = stage, !.lines = lines]
        /\ stage = "disclosed" => lines = {Line}
  BY DEF Record
<1>3. request' = [ stage |-> stage, asked |-> request.asked, caller |-> request.caller,
                   behind |-> request.behind, epoch |-> request.epoch, lines |-> lines ]
  BY <1>1, <1>2
<1>4. /\ request'.stage = stage /\ request'.asked = request.asked
      /\ request'.caller = request.caller /\ request'.behind = request.behind
      /\ request'.epoch = request.epoch /\ request'.lines = lines
      /\ request' = [ stage |-> request'.stage, asked |-> request'.asked, caller |-> request'.caller,
                      behind |-> request'.behind, epoch |-> request'.epoch, lines |-> request'.lines ]
  BY <1>3
<1>5. Line' = Line
  BY <1>4 DEF Line
<1>6. RightTo(Policies[request.epoch], request.behind, request.asked, stage)
  BY <1>1, AdmittedMayGoOn
<1> QED BY <1>1, <1>2, <1>4, <1>5, <1>6 DEF RequestOK

LEMMA AccessNextInvariant == AccessInv /\ [AccessNext]_allVars => AccessInv'
<1> SUFFICES ASSUME AccessInv, [AccessNext]_allVars PROVE AccessInv'
  OBVIOUS
<1>1. LoginInv'
  <2>1. [LoginNext]_vars
    BY DEF AccessNext, Ask, Record, Done, allVars
  <2> QED BY <2>1, LoginNextInvariant DEF AccessInv
<1>2. CASE UNCHANGED request
  BY <1>1, <1>2 DEF AccessInv, RequestOK, Line
<1>3. CASE request' = NoRequest
  BY <1>1, <1>3 DEF AccessInv, RequestOK, NoRequest
<1>4. CASE \E asked \in Questions : Ask(asked)
  BY <1>1, <1>4, AskIsOK DEF AccessInv
<1>5. CASE Record
  BY <1>1, <1>5, RecordIsOK DEF AccessInv
<1> QED BY <1>2, <1>3, <1>4, <1>5 DEF AccessNext, Cut, Done, allVars

(***************************************************************************)
(* Theorems                                                                *)
(***************************************************************************)

\* In every behaviour sessions are well made and requests rightly answered.
THEOREM AccessInvariant == AccessSpec => []AccessInv
<1>1. AccessInit => AccessInv
  BY LoginInitInvariant DEF AccessInit, AccessInv, RequestOK, NoRequest
<1> QED BY <1>1, AccessNextInvariant, PTL DEF AccessSpec

\* Every request is answered as the policy this process was started with
\* answers the person behind it, for any people and policies: also those with
\* several roles of one name, where what is answered stays within the roles
\* named like one of the person's own.
THEOREM AccessIsByPolicy == AccessSpec => []AnsweredByPolicy
<1>1. ASSUME AccessInv, request.stage # "idle"
      PROVE  AnsweredByPolicy
  <2>1. PICK policy, who, asked, stage :
          /\ policy = Policies[request.epoch] /\ who = request.behind
          /\ asked = request.asked /\ stage = request.stage
    OBVIOUS
  <2>2. RightTo(policy, who, asked, stage)
    BY <1>1, <2>1 DEF AccessInv, RequestOK
  <2>3. NamedApart(policy.roles) => NamedRoles(policy, who) = OwnRoles(policy, who)
    BY OwnAreNamed
  <2>4. NamedApart(policy.roles) => AnsweredWithin(policy, OwnRoles(policy, who), who, asked, stage)
    BY <2>2, <2>3 DEF RightTo
  <2> QED BY <2>1, <2>2, <2>4 DEF RightTo, AnsweredByPolicy
<1>2. AccessInv => AnsweredByPolicy
  BY <1>1 DEF AnsweredByPolicy
<1> QED BY <1>2, AccessInvariant, PTL

\* No payload is shown without a line of the audit with the person in it.
THEOREM DisclosureIsRecorded == AccessSpec => []DisclosedIsRecorded
<1>1. AccessInv => DisclosedIsRecorded
  <2> SUFFICES ASSUME AccessInv, request.stage = "disclosed"
               PROVE  \E line \in request.lines :
                        /\ line.subject = request.behind.subject
                        /\ line.id = request.asked.id /\ line.topic = request.asked.topic
    BY DEF DisclosedIsRecorded
  <2>1. Line \in request.lines /\ request.caller.subject = request.behind.subject
    BY DEF AccessInv, RequestOK
  <2>2. Line.subject = request.caller.subject /\ Line.id = request.asked.id /\ Line.topic = request.asked.topic
    BY DEF Line
  <2> QED BY <2>1, <2>2
<1> QED BY <1>1, AccessInvariant, PTL

\* A login is not refused for a key that its callback fetched and that is
\* still the one in hand, however often the provider rotates.
THEOREM RotationsAreSurvived == AccessSpec => []RotationIsSurvived
<1>1. AccessInv => RotationIsSurvived
  BY DEF AccessInv, LoginInv, CallbackOK, RotationIsSurvived
<1> QED BY <1>1, AccessInvariant, PTL

\* Only a logout signs somebody out whose session is live: for any flows and
\* callbacks, however many overlap.
LEMMA StillSignedIn ==
  ASSUME AccessInv, [AccessNext]_allVars, Live(jar.session), now' = now, epoch' = epoch,
         jar'.session = Absent
  PROVE  Logout
<1>1. jar.session # Absent /\ jar = [pending |-> jar.pending, session |-> jar.session]
  BY DEF Live, AccessInv, LoginInv
<1>2. jar' # jar
  BY <1>1
<1>3. [LoginNext]_vars
  BY DEF AccessNext, Ask, Record, Done, allVars
<1>4. ASSUME NEW f \in Flows, StartLogin(f) PROVE FALSE
  <2>1. PICK p : jar' = [jar EXCEPT !.pending = p]
    BY <1>4 DEF StartLogin
  <2>2. jar' = [pending |-> p, session |-> jar.session]
    BY <1>1, <2>1
  <2> QED BY <1>1, <2>2
<1>5. ASSUME NEW c \in Callbacks, Answered(c) PROVE FALSE
  <2>1. jar'.session = IF callback[c].why = "verified" THEN callback[c].session ELSE jar.session
    BY <1>5 DEF Answered, Reply
  <2>2. callback[c].why = "verified" => WellMade(callback[c].session)
    BY <1>5 DEF Answered, AccessInv, LoginInv, CallbackOK
  <2> QED BY <1>1, <2>1, <2>2, WellMadeIsSomething
<1>6. ASSUME NEW f \in Flows, SignIn(f) \/ Cancel(f) PROVE FALSE
  BY <1>2, <1>6 DEF SignIn, Cancel
<1>7. ASSUME NEW c \in Callbacks,
             \/ \E f \in Flows : Arrive(c, f)
             \/ Exchange(c) \/ ExchangeFails(c) \/ Fetch(c) \/ FetchFails(c)
             \/ Store(c) \/ Recheck(c) \/ Lost(c)
      PROVE  FALSE
  BY <1>2, <1>7 DEF Arrive, Exchange, ExchangeFails, Fetch, FetchFails, Store, Recheck, Verifies, Lost
<1>8. CASE Rotate \/ Restart \/ Tick \/ UNCHANGED vars
  BY <1>2, <1>8 DEF Rotate, Restart, Tick, vars
<1> QED BY <1>3, <1>4, <1>5, <1>6, <1>7, <1>8 DEF LoginNext

\* While time stands still and the process keeps its key, a live session leaves
\* the jar by a logout only: no crossing login and no failed callback clears it.
THEOREM PeopleStaySignedIn == AccessSpec => SignedInStays
<1>1. AccessInv /\ [AccessNext]_allVars =>
        [Live(jar.session) /\ now' = now /\ epoch' = epoch /\ jar'.session = Absent => Logout]_vars
  BY StillSignedIn
<1> QED BY <1>1, AccessInvariant, PTL DEF AccessSpec, SignedInStays
=============================================================================
