-------------------------------- MODULE Login --------------------------------
(***************************************************************************)
(* Signing in: the routes of routes/auth.rs, the cookies of session.rs and *)
(* the token verification of kaas-ui-auth's oidc.rs, with one browser, its *)
(* tabs, the identity provider and one process that may be restarted.      *)
(*                                                                         *)
(* A login (flow) is a state, a nonce and a PKCE verifier: a value.  It is *)
(* remembered in the pending cookie while the browser is away.  A callback *)
(* carries the flow and its code back.  Cookies are encrypted under a key  *)
(* of the process: epoch numbers both.  The browser applies a response's   *)
(* Set-Cookie when it arrives, so callbacks and logins of two tabs overlap.*)
(*                                                                         *)
(* The provider is external: a code is good for one exchange, and each key *)
(* it signs with is published with the one before it.                      *)
(***************************************************************************)
EXTENDS Policy, Integers

CONSTANTS
  People,      \* the principals the provider knows
  Flows,
  Callbacks,   \* requests to /auth/callback
  Policies,    \* process -> [roles, enforcing], loaded once, when it starts
  SessionTtl,
  PendingTtl,
  LastEpoch,   \* bounds of the model: restarts, key rotations, and the clock
  LastKey,
  LastInstant

ASSUME PoliciesAreOfProcesses == DOMAIN Policies = 0 .. LastEpoch
ASSUME TimesToLive            == SessionTtl \in Nat /\ PendingTtl \in Nat
ASSUME Bounds                 == LastEpoch \in Nat /\ LastKey \in Nat /\ LastInstant \in Nat
\* A session is not the absence of one.
ASSUME AbsentIsNoSession ==
  Absent \notin [ who : People, epoch : Nat, until : Nat,
                  roles : SUBSET UNION {{role.name : role \in Policies[e].roles} : e \in DOMAIN Policies} ]

VARIABLES
  now,
  epoch,    \* which process this is
  known,    \* the signing keys its provider metadata holds
  signing,  \* the key the provider signs with
  flow,     \* flow -> what the provider made of it, and who signed in
  callback, \* callback -> how far its handler is
  jar       \* the browser's two cookies

vars == <<now, epoch, known, signing, flow, callback, jar>>

Served == {key \in {signing - 1, signing} : key >= 0}

Idle == [stage |-> "idle"]

LoginInit ==
  /\ now = 0 /\ epoch = 0 /\ signing = 0 /\ known = {0}
  /\ flow = [f \in Flows |-> [status |-> "new"]]
  /\ callback = [c \in Callbacks |-> Idle]
  /\ jar = [pending |-> Absent, session |-> Absent]

(***************************************************************************)
(* Sessions                                                                *)
(***************************************************************************)
\* The browser's own expiry, and a key this process does not have.
Sent(cookie) == IF cookie = Absent THEN FALSE ELSE cookie.epoch = epoch /\ cookie.gone > now

\* Mutant of Live: the cookies are encrypted under a key that is kept.
LiveUnderAnyKey(session) == IF session = Absent THEN FALSE ELSE session.until > now

\* session::read: decrypted, and live by its own expiry, which the browser's
\* copy of it does not decide.
Live(session) == IF session = Absent THEN FALSE ELSE session.epoch = epoch /\ session.until > now

InForce == Policies[epoch]

\* What a login is resolved to: the person's role names under this policy.
SessionOf(who) ==
  [ who |-> who, epoch |-> epoch, until |-> now + SessionTtl,
    roles |-> RoleNames(AccessOf(InForce.roles, InForce.enforcing, who)) ]

(***************************************************************************)
(* The login route, and the browser at the provider                        *)
(***************************************************************************)
StartLogin(f) ==
  /\ flow[f].status = "new"
  /\ flow' = [flow EXCEPT ![f].status = "away"]
  /\ jar' = [jar EXCEPT !.pending = [flow |-> f, epoch |-> epoch, gone |-> now + PendingTtl]]
  /\ UNCHANGED <<now, epoch, known, signing, callback>>

SignIn(f) ==
  /\ flow[f].status = "away"
  /\ \E who \in People : flow' = [flow EXCEPT ![f] = [status |-> "granted", who |-> who]]
  /\ UNCHANGED <<now, epoch, known, signing, callback, jar>>

Cancel(f) ==
  /\ flow[f].status = "away"
  /\ flow' = [flow EXCEPT ![f].status = "refused"]
  /\ UNCHANGED <<now, epoch, known, signing, callback, jar>>

Rotate ==
  /\ signing < LastKey
  /\ signing' = signing + 1
  /\ UNCHANGED <<now, epoch, known, flow, callback, jar>>

(***************************************************************************)
(* The callback                                                            *)
(***************************************************************************)
\* "start again" is a redirect to the application, "refused" a 403.
Answers(c, why) == callback' = [callback EXCEPT ![c] = [stage |-> "done", why |-> why]]

Resolves(c, who) ==
  callback' = [callback EXCEPT ![c] =
                 [stage |-> "done", why |-> "verified", session |-> SessionOf(who)]]

\* The browser is redirected here, or asks for the address once more; the
\* handler takes the pending login, and compares the state.
Arrive(c, f) ==
  /\ callback[c].stage = "idle" /\ flow[f].status \in {"granted", "refused", "spent"}
  /\ CASE flow[f].status = "refused"                       -> Answers(c, "refused")
       [] flow[f].status # "refused" /\ ~Sent(jar.pending) -> Answers(c, "start again")
       [] flow[f].status # "refused" /\ Sent(jar.pending)  ->
            IF jar.pending.flow # f THEN Answers(c, "refused")
            ELSE callback' = [callback EXCEPT ![c] = [stage |-> "exchanging", flow |-> f, keys |-> known]]
  /\ UNCHANGED <<now, epoch, known, signing, flow, jar>>

\* exchange_code, and the first verification of what it is answered with,
\* under the keys the client was built from.
Exchange(c) ==
  /\ callback[c].stage = "exchanging"
  /\ LET f == callback[c].flow
     IN  \/ /\ flow[f].status = "granted" /\ flow' = [flow EXCEPT ![f].status = "spent"]
            /\ IF signing \in callback[c].keys THEN Resolves(c, flow[f].who)
               ELSE callback' = [callback EXCEPT ![c] =
                      [stage |-> "fetching", flow |-> f, keys |-> @.keys, token |-> signing]]
         \/ /\ flow[f].status = "spent" /\ Answers(c, "refused") /\ UNCHANGED flow
  /\ UNCHANGED <<now, epoch, known, signing, jar>>

ExchangeFails(c) ==
  /\ callback[c].stage = "exchanging" /\ Answers(c, "refused")
  /\ \E reached \in BOOLEAN :
       LET f == callback[c].flow
       IN  flow' = IF reached /\ flow[f].status = "granted" THEN [flow EXCEPT ![f].status = "spent"]
                   ELSE flow
  /\ UNCHANGED <<now, epoch, known, signing, jar>>

\* refresh_keys: the provider answers with its keys; they are stored when the
\* answer arrives, whatever was stored meanwhile.
Fetch(c) ==
  /\ callback[c].stage = "fetching"
  /\ callback' = [callback EXCEPT ![c] =
       [stage |-> "storing", flow |-> @.flow, keys |-> @.keys, token |-> @.token, fetched |-> Served]]
  /\ UNCHANGED <<now, epoch, known, signing, flow, jar>>

FetchFails(c) ==
  /\ callback[c].stage \in {"fetching", "storing"} /\ Answers(c, "refused")
  /\ UNCHANGED <<now, epoch, known, signing, flow, jar>>

Store(c) ==
  /\ callback[c].stage = "storing"
  /\ known' = callback[c].fetched
  /\ callback' = [callback EXCEPT ![c].stage = "rechecking"]
  /\ UNCHANGED <<now, epoch, signing, flow, jar>>

Verifies(c, keys) ==
  /\ callback[c].stage = "rechecking"
  /\ IF callback[c].token \in keys THEN Resolves(c, flow[callback[c].flow].who)
     ELSE callback' = [callback EXCEPT ![c] =
            [stage |-> "done", why |-> "signature", token |-> @.token, fetched |-> @.fetched, held |-> known]]
  /\ UNCHANGED <<now, epoch, known, signing, flow, jar>>

\* Mutant of Recheck: with the client that was built before the exchange.
RecheckWithTheOldClient(c) == Verifies(c, callback[c].keys)

\* The second and last verification, with a client built from the metadata.
Recheck(c) == Verifies(c, known)

(***************************************************************************)
(* The answer arrives at the browser, or the connection is gone            *)
(***************************************************************************)
\* Mutant of Reply: a callback that failed signs the browser out.
ReplyClearing(c) ==
  [ pending |-> Absent,
    session |-> IF callback[c].why = "verified"
                THEN callback[c].session ELSE Absent ]

Reply(c) ==
  [ pending |-> Absent,
    session |-> IF callback[c].why = "verified" THEN callback[c].session ELSE jar.session ]

Answered(c) ==
  /\ callback[c].stage = "done"
  /\ jar' = Reply(c) /\ callback' = [callback EXCEPT ![c] = Idle]
  /\ UNCHANGED <<now, epoch, known, signing, flow>>

Lost(c) ==
  /\ callback[c].stage # "idle" /\ callback' = [callback EXCEPT ![c] = Idle]
  /\ UNCHANGED <<now, epoch, known, signing, flow, jar>>

Logout ==
  /\ jar' = [jar EXCEPT !.session = Absent]
  /\ UNCHANGED <<now, epoch, known, signing, flow, callback>>

(***************************************************************************)
(* The process and the clock                                               *)
(***************************************************************************)
\* The process that starts has a key of its own, and the policy of its start.
Restart ==
  /\ epoch < LastEpoch /\ epoch' = epoch + 1
  /\ known' = Served
  /\ callback' = [c \in Callbacks |-> IF callback[c].stage = "done" THEN callback[c] ELSE Idle]
  /\ UNCHANGED <<now, signing, flow, jar>>

Tick ==
  /\ now < LastInstant /\ now' = now + 1
  /\ UNCHANGED <<epoch, known, signing, flow, callback, jar>>

LoginNext ==
  \/ \E f \in Flows : StartLogin(f) \/ SignIn(f) \/ Cancel(f)
  \/ \E c \in Callbacks :
       \/ \E f \in Flows : Arrive(c, f)
       \/ Exchange(c) \/ ExchangeFails(c) \/ Fetch(c) \/ FetchFails(c)
       \/ Store(c) \/ Recheck(c) \/ Answered(c) \/ Lost(c)
  \/ Rotate \/ Logout \/ Restart \/ Tick

(***************************************************************************)
(* Properties                                                              *)
(***************************************************************************)
\* A login is refused for its signature only if the key that signed it was
\* no longer published when this callback asked (the provider rotated twice
\* meanwhile), or another callback's answer replaced the keys before the
\* second verification: a process that has run through a rotation signs
\* people in without a restart (finish_login's one more chance).
RotationIsSurvived ==
  \A c \in Callbacks :
    callback[c].stage = "done" /\ callback[c].why = "signature" =>
      callback[c].token \notin callback[c].fetched \/ callback[c].held # callback[c].fetched

\* A session that is live stays so until its time, a logout, a restart or
\* another login of this browser: a second login that fails, is cancelled,
\* or crosses with the first one does not sign the person out.
SignedInStays ==
  [][ Live(jar.session) /\ now' = now /\ epoch' = epoch /\ jar'.session = Absent => Logout ]_vars
=============================================================================
