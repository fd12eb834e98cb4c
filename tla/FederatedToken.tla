--------------------------- MODULE FederatedToken ---------------------------
(***************************************************************************)
(* The broker access token of kaas-ui-core/src/federated.rs: one cached    *)
(* token behind a tokio Mutex that is held across the exchange, so callers *)
(* (connections to brokers, requests to a registry) take turns.  A token   *)
(* is refreshed early, and a refresh that fails falls back on the token in *)
(* hand while that is still good.                                          *)
(*                                                                         *)
(* The issuer is external: it mints a token at some instant of an exchange *)
(* and its answer arrives later, or never.  A caller's future may be       *)
(* dropped at any await.  Time is a counter; code between two awaits takes *)
(* none of it.                                                             *)
(***************************************************************************)
EXTENDS Integers, FiniteSets

CONSTANTS
  Callers,
  Lifetimes,   \* the lifetimes the issuer gives, expires_in
  Margin,      \* refresh_margin
  Timeout,     \* timeout, of one exchange
  LastInstant, \* bound of the model: the clock stops there
  None

ASSUME LifetimesAreTimes == Lifetimes \subseteq Nat
ASSUME MarginIsATime     == Margin \in Nat
ASSUME TimeoutIsATime    == Timeout \in Nat
ASSUME LastIsAnInstant   == LastInstant \in Nat
ASSUME NoneIsNothing     ==
  /\ None \notin [minted : Nat, life : Nat]
  /\ None \notin [minted : Nat, life : Nat, refresh : Nat, expires : Nat]

VARIABLES
  now,      \* Instant::now()
  waiting,  \* the callers inside current_token
  ahead,    \* caller -> who is before it in the Mutex's queue
  exchange, \* caller -> when its exchange began, or None
  minted,   \* caller -> the token its exchange will be answered with, or None
  cached,   \* the Mutex's Option<Cached>
  given     \* the last token a caller was given, and when, or None

tokenVars == <<now, waiting, ahead, exchange, minted, cached, given>>

Smaller(a, b) == IF a < b THEN a ELSE b
Larger(a, b)  == IF a < b THEN b ELSE a

\* usable_lifetime: 80% of the lifetime, not within the margin of its end
\* (saturating), and at least half of it.
UsableLifetime(life) ==
  Larger(Smaller((8 * life) \div 10, IF life < Margin THEN 0 ELSE life - Margin), life \div 2)

\* The caller the Mutex is, or is about to be, handed to.
HoldsLock(c) == c \in waiting /\ ahead[c] = {}

Exchanging(c) == exchange[c] # None

\* No token, or time for a fresh one.
Due == IF cached = None THEN TRUE ELSE cached.refresh <= now

\* Mutant of Leave: the Mutex is not released.
LeaveHolding(c) ==
  /\ waiting' = waiting \ {c} /\ ahead' = ahead
  /\ exchange' = [exchange EXCEPT ![c] = None]
  /\ minted' = [minted EXCEPT ![c] = None]

Leave(c) ==
  /\ waiting' = waiting \ {c}
  /\ ahead' = [d \in Callers |-> ahead[d] \ {c}]
  /\ exchange' = [exchange EXCEPT ![c] = None]
  /\ minted' = [minted EXCEPT ![c] = None]

Give(token) == given' = [minted |-> token.minted, life |-> token.life, at |-> now]

Ask(c) ==
  /\ c \notin waiting
  /\ waiting' = waiting \cup {c}
  /\ ahead' = [ahead EXCEPT ![c] = waiting]
  /\ UNCHANGED <<now, exchange, minted, cached, given>>

\* The cached token, and no exchange.
ServeCached(c) ==
  /\ HoldsLock(c) /\ ~Exchanging(c)
  /\ ~Due
  /\ Give(cached) /\ Leave(c)
  /\ UNCHANGED <<now, cached>>

\* Mutant of BeginExchange: the Mutex is not held across the exchange.
BeginExchangeUnlocked(c) ==
  /\ c \in waiting /\ ~Exchanging(c)
  /\ Due
  /\ exchange' = [exchange EXCEPT ![c] = now]
  /\ UNCHANGED <<now, waiting, ahead, minted, cached, given>>

\* fetch()
BeginExchange(c) ==
  /\ HoldsLock(c) /\ ~Exchanging(c)
  /\ Due
  /\ exchange' = [exchange EXCEPT ![c] = now]
  /\ UNCHANGED <<now, waiting, ahead, minted, cached, given>>

\* The issuer accepts the assertion.
Mint(c) ==
  /\ Exchanging(c) /\ minted[c] = None
  /\ \E life \in Lifetimes :
       minted' = [minted EXCEPT ![c] = [minted |-> now, life |-> life]]
  /\ UNCHANGED <<now, waiting, ahead, exchange, cached, given>>

\* What is cached of an answer: its lifetime counts from its arrival.
Fresh(token) ==
  [minted |-> token.minted, life |-> token.life,
   refresh |-> now + UsableLifetime(token.life), expires |-> now + token.life]

Answered(c) ==
  /\ Exchanging(c) /\ minted[c] # None
  /\ cached' = Fresh(minted[c])
  /\ Give(minted[c]) /\ Leave(c)
  /\ UNCHANGED now

\* Mutant of FallBack: the token in hand is presented however old it is.
FallBackAlways ==
  IF cached # None THEN Give(cached) ELSE UNCHANGED given

\* The token in hand, if it has not expired; otherwise the caller fails.
FallBack ==
  IF cached = None THEN UNCHANGED given
  ELSE IF now < cached.expires THEN Give(cached) ELSE UNCHANGED given

\* No assertion, no connection, a refusal, an answer that is no token, or the
\* deadline.
Fails(c) ==
  /\ Exchanging(c)
  /\ FallBack /\ Leave(c)
  /\ UNCHANGED <<now, cached>>

\* The caller's future is dropped; the guard goes with it.
Dropped(c) ==
  /\ c \in waiting
  /\ Leave(c)
  /\ UNCHANGED <<now, cached, given>>

\* reqwest's timeout covers the whole exchange.
Deadline(c) == exchange[c] + Timeout

\* Time passes while the Mutex's holder waits for the issuer, or nobody waits.
Tick ==
  /\ now < LastInstant
  /\ \A c \in Callers :
       /\ Exchanging(c) => now < Deadline(c)
       /\ HoldsLock(c) => Exchanging(c)
  /\ now' = now + 1
  /\ UNCHANGED <<waiting, ahead, exchange, minted, cached, given>>

TokenInit ==
  /\ now = 0 /\ waiting = {}
  /\ ahead = [c \in Callers |-> {}]
  /\ exchange = [c \in Callers |-> None]
  /\ minted = [c \in Callers |-> None]
  /\ cached = None
  /\ given = None

CurrentToken(c) == ServeCached(c) \/ BeginExchange(c) \/ Answered(c) \/ Fails(c)

TokenNext ==
  \/ Tick
  \/ \E c \in Callers : Ask(c) \/ CurrentToken(c) \/ Mint(c) \/ Dropped(c)

\* A future that can go on is polled, and an exchange ends at its deadline.
TokenSpec ==
  /\ TokenInit /\ [][TokenNext]_tokenVars
  /\ \A c \in Callers : WF_tokenVars(CurrentToken(c))

(***************************************************************************)
(* What a caller can count on                                              *)
(***************************************************************************)
\* A token is given out at most one exchange's delay after the end the issuer
\* set it: the provider counts a lifetime from the answer, the issuer from
\* the minting, and nothing else comes between them.
LateByTransitOnly ==
  given # None => given.at <= given.minted + given.life + Timeout

\* Nobody is given a token older than one that was given before, to anyone.
NeverBack ==
  [][given # None => given.minted <= given'.minted]_tokenVars

\* Everyone who asks is answered or goes away.
EveryoneIsAnswered ==
  \A c \in Callers : c \in waiting ~> c \notin waiting
=============================================================================
