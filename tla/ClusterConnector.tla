--------------------------- MODULE ClusterConnector ---------------------------
(***************************************************************************)
(* The connector tasks of a registry's cluster handles                     *)
(* (crates/kaas-ui-core/src/registry.rs, `ClusterHandle`): one task per    *)
(* handle that connects with backoff and then watches the age of the       *)
(* metadata snapshot, until a reload retires the handle.                   *)
(*                                                                         *)
(* A step is what the loop in `run` does between two awaits:               *)
(*   spawned      the task has not been polled yet;                        *)
(*   connecting   inside connect().await;                                  *)
(*   backoff      in sleep_or_nudge after a failed attempt;                *)
(*   watching     in sleep_or_nudge of a connected handle;                 *)
(*   refreshing   inside refresh().await;                                  *)
(*   ended        the task has returned.                                   *)
(* Durations are abstract: a sleep may end at any moment, so the permit of *)
(* `retry_now`, which only ends one sooner, is not part of the state: a    *)
(* nudge (request_retry, from a card or a request that finds no admin;     *)
(* retire) is one of the ways Retry and Look come early.  kaas-lib is      *)
(* external: its own loop keeps a snapshot fresh while the brokers answer. *)
(***************************************************************************)
EXTENDS Naturals, FiniteSets

CONSTANTS
  Clusters,     \* (environment, id) keys
  MaxHandles,   \* bound of the model: handles built
  MaxAttempts,  \* bound of the model: `attempts` saturates here (u32 there)
  MaxOutages    \* bound of the model: times the brokers of a cluster go away

ASSUME ConnectorAssumption ==
  /\ MaxHandles \in Nat
  /\ MaxAttempts \in Nat \ {0}
  /\ MaxOutages \in Nat

VARIABLES
  handle,    \* the handles built so far: id -> what each was built from
  retired,   \* ClusterHandle.retired
  admin,     \* the handles whose `admin` is Some
  health,    \* ClusterHandle.health: id -> [status, attempts]
  at,        \* the connector's place
  fresh,     \* the handles whose snapshot is within max_staleness
  up,        \* the clusters whose brokers answer
  outages    \* how often brokers have gone away

connectorVars == <<retired, admin, health, at, fresh>>
brokerVars    == <<up, outages>>

Ids == 0 .. MaxHandles - 1
Built == DOMAIN handle

Connecting  == [status |-> "connecting", attempts |-> 0]
Ready       == [status |-> "ready", attempts |-> 0]
Places == {"spawned", "connecting", "backoff", "watching", "refreshing", "ended"}

Answers(h) == handle[h].cluster \in up

(***************************************************************************)
(* The connector                                                           *)
(***************************************************************************)
Goes(h, place) == at' = [at EXCEPT ![h] = place]

\* record_failure(): consecutive failures are counted, and Ready starts over.
RecordFailure(h) ==
  health' = [health EXCEPT ![h] =
    [status |-> "unreachable",
     attempts |-> IF @.attempts < MaxAttempts THEN @.attempts + 1 ELSE @.attempts]]

\* Mutant of Onward: a retired handle is only noticed once it is connected.
OnwardUntilConnected(h) ==
  IF h \in admin' THEN (IF h \in retired THEN "ended" ELSE "watching") ELSE "connecting"

\* `while !self.is_retired()`, then match on `admin`: the next await.
Onward(h) ==
  IF h \in retired THEN "ended" ELSE IF h \in admin' THEN "watching" ELSE "connecting"

Begin(h) ==
  /\ at[h] = "spawned"
  /\ UNCHANGED <<handle, retired, admin, health, fresh, brokerVars>>
  /\ Goes(h, Onward(h))

Connected(h) ==
  /\ at[h] = "connecting"
  /\ Answers(h)
  /\ admin' = admin \cup {h}
  /\ fresh' = fresh \cup {h}
  /\ health' = [health EXCEPT ![h] = Ready]
  /\ Goes(h, Onward(h))
  /\ UNCHANGED <<handle, retired, brokerVars>>

ConnectFails(h) ==
  /\ at[h] = "connecting"
  /\ ~Answers(h)
  /\ RecordFailure(h)
  /\ Goes(h, "backoff")
  /\ UNCHANGED <<handle, retired, admin, fresh, brokerVars>>

\* sleep_or_nudge returns.
Retry(h) ==
  /\ at[h] = "backoff"
  /\ UNCHANGED <<handle, retired, admin, health, fresh, brokerVars>>
  /\ Goes(h, Onward(h))

\* A snapshot within max_staleness needs nothing from the connector.
Look(h) ==
  /\ at[h] = "watching"
  /\ Goes(h, IF h \in retired THEN "ended" ELSE IF h \in fresh THEN "watching" ELSE "refreshing")
  /\ UNCHANGED <<handle, retired, admin, health, fresh, brokerVars>>

Refreshed(h) ==
  /\ at[h] = "refreshing"
  /\ Answers(h)
  /\ fresh' = fresh \cup {h}
  /\ health' = [health EXCEPT ![h] = Ready]
  /\ UNCHANGED <<handle, retired, admin, brokerVars>>
  /\ Goes(h, Onward(h))

RefreshFails(h) ==
  /\ at[h] = "refreshing"
  /\ ~Answers(h)
  /\ RecordFailure(h)
  /\ UNCHANGED <<handle, retired, admin, fresh, brokerVars>>
  /\ Goes(h, Onward(h))

Run(h) ==
  \/ Begin(h) \/ Connected(h) \/ ConnectFails(h) \/ Retry(h)
  \/ Look(h) \/ Refreshed(h) \/ RefreshFails(h)

(***************************************************************************)
(* The world outside                                                       *)
(***************************************************************************)
\* The brokers of a cluster stop answering, and answer again.  One no handle
\* was built for is not followed.
GoesDown(c) ==
  /\ c \in up
  /\ \E h \in Built : handle[h].cluster = c
  /\ outages < MaxOutages
  /\ outages' = outages + 1
  /\ up' = up \ {c}
  /\ UNCHANGED <<handle, connectorVars>>

ComesBack(c) ==
  /\ c \notin up
  /\ up' = up \cup {c}
  /\ UNCHANGED <<handle, connectorVars, outages>>

\* A snapshot outlives max_staleness because kaas-lib's refreshes fail.
GrowsStale(h) ==
  /\ h \in fresh
  /\ ~Answers(h)
  /\ fresh' = fresh \ {h}
  /\ UNCHANGED <<handle, retired, admin, health, at, brokerVars>>

\* kaas-lib's own refresh loop answers first.
LibraryRefreshes(h) ==
  /\ h \in admin
  /\ h \notin fresh
  /\ Answers(h)
  /\ fresh' = fresh \cup {h}
  /\ UNCHANGED <<handle, retired, admin, health, at, brokerVars>>

Brokers == \E c \in Clusters : GoesDown(c) \/ ComesBack(c)

Snapshots == \E h \in Built : GrowsStale(h) \/ LibraryRefreshes(h)

\* The state has its type.
ConnectorTypeOK ==
  /\ Built \subseteq Ids
  /\ \A h \in Built : handle[h].cluster \in Clusters
  /\ retired \subseteq Built /\ admin \subseteq Built
  /\ fresh \subseteq admin
  /\ health \in [Built -> [status : {"connecting", "ready", "unreachable"}, attempts : 0 .. MaxAttempts]]
  /\ at \in [Built -> Places]
  /\ up \subseteq Clusters
  /\ outages \in 0 .. MaxOutages

=============================================================================
