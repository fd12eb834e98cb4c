---------------------------- MODULE ConnectWrites ----------------------------
(***************************************************************************)
(* Writes to a Kafka Connect cluster                                       *)
(* (crates/kaas-ui-api/src/routes/connect_write.rs `perform`,              *)
(* crates/kaas-ui-connect/src/writer.rs, client.rs): each runs the gate,   *)
(* the confirmation, the intent line, the write and the outcome line, and  *)
(* several run at once against one connector while a page lists it.        *)
(*                                                                         *)
(* A step is what `perform` does between two awaits:                       *)
(*   idle        the request has not come;                                 *)
(*   preparing   inside prepare_edit().await, the worker's copy on its way; *)
(*   describing  inside describe().await, the config put together;         *)
(*   sending     inside the writer's send().await;                         *)
(*   over        answered, or dropped with its connection.                 *)
(*                                                                         *)
(* One connector is enough: a grant is for one.  Its config is the value   *)
(* of its one withheld key.  The worker and the page's connection are      *)
(* external.                                                               *)
(***************************************************************************)
CONSTANTS
  Requests,   \* the writes of a run
  Readers,    \* the requests that list the connectors
  Secrets,    \* values of the withheld key
  First       \* its value at the start

\* What a request asks for: an operate-tier write, an edit that keeps the
\* withheld value (`******`) or sets another, a new connector, a destroy-tier
\* write.
Keep    == [op |-> "edit", value |-> "kept"]
Sets(s) == [op |-> "edit", value |-> s]
Creates(s) == [op |-> "create", value |-> s]
Operate == [op |-> "operate", value |-> "kept"]
Destroy == [op |-> "destroy", value |-> "kept"]
Asks    == {Keep, Operate, Destroy} \cup {Sets(s) : s \in Secrets} \cup {Creates(s) : s \in Secrets}

ASSUME WritesAssumption == First \in Secrets /\ "gone" \notin Secrets /\ "kept" \notin Secrets

VARIABLES
  at,        \* where each request is
  ask,       \* what it asks for
  config,    \* the value of its PreparedConfig
  wire,      \* its write: "unsent", "sent", "applied" or "refused"
  log,       \* the audit log: the lines in it
  answer,    \* what its caller is told
  worker,    \* the connector's withheld value, or "gone" when it is deleted
  cached,    \* ConnectClient.connectors: the lists in it, none or one
  reading    \* each reader's list on its way: none or one

reqVars  == <<at, ask, config, wire, log, answer>>
listVars == <<cached, reading>>
vars     == <<reqVars, worker, listVars>>

Places  == {"idle", "preparing", "describing", "sending", "over"}
Answers == {"none", "denied", "failed", "unreachable", "verdict", "unmade", "unrecorded", "done"}

\* A line: an intent, or an outcome and whether it worked.
Intent(r) == [id |-> r, says |-> "intent"]
Worked(r) == [id |-> r, says |-> "worked"]
Failed(r) == [id |-> r, says |-> "failed"]
Lines     == [id : Requests, says : {"intent", "worked", "failed"}]

\* A list of the connectors: the writes it shows the effect of, and those
\* answered while it was on its way.
Lists == [seen : SUBSET Requests, across : SUBSET Requests]

Applied == {r \in Requests : wire[r] = "applied"}

(***************************************************************************)
(* perform                                                                 *)
(***************************************************************************)
Answer(r, a) ==
  /\ at' = [at EXCEPT ![r] = "over"]
  /\ answer' = [answer EXCEPT ![r] = a]

\* Whatever it asks for, the request is refused by the lookup, the gate, the
\* confirmation or for what it leaves out: nothing has been awaited.
Denied(r) ==
  /\ at[r] = "idle"
  /\ Answer(r, "denied")
  /\ UNCHANGED <<ask, config, wire, log, worker, listVars>>

\* Mutant of Send: the write is on its way before its intent is recorded.
SendFirst(r) ==
  \/ /\ wire' = [wire EXCEPT ![r] = "sent"]
     /\ at' = [at EXCEPT ![r] = "sending"]
     /\ log' = log \cup {Intent(r)}
     /\ UNCHANGED answer
  \/ /\ wire' = [wire EXCEPT ![r] = "sent"]
     /\ Answer(r, "unmade")
     /\ UNCHANGED log

\* The intent is recorded and the write sent; or recording it fails, its line
\* written or not, and the write is not sent.
Send(r) ==
  \/ /\ log' = log \cup {Intent(r)}
     /\ wire' = [wire EXCEPT ![r] = "sent"]
     /\ at' = [at EXCEPT ![r] = "sending"]
     /\ UNCHANGED answer
  \/ /\ log' \in {log, log \cup {Intent(r)}}
     /\ Answer(r, "unmade")
     /\ UNCHANGED wire

\* A write with nothing to prepare is sent at once.
Begin(r, a) ==
  /\ at[r] = "idle"
  /\ a.op \in {"operate", "destroy"}
  /\ ask' = [ask EXCEPT ![r] = a]
  /\ Send(r)
  /\ UNCHANGED <<config, worker, listVars>>

\* An edit asks the worker for its copy first.
BeginEdit(r, a) ==
  /\ at[r] = "idle"
  /\ a.op = "edit"
  /\ ask' = [ask EXCEPT ![r] = a]
  /\ at' = [at EXCEPT ![r] = "preparing"]
  /\ UNCHANGED <<config, wire, log, answer, worker, listVars>>

\* prepare_create: the config is taken as submitted.
BeginCreate(r, a) ==
  /\ at[r] = "idle"
  /\ a.op = "create"
  /\ ask' = [ask EXCEPT ![r] = a]
  /\ config' = [config EXCEPT ![r] = a.value]
  /\ at' = [at EXCEPT ![r] = "describing"]
  /\ UNCHANGED <<wire, log, answer, worker, listVars>>

\* prepare_edit: a withheld value is put back from the worker's copy.
Prepared(r) ==
  /\ at[r] = "preparing"
  /\ worker # "gone"
  /\ config' = [config EXCEPT ![r] = IF ask[r].value = "kept" THEN worker ELSE ask[r].value]
  /\ at' = [at EXCEPT ![r] = "describing"]
  /\ UNCHANGED <<ask, wire, log, answer, worker, listVars>>

\* raw_config fails, or what was submitted names another connector.
NotPrepared(r) ==
  /\ at[r] = "preparing"
  /\ \E a \in {"failed", "unreachable"} : Answer(r, a)
  /\ UNCHANGED <<ask, config, wire, log, worker, listVars>>

\* The plugin's definition has come or has not.  The write is sent; or, for a
\* dry run, the plugin is asked for its verdict: a request like the others,
\* that empties the cache when it is answered.
Described(r) ==
  /\ at[r] = "describing"
  /\ \/ Send(r) /\ UNCHANGED cached
     \/ /\ \/ \E a \in {"verdict", "failed", "unreachable"} : Answer(r, a) /\ cached' = {}
           \/ \E a \in {"failed", "unreachable"} : Answer(r, a) /\ UNCHANGED cached
        /\ UNCHANGED <<log, wire>>
  /\ UNCHANGED <<ask, config, worker, reading>>

\* Mutant of Told: the audit says what was asked, not what came back.
ToldOptimistic(r, line, a) ==
  \/ log' = log \cup {Worked(r)} /\ Answer(r, a)
  \/ log' \in {log, log \cup {Worked(r)}} /\ Answer(r, "unrecorded")

\* The outcome is recorded and the caller told; or recording it fails, its line
\* written or not, and the caller is told that, whatever the outcome was.
Told(r, line, a) ==
  \/ log' = log \cup {line} /\ Answer(r, a)
  \/ log' \in {log, log \cup {line}} /\ Answer(r, "unrecorded")

\* Mutant of Invalidate: the cached list outlives the write.
InvalidateNothing(r) ==
  /\ reading' = [x \in Readers |-> {[l EXCEPT !.across = @ \cup {r}] : l \in reading[x]}]
  /\ UNCHANGED cached

\* invalidate(): the cached list is forgotten; one on its way is not.
Invalidate(r) ==
  /\ cached' = {}
  /\ reading' = [x \in Readers |-> {[l EXCEPT !.across = @ \cup {r}] : l \in reading[x]}]

\* The worker has answered: the list is forgotten and the outcome told.
Answered(r) ==
  /\ at[r] = "sending"
  /\ \/ wire[r] = "applied" /\ Told(r, Worked(r), "done")
     \/ wire[r] = "refused" /\ Told(r, Failed(r), "failed")
  /\ Invalidate(r)
  /\ UNCHANGED <<ask, config, wire, worker>>

\* No answer came in time, the connection broke, or something in between
\* answered with a 5xx (only an answer makes the list forgotten): a failed
\* outcome, and the write may be applied yet.
TimesOut(r) ==
  /\ at[r] = "sending"
  /\ Told(r, Failed(r), "unreachable")
  /\ Invalidate(r) \/ UNCHANGED listVars
  /\ UNCHANGED <<ask, config, wire, worker>>

\* The caller's connection goes away and the handler with it.
Dropped(r) ==
  /\ at[r] \in {"preparing", "describing", "sending"}
  /\ at' = [at EXCEPT ![r] = "over"]
  /\ UNCHANGED <<ask, config, wire, log, answer, worker, listVars>>

Perform(r) ==
  \/ Denied(r) \/ Prepared(r) \/ NotPrepared(r) \/ Described(r)
  \/ Answered(r) \/ TimesOut(r) \/ Dropped(r)
  \/ \E a \in Asks : Begin(r, a) \/ BeginEdit(r, a) \/ BeginCreate(r, a)

(***************************************************************************)
(* The worker                                                              *)
(***************************************************************************)
\* What the worker can apply: an edit always (its PUT creates what is gone),
\* a new connector where there is none, the rest where there is one.
Applicable(r) ==
  \/ ask[r].op = "edit"
  \/ ask[r].op = "create" /\ worker = "gone"
  \/ ask[r].op \in {"operate", "destroy"} /\ worker # "gone"

Effect(r) ==
  CASE ask[r].op \in {"edit", "create"} -> config[r]
    [] ask[r].op = "destroy" -> "gone"
    [] ask[r].op = "operate" -> worker

Applies(r) ==
  /\ wire[r] = "sent"
  /\ Applicable(r)
  /\ wire' = [wire EXCEPT ![r] = "applied"]
  /\ worker' = Effect(r)
  /\ UNCHANGED <<at, ask, config, log, answer, listVars>>

Refuses(r) ==
  /\ wire[r] = "sent"
  /\ wire' = [wire EXCEPT ![r] = "refused"]
  /\ UNCHANGED <<at, ask, config, log, answer, worker, listVars>>

(***************************************************************************)
(* The connector list                                                      *)
(***************************************************************************)
\* The worker reads its connectors for a reader that found nothing cached.
Fetch(x) ==
  /\ cached = {}
  /\ reading[x] = {}
  /\ reading' = [reading EXCEPT ![x] = {[seen |-> Applied, across |-> {}]}]
  /\ UNCHANGED <<reqVars, worker, cached>>

Store(x) ==
  /\ reading[x] # {}
  /\ cached' = reading[x]
  /\ reading' = [reading EXCEPT ![x] = {}]
  /\ UNCHANGED <<reqVars, worker>>

\* connectors_ttl passes.
Expire ==
  /\ cached # {}
  /\ cached' = {}
  /\ UNCHANGED <<reqVars, worker, reading>>

(***************************************************************************)
(* The specification                                                       *)
(***************************************************************************)
WritesInit ==
  /\ at = [r \in Requests |-> "idle"]
  /\ ask = [r \in Requests |-> Operate]
  /\ config = [r \in Requests |-> First]
  /\ wire = [r \in Requests |-> "unsent"]
  /\ log = {}
  /\ answer = [r \in Requests |-> "none"]
  /\ worker = First
  /\ cached = {}
  /\ reading = [x \in Readers |-> {}]

WritesNext ==
  \/ \E r \in Requests : Perform(r) \/ Applies(r) \/ Refuses(r)
  \/ \E x \in Readers : Fetch(x) \/ Store(x)
  \/ Expire

WritesSpec == WritesInit /\ [][WritesNext]_vars

-----------------------------------------------------------------------------
(***************************************************************************)
(* Properties                                                              *)
(***************************************************************************)
\* The state has its type.
WritesTypeOK ==
  /\ at \in [Requests -> Places]
  /\ ask \in [Requests -> Asks]
  /\ config \in [Requests -> Secrets]
  /\ wire \in [Requests -> {"unsent", "sent", "applied", "refused"}]
  /\ log \subseteq Lines
  /\ answer \in [Requests -> Answers]
  /\ worker \in Secrets \cup {"gone"}
  /\ cached \subseteq Lists
  /\ reading \in [Readers -> SUBSET Lists]

\* A change that cannot be recorded is not made: whatever reaches the worker,
\* at whatever time, its intent is in the log, also when the handler was
\* dropped or the answer never came (docs/RBAC.md, "A write, end to end").
NothingSentUnrecorded == \A r \in Requests : wire[r] # "unsent" => Intent(r) \in log

\* The audit log is true: a write is recorded as having worked only if the
\* worker applied it, its lines do not contradict each other, and a caller told
\* that the write failed or was not made is told what the log says.
LogIsTrue ==
  \A r \in Requests :
    /\ Worked(r) \in log => wire[r] = "applied" /\ Failed(r) \notin log
    /\ answer[r] = "done" => Worked(r) \in log
    /\ answer[r] \in {"failed", "unreachable", "unmade"} => Worked(r) \notin log
    /\ answer[r] \in {"denied", "verdict", "unmade", "failed"} => wire[r] \in {"unsent", "refused"}

\* A cached list shows every write the worker had answered, except one that
\* was answered while the list was on its way or whose answer never came.
ListShowsWrites ==
  \A l \in cached : \A r \in Applied :
    answer[r] = "done" => r \in l.seen \cup l.across

=============================================================================
