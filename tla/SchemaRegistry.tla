--------------------------- MODULE SchemaRegistry ---------------------------
(***************************************************************************)
(* One schema registry's client (crates/kaas-ui-serde/src/registry.rs),    *)
(* shared by every cluster that names the registry, and the decodes and    *)
(* pages that use it at once.                                              *)
(*                                                                         *)
(* A decode is at the await it waits in:                                   *)
(*   queued      in `ready`, for the probe's mutex;                        *)
(*   probing     in `ready`, holding the mutex, for GET /subjects;         *)
(*   admitted    `ready` was Ok;                                           *)
(*   resolving   in `schema_info`, for the schema of its id;               *)
(*   labelling   in `first_subject`, for the id's versions;                *)
(*   resolved    at the converter's decoder;                               *)
(*   waiting     there for the id's shared future;                         *)
(*   failed      back from it with an error of its own;                    *)
(*   forgetting  in `went_away`, between the health and the probe.         *)
(* A page is `listing` or `reading` (another GET of the browser's).        *)
(*                                                                         *)
(* Durations are abstract: `rested` says that the backoff of the last      *)
(* probe has passed, and a cached listing may be past its TTL at any time. *)
(***************************************************************************)
EXTENDS Naturals, FiniteSets

CONSTANTS
  Decodes,      \* the decodes that may be under way at once
  Pages,        \* the pages that may be listing subjects at once
  Schemas,      \* schema ids
  Nobody,       \* no holder of the mutex
  MaxAttempts,  \* where `attempts` stops counting (its backoff: 7)
  MaxOutages    \* bound of the model: times the registry goes away

ASSUME BoundsAssumption == MaxAttempts \in Nat \ {0} /\ MaxOutages \in Nat
ASSUME ActorsAssumption == IsFiniteSet(Decodes) /\ Decodes \cap Pages = {} /\ Nobody \notin Decodes

VARIABLES
  mood,      \* the registry: "starting" (answers 404), "well" or "down"
  outages,
  lost,      \* the requests under way that will end in a transport error
  health,    \* RegistryHandle.health
  outcome,   \* Probe.outcome, "none" when there is none
  rested,    \* the backoff since Probe.at has passed
  attempts,  \* Probe.attempts
  holder,    \* who holds the probe's mutex
  types,     \* RegistryHandle.types: what an id was resolved to
  schemas,   \* the converter's cache of an id: a shared future or its result
  at,        \* where each decode and page waits
  job,       \* the id each decode is of
  told,      \* what the decode of each, or its last one, ended in
  burst      \* history: of the current backoff, the failed probes and the
             \* decodes that were past `ready` at the first of them

world  == <<mood, outages>>
probe  == <<outcome, rested, attempts, holder>>
caches == <<types, schemas>>
vars == <<mood, outages, lost, health, outcome, rested, attempts, holder,
          types, schemas, at, job, told, burst>>

Faults    == {"unreachable", "misconfigured"}
PastReady == {"admitted", "resolving", "labelling", "resolved", "waiting", "failed", "forgetting"}
Asking    == {"probing", "resolving", "labelling", "listing", "reading"}
Quiet     == [failed |-> 0, stragglers |-> 0]

SchemaInit ==
  /\ mood \in {"starting", "well", "down"}
  /\ outages = 0
  /\ lost = {}
  /\ health = "unprobed"
  /\ outcome = "none" /\ rested = TRUE /\ attempts = 0 /\ holder = Nobody
  /\ types = [s \in Schemas |-> "none"]
  /\ schemas = [s \in Schemas |-> "none"]
  /\ at = [a \in Decodes \cup Pages |-> "idle"]
  /\ job \in [Decodes -> Schemas]
  /\ told = [d \in Decodes |-> "nothing"]
  /\ burst = Quiet

Waits(a, where) == at' = [at EXCEPT ![a] = where]

\* A request leaves; one that leaves during an outage is lost.
Sends(r) == lost' = IF mood = "down" THEN lost \cup {r} ELSE lost \ {r}

EndsAs(d, result) ==
  /\ Waits(d, "idle")
  /\ told' = [told EXCEPT ![d] = result]

(***************************************************************************)
(* ready                                                                   *)
(***************************************************************************)
\* decode is called: a ready registry is used without the mutex.
Begin(d, s) ==
  /\ at[d] = "idle"
  /\ job' = [job EXCEPT ![d] = s]
  /\ told' = [told EXCEPT ![d] = "nothing"]
  /\ Waits(d, IF health = "ready" THEN "admitted" ELSE "queued")
  /\ UNCHANGED <<world, lost, health, probe, caches, burst>>

\* The mutex is had and the last probe succeeded, whatever the health says.
TrustProbe(d) ==
  /\ at[d] = "queued" /\ holder = Nobody
  /\ outcome = "ok"
  /\ Waits(d, "admitted")
  /\ UNCHANGED <<world, lost, health, probe, caches, job, told, burst>>

\* The mutex is had and the last failure's backoff has not passed.
BackOff(d) ==
  /\ at[d] = "queued" /\ holder = Nobody
  /\ outcome \in Faults /\ ~rested
  /\ EndsAs(d, "degraded")
  /\ UNCHANGED <<world, lost, health, probe, caches, job, burst>>

\* Mutant of ProbeStarts: the mutex is let go before the request.
ProbeUnlocked(d) ==
  /\ at[d] = "queued" /\ holder = Nobody
  /\ outcome = "none" \/ (outcome \in Faults /\ rested)
  /\ Sends(d)
  /\ Waits(d, "probing")
  /\ UNCHANGED <<world, health, probe, caches, job, told, burst>>

\* The mutex is had and no conclusion, or one whose backoff has passed (a url
\* that answers another API is retried too, at the ceiling).
ProbeStarts(d) ==
  /\ at[d] = "queued" /\ holder = Nobody
  /\ outcome = "none" \/ (outcome \in Faults /\ rested)
  /\ holder' = d
  /\ Sends(d)
  /\ Waits(d, "probing")
  /\ UNCHANGED <<world, health, outcome, rested, attempts, caches, job, told, burst>>

\* GET /subjects answered a list: fetch_subjects stores Ready, then ready.
ProbeSucceeds(d) ==
  /\ at[d] = "probing"
  /\ d \notin lost /\ mood # "starting"
  /\ health' = "ready"
  /\ outcome' = "ok" /\ rested' = FALSE /\ attempts' = 0 /\ holder' = Nobody
  /\ burst' = Quiet
  /\ Waits(d, "admitted")
  /\ UNCHANGED <<world, lost, caches, job, told>>

\* A transport error, or an answer of another API.
ProbeFails(d) ==
  /\ at[d] = "probing"
  /\ d \in lost \/ mood = "starting"
  /\ LET fault == IF d \in lost THEN "unreachable" ELSE "misconfigured"
     IN health' = fault /\ outcome' = fault
  /\ rested' = FALSE
  /\ attempts' = IF attempts < MaxAttempts THEN attempts + 1 ELSE attempts
  /\ holder' = Nobody
  /\ burst' = IF burst.failed = 0
              THEN [failed |-> 1, stragglers |-> Cardinality({e \in Decodes : at[e] \in PastReady})]
              ELSE [burst EXCEPT !.failed = @ + 1]
  /\ lost' = lost \ {d}
  /\ EndsAs(d, "degraded")
  /\ UNCHANGED <<world, caches, job>>

(***************************************************************************)
(* went_away                                                               *)
(***************************************************************************)
\* Mutant of WentAway: the decoders keep the errors they cached.
WentAwaySticky(d) ==
  /\ health' = "unreachable"
  /\ UNCHANGED schemas
  /\ Waits(d, "forgetting")

\* record_fault, and the errors the decoders cached are removed.
WentAway(d) ==
  /\ health' = "unreachable"
  /\ schemas' = [s \in Schemas |-> IF schemas[s] = "error" THEN "none" ELSE schemas[s]]
  /\ Waits(d, "forgetting")

\* try_lock: the probe is forgotten unless somebody holds the mutex, a
\* prober across its request or a queued caller while it looks.
Forget(d) ==
  /\ at[d] = "forgetting"
  /\ \/ /\ holder = Nobody
        /\ outcome' = "none" /\ rested' = TRUE
     \/ /\ holder # Nobody \/ (\E e \in Decodes \ {d} : at[e] = "queued")
        /\ UNCHANGED <<outcome, rested>>
  /\ EndsAs(d, "degraded")
  /\ UNCHANGED <<world, lost, health, attempts, holder, caches, job, burst>>

(***************************************************************************)
(* decode, past ready                                                      *)
(***************************************************************************)
Resolve(d) ==
  /\ at[d] = "admitted"
  /\ \/ types[job[d]] # "none" /\ Waits(d, "resolved") /\ UNCHANGED lost
     \/ types[job[d]] = "none" /\ Waits(d, "resolving") /\ Sends(d)
  /\ UNCHANGED <<world, health, probe, caches, job, told, burst>>

\* The registry names the subject with the schema, or has to be asked.
Resolved(d) ==
  /\ at[d] = "resolving" /\ d \notin lost
  /\ \/ /\ types' = [types EXCEPT ![job[d]] = "labelled"]
        /\ Waits(d, "resolved")
        /\ UNCHANGED lost
     \/ Waits(d, "labelling") /\ Sends(d) /\ UNCHANGED types
  /\ UNCHANGED <<world, health, probe, schemas, job, told, burst>>

ResolveFails(d) ==
  /\ at[d] = "resolving" /\ d \in lost
  /\ WentAway(d)
  /\ lost' = lost \ {d}
  /\ UNCHANGED <<world, probe, types, job, told, burst>>

\* first_subject: a registry that could not be asked leaves the id bare, and
\* a transport error is recorded without forgetting the probe.
Labelled(d) ==
  /\ at[d] = "labelling"
  /\ types' = [types EXCEPT ![job[d]] = IF d \in lost THEN "bare" ELSE "labelled"]
  /\ health' = IF d \in lost THEN "unreachable" ELSE health
  /\ lost' = lost \ {d}
  /\ Waits(d, "resolved")
  /\ UNCHANGED <<world, probe, schemas, job, told, burst>>

\* The converter (external): one shared future per id, polled by whoever
\* waits for it, whose result is kept and cloned to each of them.
AskConverter(d) ==
  /\ at[d] = "resolved"
  /\ \/ schemas[job[d]] = "none" /\ Sends(job[d])
     \/ schemas[job[d]] = "pending" /\ UNCHANGED lost
  /\ schemas' = [schemas EXCEPT ![job[d]] = "pending"]
  /\ Waits(d, "waiting")
  /\ UNCHANGED <<world, health, probe, types, job, told, burst>>

Waiting(s) == {d \in Decodes : at[d] = "waiting" /\ job[d] = s}

ConverterAnswers(s) ==
  /\ schemas[s] = "pending" /\ Waiting(s) # {}
  /\ \/ /\ s \in lost
        /\ schemas' = [schemas EXCEPT ![s] = "error"]
        /\ at' = [a \in DOMAIN at |-> IF a \in Waiting(s) THEN "failed" ELSE at[a]]
     \/ /\ s \notin lost
        /\ schemas' = [schemas EXCEPT ![s] = "ok"]
        /\ UNCHANGED at
  /\ lost' = lost \ {s}
  /\ UNCHANGED <<world, health, probe, types, job, told, burst>>

Decoded(d) ==
  /\ at[d] \in {"resolved", "waiting"} /\ schemas[job[d]] = "ok"
  /\ EndsAs(d, "decoded")
  /\ UNCHANGED <<world, lost, health, probe, caches, job, burst>>

\* decoder_error, of a retriable error: the one the future ended in, or the one
\* that is still cached.
DecodeFails(d) ==
  /\ at[d] = "failed" \/ (at[d] = "resolved" /\ schemas[job[d]] = "error")
  /\ WentAway(d)
  /\ UNCHANGED <<world, lost, probe, types, job, told, burst>>

(***************************************************************************)
(* Pages: a subject listing past its TTL, or another GET                   *)
(***************************************************************************)
PageAsks(p) ==
  /\ at[p] = "idle"
  /\ Waits(p, "listing") \/ Waits(p, "reading")
  /\ Sends(p)
  /\ UNCHANGED <<world, health, probe, caches, job, told, burst>>

\* A status that is no success is returned and not recorded.
PageAnswered(p) ==
  /\ at[p] \in {"listing", "reading"} /\ p \notin lost
  /\ LET listed == at[p] = "listing" /\ mood # "starting"
     IN /\ health' = IF listed THEN "ready" ELSE health
        /\ burst' = IF listed THEN Quiet ELSE burst
  /\ Waits(p, "idle")
  /\ UNCHANGED <<world, lost, probe, caches, job, told>>

PageFails(p) ==
  /\ at[p] \in {"listing", "reading"} /\ p \in lost
  /\ health' = "unreachable"
  /\ lost' = lost \ {p}
  /\ Waits(p, "idle")
  /\ UNCHANGED <<world, probe, caches, job, told, burst>>

(***************************************************************************)
(* Cancellation, the clock and the registry (external)                     *)
(***************************************************************************)
Holds(a) == at[a] \in Asking \cup {"queued", "waiting"}

\* The stream or request a future belongs to ends: its guard is dropped.
Cancel(a) ==
  /\ Holds(a)
  /\ Waits(a, "idle")
  /\ lost' = lost \ {a}
  /\ holder' = IF holder = a THEN Nobody ELSE holder
  /\ UNCHANGED <<world, health, outcome, rested, attempts, caches, job, told, burst>>

Elapse ==
  /\ ~rested
  /\ rested' = TRUE
  /\ burst' = Quiet
  /\ UNCHANGED <<world, lost, health, outcome, attempts, holder, caches, at, job, told>>

UnderWay == {a \in Decodes \cup Pages : at[a] \in Asking}
            \cup {s \in Schemas : schemas[s] = "pending"}

\* Of the requests under way some were answered already.
GoesDown ==
  /\ mood = "well" /\ outages < MaxOutages
  /\ mood' = "down"
  /\ outages' = outages + 1
  /\ \E S \in SUBSET UnderWay : lost' = lost \cup S
  /\ UNCHANGED <<health, probe, caches, at, job, told, burst>>

ComesUp ==
  /\ mood # "well"
  /\ mood' = "well"
  /\ UNCHANGED <<outages, lost, health, probe, caches, at, job, told, burst>>

Ready(d) == TrustProbe(d) \/ BackOff(d) \/ ProbeStarts(d)

Decode(d) ==
  \/ ProbeSucceeds(d) \/ ProbeFails(d) \/ Forget(d)
  \/ Resolve(d) \/ Resolved(d) \/ ResolveFails(d) \/ Labelled(d)
  \/ AskConverter(d) \/ Decoded(d) \/ DecodeFails(d)

SchemaNext ==
  \/ \E d \in Decodes : (\E s \in Schemas : Begin(d, s)) \/ Ready(d) \/ Decode(d)
  \/ \E s \in Schemas : ConverterAnswers(s)
  \/ \E p \in Pages : PageAsks(p) \/ PageAnswered(p) \/ PageFails(p)
  \/ \E a \in Decodes \cup Pages : Cancel(a)
  \/ Elapse \/ GoesDown \/ ComesUp

\* tokio's mutex is fair, every request ends (it has a timeout), a decode
\* runs between its awaits, and time passes.
SchemaFairness ==
  /\ \A d \in Decodes : SF_vars(Ready(d)) /\ WF_vars(Decode(d))
  /\ \A s \in Schemas : SF_vars(ConverterAnswers(s))
  /\ \A p \in Pages : WF_vars(PageAnswered(p) \/ PageFails(p))
  /\ WF_vars(Elapse)

SchemaSpec == SchemaInit /\ [][SchemaNext]_vars /\ SchemaFairness

-----------------------------------------------------------------------------

\* An outage costs the registry one probe per backoff, shared by every
\* cluster that names it, and at most one more for each decode that was past
\* `ready` when the first of them failed: a late transport error forgets the
\* probe, and with it the backoff, once.
StragglersPayForProbes == burst.failed <= 1 + burst.stragglers

\* Once the registry stays well, decodes stop failing for want of it: no
\* error of the outage sticks to an id or to the probe, nobody keeps the
\* mutex, and every decode comes to an end.
DecodesAgain ==
  <>[](mood = "well") =>
    \A d \in Decodes :
      /\ <>[][told'[d] = "degraded" => told[d] = "degraded"]_vars
      /\ []<>(at[d] = "idle")

=============================================================================
