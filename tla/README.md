# kaas-ui, specified

TLA+ modules of kaas-ui (a web UI for several Kafka clusters: an axum server in
Rust and a browser application), checked with TLC on small instances, with
theorems TLAPS proves for every instance. Every definition is translated from
the code; `PROJECT.json` names the lines.

```
tlc -workers 2 -config streams.cfg MCStreamService.tla    # one run
tlapm Access_proofs.tla                                   # one proof module
```

Sections: 1 the system, 2 the modules, 3 the runs, 4 the proofs, 5 known
divergences, 6 not modelled, 7 what is next.

## 1. The system

### Components

| component | state it keeps | operations | what makes it correct |
|---|---|---|---|
| stream governor (`streaming.rs`) | a total, a queue of streams per caller | `acquire`, drop of a `StreamPermit` | the total never drifts; a caller's ceiling costs the caller's own oldest stream, nobody else's |
| streaming routes (`messages/stream.rs`, `routes/analysis.rs`, `lib.rs`) | the spawned tasks and their permits, one analysis slot per cluster | open, end by pump / lifetime / eviction / departure / shutdown | every permit is given back once, and a stream that should stop does |
| drop-oldest hand-off (`streaming.rs`) | a bounded queue, a drop count, two `Notify`s | `push`, `recv`, `closed`, two Drops | nothing vanishes uncounted, no wakeup is lost |
| message stream and its reader (`messages/stream.rs`, `transport.ts`, `message-store.ts`) | the scan's position, a batch, the ring, the EventSource's last id, the rows on screen | scan events, flushes, SSE writing, reconnecting | rows are not lost unannounced, repeated or reordered; a window ends and says how |
| message pages (`messages/mod.rs`, `seek.rs`, `terminal.tsx`) | the browser's anchor, the pages on their way | `page`, `loadMore` | a walk steps over nothing, ends, and is at the end when it says so |
| topic analysis (`core/analysis.rs`, `routes/analysis.rs`) | a fold, a deadline, a record cap | pump, fold | counts add up, quantiles are near, what is left out is told |
| cluster connectors (`core/registry.rs`, `health.rs`) | a connection, a health, a retired flag per handle | connect, back off, watch, refresh, retire | one connection per served cluster; a retired connector ends |
| registry and reload (`core/registry.rs`, `server/reload.rs`) | the served map of handles, the bytes last read | poll, load, build, swap | an edit changes what it is about, a bad one nothing |
| schema registry client (`serde/registry.rs`) | health, a shared probe with backoff, schema and subject caches | `ready`, `decode`, `subjects` | an outage costs the registry little and is recovered from |
| Kafka Connect client (`connect/client.rs`) | health, a probe, caches with a TTL | `ready`, `connectors`, `invalidate` | as above; lists show what was written |
| Kafka Connect writes (`connect_write.rs`, `writer.rs`) | none of its own: the worker's connector, the audit log | `perform` | what is sent is recorded, what is recorded is true |
| audit, gate and policy (`kaas-ui-auth`) | the log's writer; the policy | `record`, `authorize` | no access without a grant, no disclosure without a line |
| OIDC and sessions (`oidc.rs`, `session.rs`, `auth.rs`) | encrypted cookies, a key made at start, the provider's keys | login, callback, logout | a session is one person's, survives what it should, and ends |
| broker tokens (`federated.rs`) | one cached token behind a mutex | `current_token` | no token past its end, one exchange at a time, nobody waits for ever |
| configuration (`config.rs`) | none | `validate`, the claims on environment variables | a credential is read by one entry |
| sizing advice (`sizing/*.rs`) | none | measure, diagnose, suggest | advice that is followed stands, and says what it rests on |
| payload decoding (`codec.rs`, `decode.rs`) | none | choose a codec, render, cut, search | a filter finds what is in the payload, not what the row shows of it |
| subjects (`naming.rs`, `schemas.rs`, `subjects.rs`) | version and text caches | names to columns, lists, pages of versions | a name is read as it was formed; a cached text is the version's |
| topic and group pages (`topics.rs`, `groups.rs`) | none | counts, sizes, lag, sort and cut | a number is one of some instant between the reads, or absent |
| fleet and cluster pages (`dto.rs`, `clusters.rs`) | none | sections, cards, columns, offers | what is offered answers, what answers is listed |
| connect pages (`connect.rs`, `model.rs`, `redact.rs`) | none | rows, statuses, counts, edits | no secret leaves, a status is not better than the tasks |
| routes and errors (`lib.rs`, `routes/*.rs`, `error.rs`, `client.ts`) | the browser's query cache | check, look up, call, tell | every failure is told as what it is; an address is one thing |
| links and windows (`search.ts`, `seek.rs`, `resolve.rs`) | none | link to query, query to plan | a link the page writes is served, the plan is bounded |
| deployment (`assets.rs`, `dex.rs`, `base.ts`, `oidc.rs`) | none | paths, prefixes, policies, claims | links keep their prefix, a login comes back to where it was |
| tooling (`xtask`, charts) | none | – | – |

### How they interact

* A request is somebody's by its session cookie (`Caller`), sees the clusters
  its roles select, is granted by a pattern over names, and is recorded before a
  payload is shown. It reads the registry through an `ArcSwap` and uses the
  handle it found, also after a reload has retired it.
* A stream takes a permit from the governor and spawns a task that selects over
  the reader's departure, the shutdown latch, its own eviction, a lifetime and
  the pump. The task and the SSE body share only the ring.
* The browser's EventSource reconnects by itself, with the last id it saw;
  `loadMore` appends pages to the store the stream has filled.
* A reload builds a new registry out of the old one's handles. Handles own a
  connector task; nudges from requests shorten its sleeps.
* A write asks the worker for its copy of a config, records an intent, sends the
  change, empties a cache that list requests fill, and records the outcome.
* Decodes of every cluster that names one schema registry share its client.

### What is hard

* *interleaving*: a permit's drop long after its eviction, a notify between a
  look and an await, a reload in the middle of a connect, two logins of one
  browser, a late transport error of an outage that is already over;
* *failure part-way*: the second of two permits refused, a reload that fails at
  its third cluster, an audit that fails after the write;
* *delivery*: SSE connections that break with events in flight, pages that come
  back after the window changed, writes whose answer is lost and whose effect
  comes later;
* *time and restarts*: tokens that end while their refresh fails, sessions that
  outlive the policy that made them, key rotation in the middle of a login;
* *limits and edges*: the two stream ceilings, the ring, bounded windows, size
  buckets, patterns with stars side by side;
* *liveness*: streams that must end, slots that must come back, drains, walks
  and waits that must complete.

`PROJECT.json` lists each as a hazard, at its line, with the properties that
would catch it, or why none does.

## 2. The modules

| module | models | composes |
|---|---|---|
| `StreamQuota` | what the governor promises: sets of open streams | – |
| `StreamGovernor` | `StreamGovernor::acquire` and `Drop for StreamPermit` | states its refinement of `StreamQuota` (`KeepsQuota`) |
| `StreamService` | the two SSE routes, the analysis slot, the shutdown latch | extends `StreamGovernor` |
| `DropOldest` | what the hand-off does to its slots | – |
| `Ring` | the same with `Notify`s and the gaps between unlock and await | extends `DropOldest`, implements it |
| `MessageStream` | pump, ring, SSE writer, EventSource and store | extends `DropOldest` |
| `MessagePages` | one page of a window and the browser's load-more, over a log that grows and is retained | – |
| `ClusterConnector` | the connector tasks, the brokers | – |
| `ClusterRegistry` | the file, the watcher, the served registry | extends `ClusterConnector` |
| `ConnectWrites` | `perform`, the worker, the audit log, the connector list | – |
| `SchemaRegistry` | one schema registry's client and the decodes and pages that share it | – |
| `Glob` | `matches` of a role's or codec's pattern | – |
| `Policy` | roles, permissions, the access they add up to | – |
| `Fleet` | what an access sees of clusters, registries and Connect clusters; the ceiling of writes | extends `Policy` |
| `Login` | pending logins, callbacks, the session cookie, rotation and restart | extends `Policy` |
| `Access` | requests under sessions: caller, lookup, grant, audit line, answer | extends `Login`, `Fleet` |
| `FederatedToken` | `current_token` and `fetch` with their lock | – |
| `TopicStatistics` | size sketches, counters, the hourly histogram | – |
| `Configuration` | `Config::validate`, which variable each entry reads and what its client is built with | – |
| `Sizing` | the lint, the suggested profile, the advice that can be followed | – |
| `Analysis` | the pump of an analysis over a scan, its result, what a measurement and a configuration are read as | extends `TopicStatistics`, `Sizing` |
| `Offsets` | counts, sizes and lag from reads at three instants; partition health on card, row and grid; the topic list's search, order and cut | – |
| `Decoding` | the choice of a codec, renderings, cuts and the filter; a protobuf message as JSON | extends `Glob` |
| `Subjects` | names and their seams, the columns and lists of subjects, the caches of a subject's page, the scan of a protobuf text | – |
| `FleetPage` | the fleet's sections, cards and offers | extends `Fleet` |
| `Connectors` | rows and statuses of connectors, redaction, the preparation of an edit, the client's health and probe | extends `Policy` |
| `Answers` | how a fault of the library, a worker or a registry becomes a status, a body and a feature; the pages a feature offers; an exchange for a token | – |
| `Windows` | links and their windows, plans, tails, one record, the pages' modes, the date setting | extends `Decoding` |
| `Requests` | the router, each handler's checks and calls in order, the writes' refusals, the client's addresses and cache keys | extends `FleetPage`, `Answers` |
| `Deployment` | base path, internal address of the provider, claims, assets, the policy of a page, the guard of writes | extends `Policy` |
| `*_proofs` | theorems about the module of that name (eight of them; `StreamService_proofs` about `StreamGovernor` too, `Messages_proofs` about `Ring` and `MessagePages`, `Clients_proofs` about `SchemaRegistry` and `FederatedToken`, `Rules_proofs` about the modules without state) | – |
| `MC*` | values of the constants for TLC; `MCRules` asks the modules without state | – |

The operators whose comment begins with "Mutant of" are plausible bugs of the
definition after them. Each property is known to fail for one of them
(`PROJECT.json`, `mutants`); no specification uses them.

### How state and actions correspond to the code

*Streams.* `total`, `nextId` and `perPrincipal` are the fields of
`GovernorState`; `permits` are the `StreamPermit`s alive and `stopped` the
eviction latches that were tripped. `Admit` and `Evict` are the two ways
through `acquire`, `Release` and `DropEvicted` the two ways through the permit's
drop; each is one mutex section. In `StreamService` a stream moves from
`admitted` (the handler holds the permit and may still fail, as a filter that
does not parse does) to `running` (the select), `ending` and `released`; an
analysis drops its two permits in two steps. What a request is charged to is
computed as the two routes do it: the message stream by subject, the analysis by
the forwarded hop or the peer's address.

*The hand-off.* `queue`, `dropped`, `senderGone` and `receiverGone` are `Slots`.
In `Ring` a push and its `notify_one` are two steps, a look and the
`notified().await` are two steps, and a `Notify` holds at most one permit.

*The message stream.* One connection is one pump, one ring and one SSE body.
`pump` goes through resolving, opening, scanning and closing; the frames it
pushes in one poll pass through `outbox`, so that the writer may run between two
of them. The task's select may end it at any await. `wire` is what was written
and not read; a break of the connection loses it, and the next connection starts
with `lastId`. `owed` is a history variable: the rows the current connection's
scan has read, against which losses are judged.

*Pages.* A page is asked for (`LoadMore`), answered by a read of the log as it
is then (`Reply`), and appended to whatever store is current (`Arrive`), or it
fails. `StreamEnds` fills the first window at once; how is `MessageStream`'s
subject. Rows carry the window they were read for, so a row of another window
can be told (`Stray`). kaas-lib's scan (each partition in order, partitions in
any interleaving, a row limit) and tail (whole chunks from the end) are external.

*Clusters.* A handle is a number and a record of what it was built from; `at` is
the await its connector is in, `admin`, `health` and `retired` its fields.
`Swap` and `FailPartWay` are `Registry::reloaded` followed to its end or to the
first `ClusterHandle::new` that fails: the handles made and retired on the way
stay made and retired. `Poll` and `Reload` are the two reads of the file.

*Writes.* A request is at the await it waits in; `wire` is how far its write has
come at the worker, which may apply it after the answer was given up on. `log`
is the audit log. A cached list is the set of writes it shows (`seen`) and those
answered while it was on its way (`across`).

*Schema registry.* A decode is at the await it waits in; `holder` has the probe's
mutex, `outcome`, `rested` and `attempts` are `Probe` (`rested` for the clock),
`types` the id cache. `lost` are the requests that will end in a transport error,
which may be long after the registry is back. The converter is external: a
shared future per id, whose error stays until `went_away` removes it. A registry
that is starting answers 404; after that it is well or away. `burst` is a history
variable of the failed probes of the current backoff.

*Sign-in and access.* A flow is one login (state, nonce and verifier are its
identity); a callback is one request to `/auth/callback`, at the await it is in.
`jar` is the browser's two cookies and changes when an answer arrives, so
answers of two tabs cross. `epoch` numbers the process: a restart brings another
cookie key and possibly another policy. `known` are the keys in the shared
provider metadata, which `Store` replaces. A request's `behind` is the person the
provider signed in, a history variable: what `Caller` rebuilds has only the
subject and the role names, and the properties compare the answer with what the
policy gives the person. `lines` are the audit's lines for it; `Record` may fail
with its line written or not.

*Broker tokens.* `ahead` is the mutex's queue; `exchange` and `minted` say since
when a caller has been waiting for the issuer, and with what it will be answered.
A token is [minted, life] by the issuer's clock and [refresh, expires] by the
provider's, which counts from the answer.

*Rules.* The modules without state are operators: an input goes in, and what the
code computes of it comes out. `MCRules` has one action per kind of input; a
state is one question. What is time in the code is part of the input:

* a log is its two ends at three instants, the ones at which a page reads them;
  a scan is the events of the log it walks; a client is the course of its calls,
  each with who holds the probe's mutex and how it ends; a subject's page is the
  course of its readings with the registry as it is at each;
* names are sequences of few letters, a subject list is in the order of its
  names; a payload is its length and where the needle ends in its rendering;
* keys of a connector's config are sequences of segments and values of tokens,
  so a prefix, a placeholder or a reference is seen; a secret is the variable it
  came from;
* paths, pages and addresses are sequences of tokens, a link is which of its
  parameters are there, a date is its parts in their order;
* a request is somebody, an address and the one call that fails, if any;
* bucket arithmetic is division, settings are in MiB and minutes, fractions are
  pairs.

## 3. The runs

Ten runs in which every property holds, two in which TLC finds a promise of the
repository broken. Bounds are constants of the configuration files.

| run | bounds | asks |
|---|---|---|
| `streams` | one caller under two keys, one of them without a ceiling of its own, 4 streams, ceilings 2 and 3, one cluster | is the count exact and does each task hold its permit; is every behaviour one of `StreamQuota` (ceilings, and evictions that hit the caller's own oldest); do streams told to stop release, does a stopping process drain |
| `ring` | 4 pushes into a ring of 2 | does an overflow lose the oldest and count it; is a wakeup lost; does the queue drain |
| `messages` | partitions of 1 to 3 entries with a rejected record and a batch that does not decode; five windows; ring of 2, batches of 2, limit 4, two connections | are rows lost in silence, repeated, reordered; is a server's ending told; does a bounded window end |
| `clusters` | 4 handles, 2 edits over five files, one outage, attempts saturating at 1 | one connector per served cluster, unchanged clusters undisturbed, retired connectors end, edits are followed, handles decode against the served schema registry |
| `connect` | 3 writes, one reader of the list, one value | is anything sent unrecorded; is the log true; does a list show the writes |
| `schemas` | two decodes and a page on one id, a registry that may start late and goes away once | what does an outage cost; do decodes work again and end |
| `access` | two people, two logins, two callbacks, one key rotation, three processes with three policies (one of them open, one with two roles of one name), two clusters of one id, two registries, one Connect cluster, nine questions | is every request answered as the policy in force answers the person, or within the roles named like theirs; is every disclosure recorded; are rotations survived; do people stay signed in |
| `tokens` | three callers, lifetimes 0 and 3, margin and timeout 1, seven instants | is a token given past its end; does one go back; is everyone answered |
| `pages` | two partitions of 7 and 5 offsets with rejected, aborted and undecodable ones, pages of 2, a store of 4 rows, two windows, one append or removal per kind, one failed page | does a walk step over a record, end, and tell its end truthfully |
| `rules` | below | seven questions, below |

The run `rules` asks each question over every input within these bounds (746 265
states; about three minutes with coverage):

| property | asked of | bounds |
|---|---|---|
| `RolesMeanWhatTheySay` | patterns, the fleet page, offers, claims, sign-in | patterns and names of up to 5 characters; a fleet of 3 environments with up to two roles; tokens with 4 kinds of claim |
| `StatisticsAreSound` | size sketches, histograms, advice, scans, measurements | up to 4 sizes at bucket edges; 3 records of 4 hours under a cap of 2; 8 640 topics × 6 measurements; logs of ≤ 3 cells, caps none to 3, the read failing at any cell, the deadline at any event, the reader gone or not; ≤ 3 records of 14 kinds; 36 configurations × hidden entries × log directories |
| `SecretsStayPut` | configurations, redacted keys, task configs, edits | 2 declared entries in 1 or 2 environments over ids that flatten alike, beside a plain cluster; keys of ≤ 3 segments; every pair of 64 configs as a connector's and a task's |
| `PagesAreHonest` | connectors, clients, failures, features, what is offered, token exchanges, lists, dates, links, tails, deployments, paths, requests, writes, addresses | ≤ 3 tasks; up to 3 calls of a client with backoff 1 to 3; 9 accesses × 3 addresses × connected or not × one of 18 calls failing in two ways × 5 queries; writes: 5 accesses × 4 addresses × 5 segments × all bodies × recorded or not × 10 faults; limits 2 to 4, two partitions of ≤ 3 records, logs of ≤ 4 cells; 1 280 deployments, pages of ≤ 2 elements in their head, paths of ≤ 3 segments; quotas of three types, dates in three orders; any of nine keys missing; one redirect of a token endpoint and five lifetimes |
| `NumbersAreHonest` | offsets and lag, sizes, health, the topic list | logs of ≤ 3 offsets at three instants beside a steady one; two disk copies; three topics of partitions with one or two replicas in every state; three listed topics |
| `PayloadsAreHonest` | payloads, protobuf messages and codecs | payloads of 4, 5 and 8 bytes under ceilings 4 and 7; three fields, packed or not; two codec entries |
| `SubjectsReadBack` | names, subjects, lists, readings, versions, protobuf texts | names of ≤ 3 letters, 6 listed subjects on pages of 1 and 2, ≤ 3 readings with a cache of 2, texts of ≤ 4 pieces |

Each property is the conjunction of promises of the modules named above it
(`MCRules` lists them); each promise is a definition with a comment of its own.

Why these are enough: an eviction needs a caller at its ceiling beside another
key's stream that could be taken by mistake, and a refusal a full process (2 + 1
streams and a new one); the ring's cases are a full ring and an overflow while
the receiver is between look and await; a message stream needs a reconnect and a
frame lost to overflow at the same time; a walk needs a page emptied by the
filter, a page cut, a log that moves and a window opened while a page is under
way; the reload needs an edit while a replaced handle is anywhere in its loop;
list and write need a write answered while a list is under way and another write
after it; the schema registry needs a prober and a decode that was past `ready`
when the outage began; a login needs another one that crosses it and a rotation
between its two verifications, and a policy of which a role's name means
something else after the restart; a token needs a holder, one who waits behind
it and one who has gone. A pattern's cases are two stars with overlapping
segments between them, which five characters hold; a group's, a log of which
both ends move between any two reads; a client's, a probe, a fault and the next
caller; a subject's page's, a version that comes, one that goes and a cache that
has run out in between; a request's, one failure at every place where it calls
anything.

The two violations:

| run | promise | what happens |
|---|---|---|
| `clusters_reload` | "An invalid edit is logged and the previous registry stays" (docs/ARCHITECTURE.md:122) | handles before the failing cluster were already retired: the process serves a cluster whose connector was told to stop |
| `pages_refused` | the anchor is "guarded" against an offset that would "come back as a confusing 400" (terminal.tsx:48) | a backward window that reaches offset 0 asks for offset -1 and gets that 400 |

### Fairness

* `streams`: a spawned task is polled and its select takes a latch that has
  tripped; a handler runs to its end. A pump need not end and a reader need not
  leave; `EveryStreamGivesBack` alone adds `TimersFire` (the 30-minute lifetime
  and the analysis deadline), as its premise. The deadline is a timer of the
  scan's loop only: while an analysis is planned (analysis.rs:286) it does not
  run, so kaas-lib's own timeouts are what ends that await.
* `ring`: a thread inside `push` or a Drop finishes it; hyper polls the body
  while the response lives; tokio polls the task. Nobody has to push or leave.
* `messages`: task, writer and the browser's event loop go on, and kaas-lib's
  scan does not starve beside them (strong: a flush or an overflow disables it
  for a moment). Connections need not break (and break at most as often as the
  bound). A reconnect that the server refuses (signed out since, topic gone) is
  not modelled: EventSource then stops for good, with an error.
* `pages`: stream and server answer, and the reader goes on pressing the button,
  which is an assumption about the reader: `WalkEnds` is about a walk that is
  walked. The bound on failures makes them finite.
* `clusters`: connectors are polled and their sleeps end, the watcher polls every
  five seconds. Brokers, kaas-lib and the operator owe nothing.
* `schemas`: tokio's mutex queues its waiters in order (strong fairness for taking
  it), requests have a timeout, a backoff passes. Nothing has to be decoded and
  no page opened; a registry that stays well is the premise.
* `tokens`: whoever holds the lock is polled; an exchange is answered or times
  out. The issuer owes nothing.
* `access`, `connect` and `rules` check safety only.

### Sound abstractions, and what they cost

Except in `tokens` and `access`, durations are absent: any sleep may end at any
moment, so no property depends on one being long enough. `next_id` (2^64) and
the writes' ids do not wrap. The reload sees one schema registry's settings per
file. `connect` uses one value of the withheld key, because its invariants
compare none. Requests of `connect`, and flows and callbacks of `access`, are
interchangeable and declared symmetric; no liveness is checked there. In
`access` cryptography is the identity of a key: what was sealed under another
epoch's key is not read. Deadlock checking is off where the model runs out of
requests, pushes, instants or connections, which the system does not.

Premises that some properties carry, because without them they are false of the
code (section 5): `NoHoles`, `EndIsTheEnd` and `WalkEnds` are of walks over one
partition, backward ones with timestamps in offset order, and of stores with
only their own window's rows; `NoHoles` is of first windows over any number of
partitions too, and of forward windows only while the cap has let nothing go;
`OneConnector` of files that list no changed or new cluster before one that
cannot be built (after such a reload the connector that was spawned is nobody's);
`FollowsFile` of edits the watcher has yet to read, after its first read;
`NoSilentLoss` of windows that end of their own accord; `ListShowsWrites` leaves
out lists that were on their way while a write was answered; `AdviceStands`
compares diagnoses only where retention is longer than the shortest roll, and
names the two warnings that following the advice may add. Those of the promises behind `rules`:

* `SecretsAreApart` and `AuthIsOnesOwn` are of environments whose ids do not
  flatten alike. `EditIsExact` has the plugin's definition the same at the
  preview and at the edit.
* `CountsAreHonest` leaves out a retention that overtakes the latest end between
  its read and the earliest's. `ColumnsAreExact` counts dangling subjects only
  for callers who see all readers. `PageRemembers` has a version's text stay
  what it is while the version is registered.
* `FilterIsWhole` leaves out a registry whose answer changes between the two
  decodes of one record.
* `FleetIsAddressable` says nothing of the page of an environment of which only
  resources are visible (`OnlyResources`). `OffersAreKept` is of somebody signed in. `RowsLeadSomewhere` is of
  names that are not empty, `.` or `..`, and of groups that exist.
* `LinksAreServed` leaves out links whose partitions text is not a list of
  numbers; `TheRecordAskedFor` offsets inside a batch that does not say its end.
* `QuantilesAreClose` holds the code to its ±4 % except where a bucket is wider
  than that (`WiderThanStated`: from 16 bytes up, the lower five of eight
  buckets, up to 6.25 %).
* `AssetsAreAnswered` has a deep link answered with the page unless its last
  segment looks like a file's name (`LooksLikeFile`).
* `ClientIsHonest` leaves out the time from a fault recorded while somebody holds
  the probe's mutex to the next one that finds it free. `AddressesHold` names two
  cache keys without an environment (`HalfKeyed`), which share with a namesake of
  another environment at most.
* `AnalysisIsTold` relies on the library to end a scan at the cap, the end or an
  error and to say which; `MeasureHolds` bounds the peak from below only where
  every record has a timestamp and the histogram is whole; the broker reports
  both retention limits or neither, and `cleanup.policy` beside them.
* `SignInIsOffered`, `LoginStaysInside` and `LinksKeepTheirPrefix`: a claim's
  subject is not "anonymous"; prefixes that are neighbours as text (`/ui`,
  `/ui2`) are not told apart; the provider is reached through the public proxy
  only with an empty base; a page has a `<head>`. `ListsAreWhole`: quota
  entities have no names that contain the separator or read `<default>`.

## 4. What is proved

Fifty-one theorems in eight modules, for any number of callers, streams, items,
requests, clusters, people, policies, logs and connections, and for the rules
without state any configuration, connector and payload. The assumptions are
the ones the modules name, which TLC evaluates in the runs.

* **`StreamService_proofs`**, the governor first: `Spec => []IInv`, and from it
  the exact count, the ceilings, `EvictsOwnOldest` and the refinement of
  `StreamQuota`. The count alone is not inductive: subtracting one is right only
  if the dropped id is in its queue exactly once. So the invariant says that a
  queue is increasing (`OldestFirst`), that it holds exactly the ids whose permit
  is alive and whose latch is not tripped (`LedgerAgrees`), and that ids are
  handed out once. Sequence lemmas say what each queue operation does to the set
  of its entries. For the refinement the open streams of a key are the entries of
  its queue.

  Then the routes: they implement the governor (`ServiceUsesGovernor`: each of
  their steps is one of its or leaves it alone), so count, ceilings and quota
  carry over; and `TasksHoldPermits`, inductive with `Numbered` (streams are
  numbered as permits are), which makes the permit a new stream gets nobody
  else's.
* **`MessageStream_proofs`**: `NoSilentLoss`, `ServerEndIsTold` and `RowsInOrder`,
  for any logs, queries, limits, frame and ring sizes and any number of
  connections. A row may be anywhere between the scan and the screen, so the
  invariant (`StreamInv`) follows it: the batch, the frames the writer has still
  to write (`Coming`: taken, in the ring, in the outbox), the wire, the store.
  `done` is the last frame of all that is `Pending`, and a ring that overflows
  drops its oldest, so it arrives and arrives last (`EndInv`); a count of drops
  that was told is on the wire or on the banner (`WireInv`); a forward scan owes
  every row that it has come past and that is due (`ScanInv`). Order over
  reconnections is the hard part: a connection that starts over sends rows the
  store has, and the rows it has not must then not come late. That holds because
  nothing is missing before a row: with no drops shown or counted, whatever is
  due before a row of a frame is on the screen, or before or with it on its way
  (`CoverInv`). A push may drop a frame and break this, but then the count is
  ahead of what was told and the next frame is preceded by the news
  (`Noticed`). A live stream, whose scan goes on where the last ended, ascends
  whatever it drops (`LiveInv`). Lemmas on frames (`RowsConcat`, `CoversConcat`,
  `AscendsConcat`, `DoneConcat`) say what holds of two runs put together; what
  the store makes of a batch is a lemma on the ranks of its new rows
  (`StoredRows`). Assumed (`StreamAssumption`): finitely many partitions, a
  positive frame size, queries of the four modes.
* **`Messages_proofs`**, the hand-off first: accounting, newest kept, no lost
  wakeup, and `RingSafety => Spec` of `DropOldest`. The wakeup argument needs to
  know that a sender that is "gone" has set `senderGone`, and who is between an
  unlock and a notify.

  Then the pages: `NoHoles` and `EndIsTheEnd`, for any logs, queries, page
  limits, caps and number of windows. That rows have no hole between them is not
  inductive: it must also hold where the next page will be joined. So the
  invariant (`WalkInv`) says that nothing is missing between a row and the
  anchor (`EdgeWalk`; when the walk is at its end, that nothing is left below
  it), that in each partition of a backward store the rows fall in offset, which
  makes what the cap lets go the lowest or the highest (`RowsWalk`), and that a
  page on its way continues from the anchor it was asked at and answers without
  a hole (`PageWalk`). Since the log moves, "missing" is always measured by what
  the log has now: an append is above every row of a backward walk and below no
  anchor of a forward one, and retention only takes away. The work is in what a
  page gives: a read is a run of what is in reach, the cut of a sorted backward
  page is its upper end, of a forward page whatever was read, and `next_anchor`
  is beside what was read or, after a cut, beside what is shown (`PageBack`,
  `FoundHas`); and in what the store makes of a page, row by row (`JoinedAt`,
  `PushNumbers`, `PushedShows`). A store that is no longer clean (`Clean`) does
  not become so again within its window, so every conjunct stands under it. Assumed
  (`PagesAssumption`): finitely many partitions, positive limit and cap, batches
  that do not decode are whole in the log and appended whole. The proof
  attempts corrected the model twice. `NoHoles` as first stated was false,
  beyond the bounds of the run, of a forward window with timestamps out of order
  that outgrows the cap, and of a backward first window over two partitions of
  which one is out of order: the premises `CutInOrder` and `Orderly` name them.
  And nothing had said that the log starts out with whole batches.
* **`ConnectWrites_proofs`**: type correctness, `NothingSentUnrecorded`,
  `LogIsTrue` and `ListShowsWrites`. The log's truth is inductive only with
  `Pending` (a request that is not over has no outcome, no answer, and before
  the writer nothing sent): a late effect at the worker may then not contradict
  a line. The list's needs the lists under way as well (`EveryListShows`). A
  step of one request leaves the others' (`PerformChanges`, `Undisturbed`).
* **`Access_proofs`**: all four properties of the run. Every session in a jar was
  made by `SessionOf` in the process it names (`WellMade`), so the role names in
  it are those that policy gives its person, and the access rebuilt from them has
  the roles named like one of the person's own (`CallerIsBehind`); a request's
  stage says what it was checked for on the way (`RightTo`). Nothing is assumed
  of the names of roles, since nothing validates them: where two roles of a
  policy share one, a session carries both, and `AnsweredByPolicy` then promises
  no more than that (`NamedRoles`); where none do (`NamedApart`), and for whoever
  is not signed in, it is the person's own roles exactly. Assumed: one cluster
  per environment and id (`ClustersAreKeyed`, which `Config::validate` does
  check), and that the value for "no session" is not a session.
* **`Clients_proofs`**, the federated token first: `LateByTransitOnly` and
  `NeverBack`. The invariant says who may be in an exchange (`Queued`: of two who wait one is ahead of the
  other, and who exchanges holds the lock), that an exchange is younger than the
  timeout and mints within it (`InTime`), and that the token in hand was minted
  before the exchange that will replace it began (`HandInTime`).
  Of the schema registry's client, `StragglersPayForProbes`. From the first failed
  probe of a backoff nobody new gets past `ready`, a failed probe closes the
  probe for the rest of the backoff, and a straggler opens it again at most once,
  on leaving; so the failed probes, those still past `ready` and an open probe
  together never grow (`Budget`), given that only the mutex's holder probes
  (`Probers`). Assumed: finitely many decodes (`ActorsAssumption`).
* **`ClusterRegistry_proofs`**: `DecodesAgainstServed`, `UnchangedUndisturbed`
  and `OneConnector`.
  All rest on what a reload makes, also one that fails part of the way
  (`SpawnGrows`): a handle of its own for each entry, beside those there were. A
  new handle's number is the number of handles plus its rank among the new, so
  the work is a lemma that ranks in a finite set of numbers are different and
  below its cardinality (`Ranks`). `OneConnector` is proved of behaviours in
  which a reload that fails has made no handle (`NothingMadePartWay`, which the
  edits of the run `clusters` satisfy and those of `clusters_reload` do not: the
  second finding of section 5). A swap serves every handle it made because the
  entry a cluster is looked up by is the only one that declares it (`LookedUp`).
  Assumed (`ConfigsAssumption`): a file that loads declares no cluster twice,
  which `Config::validate` checks, and the process started from one that loads.
* **`Rules_proofs`** takes the promises of run `rules` one by one and proves
  them of every input. First `SecretsAreApart`: what an entry reads it claims
  (`ReadsAreClaimed`), validation gives a variable one owner, told by kind and
  id, and two variables of one owner differ by what flattening makes of their
  environments (`VariablesTellApart`): the promise's own premise,
  `FlattenedApart`. Beside it only `TypedConfig` is asked (ids are sequences of
  characters, a cluster has OAuth's fields when OAuth is its SASL, as serde has
  it). `AuthIsOnesOwn` rests on it: the client a variable is told to
  is found by the one claim of that name. Then redaction (`PrefixHidesNothing`,
  `TasksHideNoLess`) and edits (`EditIsExact`; `Editable` says what it is asked
  of: configs that name the connector, and plugins that do not declare the class
  secret). Of the questions that TLC is given all four hypotheses are proved too,
  which makes the invariant `SecretsStayPut` of `RulesSpec` a theorem. Next
  `LagIsHonest` (`IsLog`: a log's ends only grow), `CardsAreExact`
  (`MatchesSome`: each pattern matches one of the names; where a cluster has no
  such name a card offers what leads to an empty list), `OffersAreKept` and
  `FleetIsAddressable`, of any declared fleet (`SectionIsOne`: an environment has
  one section or none). Of writes `WritesAreTold`: the checks of `Perform` are a
  chain whose first refusal has the last word (`FirstIsRefused`), so what was
  sent passed the gate within a ceiling (`GateIsWithin`) and was recorded, and a
  handler changes nothing of the caller or the resource before it performs
  (`AnswersAreHandled`; `IsWrite`: a request has its fields). Of payloads
  `FilterIsWhole` and `CodecIsTold`: whatever the ceiling, a decode is *some* of
  a whole that does not depend on it (`DecodedIsSound`), so the second decode of
  a filter has the same whole, or the one of the registry's other answer. Assumed
  of the constants: "absent" is no value (`AbsentIsNoValue`) and no id, no answer
  is no number, `class` ends in no secret word, a filter may have a character,
  and of a declared fleet what validation and types make of it: unique ids,
  labels that say the environment, ceilings of operations
  (`EnvironmentsAreKeyed`, `ConnectsAreKeyed`, `ClustersAreLabelled`,
  `CeilingsAreOperations`).

Only model-checked: every liveness property (fairness and ENABLED are out of the
prover's reach). Of `rules`, the groups other than `SecretsStayPut` as wholes,
since each has a promise about what a fold or a recursive function computes
(matching of patterns, quantiles, lists and tallies, protobuf objects, names and
their columns), which needs induction over data; the parts of them that need
none and say most are the theorems above.

## 5. Known divergences

Met while modelling, beside the two that runs show. The models follow the code,
and where one of them would break a property the property names it (section 3).

**Streams and pages**

* `resumed` is announced whenever the header is there, also for streams that
  start over (messages/stream.rs:224). The banner's `dropped` counts frames, not
  records (streaming.rs:116). A stream whose filter is refused has already been
  recorded and taken its permit, perhaps evicting the caller's oldest
  (stream.rs:155–188). `done` is "the window is read, or the process is shutting
  down" to the browser (transport.ts:78–79); a stream that is evicted or comes to
  the end of its lifetime says it too (stream.rs:210–215), so a window that was
  cut looks read.
* A walk over several partitions has one offset for its next page, so records
  are stepped over (mod.rs:474); a backward page is sorted by time before it is
  cut, so where timestamps are out of order the cut loses records (mod.rs:312),
  and so does the cap of a forward store, whose oldest rows are then not its
  lowest (message-store.ts:146);
  `loadMore` does not send `visibility`; a first window emptied by its filter has
  no anchor (terminal.tsx:58); a page that arrives late goes to the store on
  screen, whatever window it was asked for (terminal.tsx:84).
* The tail route breaks ties of time by ascending partition; backward pages and
  streams reverse the whole sort key. `unresolved` counts partitions that
  answered with an error. The `partitions` of a link is any text: one that is no
  list of numbers gets a 400, on which an EventSource retries.

**Clusters, clients, connectors**

* An edit of the configuration between the start-up's load and the watcher's
  first read is not served until the next edit (reload.rs:27). A cluster that
  kaas-lib's own refresh loop finds again stays shown as unreachable
  (registry.rs:315).
* `record_fault` of a Connect client forgets the probe's last success with
  `try_lock` (client.rs:627). While somebody holds the mutex it stays, so every
  later `ready` answers by it, where the comment wants the next caller to probe.
* An edit of a connector keeps the withheld value read before another edit
  (writer.rs:179). The preview withholds by the keys of the class the edit names,
  the listing by those of the connector's plugin; with no definition at hand both
  go by patterns only, and a key such as `x.aws.access.y` is not known by its
  start.
* A connector of unknown state with failed tasks is Unknown; tasks whose configs
  cannot be read are silently none; `topic_connectors` leaves out workers that do
  not track topics; an empty `?status=` shows no connectors.
* A hard-deleted version registered again under its number keeps its old text
  (subjects.rs:122, "cached forever"). The versions page's card is taken before
  its calls, so a page whose versions could not be read may show a ready card
  (schemas.rs:436). A compatibility call that fails shows as inherited. The
  subject list's numbers are over the names searched for, where a comment says
  they describe the registry (schemas.rs:215–243). A list's row reads the newest
  version only, its page the last that can be read; titles with `-` make the two
  disagree (naming.rs:75).

**Numbers**

* Retention that overtakes the latest end between its read and the earliest's
  makes a count negative or a partition look empty; so does a latest that is read
  before an earliest. A topic without partitions counts none in the list and 0 on
  its page; the logical bytes of a leaderless topic may be 0 where its partitions
  say none; a missing metric sorts as 0. The facts above a topic's grid leave
  out that copies are behind where one partition has a single copy
  (topic-facts.tsx:46–102), which the topic list shows.
* A registry whose answer changes between the two decodes of a record makes the
  filter match something other than what is shown. `OverrideRefused` hides a
  `NonConforming` note.
* Peak rates are below the mean for windows under an hour, and records without
  timestamps count in the mean but in no hour (advice.rs:118–134). A deadline
  noticed after the last record gives a partial result of fraction 1; a capped
  result's fraction is of the offsets, while the bar had come to 1 by the cap.
* Sizing: the quantile's stated error is "about ±4 %" (analysis.rs:11, 38–39,
  147–149, 643), its buckets allow up to 1/16: sizes 16 and 64 have a median told
  as 17 (`WiderThanStated`). The dirty-ratio row always says "Decrease"; advice
  does not look at `retention.bytes` and can bring about the warnings that a segment is larger
  than it or that a compacted tail is never cleaned; `min.insync.replicas` 2 is
  suggested whatever the number of brokers; the overshoot percentage is used as
  a divisor, which is right at 10. HighThroughput's sentence says it could not
  fire when it was picked, Balanced's that nothing else matched when something
  had (advice.rs:558–637). `no_retention_at_all` skips a topic only when both
  keys are absent (lint.rs:233–235); a policy that is not reported reads as
  "delete" (mod.rs:277).

**Access and addresses**

* Comments say that two names of one variable are a startup error
  (config.rs:1264, 1463); the owner is compared without its environment, so
  environments `a-b` and `a_b` with a cluster of the same id share a variable.
  TLS files of a cluster, and a provider's assertion file, are not looked at when
  the configuration is loaded, although registry.rs:342–348 says everything about
  a credential is.
* The audit's line of a read names the cluster's id without its environment
  (auth.rs:65), although one id may be in two environments (config.rs:1419); the
  lines of writes carry both.
* A lifetime of a token that is not told in whole seconds counts as a minute,
  also when less was told (federated.rs:479–490, "about to expire").
* Two roles of one name are accepted, and a session that names them gets both.
  `role_warning` (config.rs:1231) says that nobody sees anything although a role
  may name "anonymous".
* The fleet lists an environment of which only resources are visible
  (dto.rs:480); a lookup needs a visible cluster (registry.rs:655), so its own
  page is a 404, though clusters.rs:135 says the two agree. Clusters the caller
  may not see do not count as readers, so their subjects count as dangling.
  `write_options` offers what `authorize` refuses to somebody anonymous whose
  subject a role names.
* `cluster_configs?resource=topic:x` asks for the view of cluster configs only
  (configs.rs:38–90, against 106–108); `producers?topic=` and the transactions
  likewise, and a group's offsets list topics for who may view the group.
  Transactions with details may show a state the filter left out; quotas are told
  apart by a rendered key.
* The browser's keys of "message" and "offsets" leave the environment out
  (client.ts:495, 633), against client.ts:110–114; after a create only the lists
  are fetched again.

**Deployment**

* A client route whose last segment has a dot, as the page of a topic
  `orders.v1`, is a 404 on a hard refresh (assets.rs:57–63), against
  assets.rs:29–35 and router.tsx:358–361 (`LooksLikeFile`).
* The proxy of the development provider under a stripped prefix forwards paths
  without the prefix the provider expects; `swap_prefix` is textual. Behind a
  proxy that rewrites Host without X-Forwarded-Host, or sends that header as a
  list, the guard of writes refuses the page's own. The policy's hashes are of
  the embedded page, not of the rebased one.

## 6. Not modelled

The modules translate about 31 % of the lines of the implementation, tests and
tooling counted in. What is left out:

* The rendering of single protobuf values and of avro as JSON, HyperLogLog's estimates (a
  guess goes in), descriptions that are passed through as the broker gives them
  (members of groups, brokers, log directories, ACLs).
* Of the configuration: parsing, defaults, the environment overlay, certificate
  files. Whether a file loads is a constant of `ClusterRegistry`.
* Of sizing: the wording and the rows to review.
* Of the schema registry client: token faults, and ids the registry does not
  know. Calls of one Connect client are a course, not processes: that they
  overlap is told by whether the probe's mutex is held.
* Truncation of a log, and overflow of its offsets and of counters of 64 bits.
* axum's own drain and the 10 s backstop after it; start-up, the listener,
  logging. Helm charts, `xtask` and its live tests, which make up a large part of
  the repository's lines and hold no state of the running system. Of the browser
  application rendering, routing and the store's row cap in a stream.
* That a worker, a broker or a provider answers: no scheduler promises it.

## 7. What is next

In this order of what it would show: the schema
client's refusal of unknown ids; overlapping calls of one Connect
client as processes, as `SchemaRegistry` has them; the store's row cap in
`MessageStream`; the resources and tokens of one process composed (a reload that
retires a handle whose token exchange is under way).
