------------------------------ MODULE Connectors ------------------------------
(***************************************************************************)
(* What a page shows of a connector and what its edit form gives back:     *)
(* kaas-ui-connect's redact.rs, model.rs and the preparing half of         *)
(* writer.rs, the pages of routes/connect.rs, and the health of the client *)
(* behind them, client.rs.                                                 *)
(*                                                                         *)
(* A key is a sequence of segments, a value a sequence of tokens, of which *)
(* only those that make a config-provider reference are told apart.  A     *)
(* config maps keys to values, as the worker holds it.                     *)
(***************************************************************************)
EXTENDS Policy, Integers, SequencesExt, FiniteSetsExt

CONSTANTS
  EndingIn,  \* EndingIn[word]: the segments whose text ends in it
  ProbeMin,  \* PROBE_BACKOFF_MIN
  ProbeMax   \* PROBE_BACKOFF_MAX

ASSUME BackoffGrows == ProbeMin \in Nat \ {0} /\ ProbeMax \in Nat /\ ProbeMin <= ProbeMax

\* What a far call answered, or a step that may refuse: [ok, value, fault].
Answer(value) == [ok |-> TRUE, value |-> value, fault |-> Absent]
Fault(kind)   == [ok |-> FALSE, value |-> Absent, fault |-> kind]

Stars    == <<"******">>
Space    == " "
Dollar   == "${"
Brace    == "}"
Colon    == ":"
ClassKey == <<"connector", "class">>
NameKey  == <<"name">>

(***************************************************************************)
(* Redaction                                                               *)
(***************************************************************************)
SecretWords  == {"password", "passphrase", "secret", "token", "key", "credentials", "headers"}
SecretPairs  == {<<"jaas", "config">>, <<"user", "info">>, <<"connection", "uri">>}
SecretStarts == {<<"aws", "access">>, <<"aws", "secret">>, <<"aws", "session">>}

\* "class" ends in none of the words.
ASSUME ClassIsShown == \A word \in SecretWords : "class" \notin EndingIn[word]

BeginsSecret(key) == Len(key) > 2 /\ SubSeq(key, 1, 2) \in SecretStarts

EndsSecret(key) ==
  \/ \E word \in SecretWords : key[Len(key)] \in EndingIn[word]
  \/ Len(key) > 1 /\ SubSeq(key, Len(key) - 1, Len(key)) \in SecretPairs

NamedSecret(key) == BeginsSecret(key) \/ EndsSecret(key)

\* PluginKeys::declares_secret: the key or any suffix of it at a dot.
DeclaresSecret(secrets, key) == \E i \in DOMAIN key : SubSeq(key, i, Len(key)) \in secrets

Trimmed(value) ==
  LET solid == {i \in DOMAIN value : value[i] # Space}
  IN  IF solid = {} THEN <<>> ELSE SubSeq(value, Min(solid), Max(solid))

\* is_provider_reference: ${provider:key}.
IsReference(value) ==
  LET text == Trimmed(value) IN
  /\ Len(text) > 2 /\ text[1] = Dollar /\ text[Len(text)] = Brace
  /\ LET inner == SubSeq(text, 2, Len(text) - 1)
     IN  /\ \A i \in DOMAIN inner : inner[i] # Brace
         /\ \E i \in DOMAIN inner : inner[i] = Colon
         /\ inner[1] # Colon

\* redact, of one key: `secrets` are the plugin's, or Absent when its
\* definition could not be fetched.
Withheld(secrets, key, value) ==
  /\ ~IsReference(value)
  /\ NamedSecret(key) \/ (secrets # Absent /\ DeclaresSecret(secrets, key))

\* ConnectClient::plugin_keys, of the class a config names.
SecretsFor(definitions, config) ==
  IF ClassKey \in DOMAIN config /\ config[ClassKey] \in DOMAIN definitions
  THEN definitions[config[ClassKey]] ELSE Absent

\* ConnectClient::redacted, and what the edit form is filled with.
Redacted(definitions, config) ==
  LET secrets == SecretsFor(definitions, config)
  IN  [key \in DOMAIN config |-> IF Withheld(secrets, key, config[key]) THEN Stars ELSE config[key]]

\* ConnectClient::connector: three reads of which the last, of the tasks, may fail;
\* the tasks' configs are redacted by what the connector's class declares.
ConnectorPage(definitions, config, tasks) ==
  LET secrets == SecretsFor(definitions, config)
      hidden(task) == [key \in DOMAIN task |-> IF Withheld(secrets, key, task[key]) THEN Stars ELSE task[key]]
  IN  [ config |-> Redacted(definitions, config),
        tasks  |-> IF tasks.ok THEN [id \in DOMAIN tasks.value |-> hidden(tasks.value[id])] ELSE <<>> ]

(***************************************************************************)
(* The edit form and what is sent                                          *)
(***************************************************************************)
Edited(form, edits, removed) ==
  [key \in (DOMAIN form \cup DOMAIN edits) \ removed |->
     IF key \in DOMAIN edits THEN edits[key] ELSE form[key]]

\* check_name
NamesAnother(name, config) == NameKey \in DOMAIN config /\ config[NameKey] # name

\* ConnectWriter::prepare_edit, of the config the worker holds when it is called.
PrepareEdit(name, current, submitted) ==
  LET kept   == {key \in DOMAIN submitted : submitted[key] = Stars}
      config == [key \in DOMAIN submitted |-> IF key \in kept THEN current[key] ELSE submitted[key]]
  IN  IF ~(kept \subseteq DOMAIN current) \/ NamesAnother(name, config) THEN Fault("invalid") ELSE Answer(config)

PrepareCreate(name, submitted) ==
  IF \/ \E key \in DOMAIN submitted : submitted[key] = Stars
     \/ ClassKey \notin DOMAIN submitted
     \/ NamesAnother(name, submitted)
  THEN Fault("invalid") ELSE Answer(submitted)

(***************************************************************************)
(* The status of a connector                                               *)
(***************************************************************************)
\* The first of <<condition, answer>> whose condition holds.
FirstOf(cases) == cases[Min({i \in DOMAIN cases : cases[i][1]})][2]

\* ConnectorStatus::derive, of the states of a connector and of its tasks.
Derive(state, tasks) ==
  LET some(s)  == \E i \in DOMAIN tasks : tasks[i] = s
      every(s) == \A i \in DOMAIN tasks : tasks[i] = s
  IN  FirstOf(<<
        <<state = "FAILED",                            "failed">>,
        <<state = "PAUSED",                            "paused">>,
        <<state = "STOPPED",                           "stopped">>,
        <<tasks # <<>> /\ every("FAILED"),             "failed">>,
        <<state = "RESTARTING" \/ some("RESTARTING"),  "restarting">>,
        <<state = "UNASSIGNED" \/ some("UNASSIGNED"),  "unassigned">>,
        <<state = "RUNNING" /\ tasks = <<>>,           "noTasks">>,
        <<state = "RUNNING" /\ some("FAILED"),         "degraded">>,
        <<state = "RUNNING" /\ every("RUNNING"),       "running">>,
        <<TRUE,                                        "unknown">> >>)

\* ConnectorSummary::of: a connector as the worker describes it, a row.
RowOf(connector) ==
  LET counted(s) == Cardinality({i \in DOMAIN connector.tasks : connector.tasks[i] = s})
      kind == IF connector.kind # Absent THEN connector.kind ELSE connector.infoKind
  IN  [ name    |-> connector.name,
        kind    |-> IF kind \in {"source", "sink"} THEN kind ELSE "unknown",
        status  |-> Derive(connector.state, connector.tasks),
        running |-> counted("RUNNING"),
        failed  |-> counted("FAILED"),
        group   |-> IF kind # "sink" THEN Absent
                    ELSE IF connector.override # Absent THEN connector.override
                    ELSE <<"connect", connector.name>> ]

Tallied == {"running", "degraded", "failed", "paused", "stopped"}

\* ConnectorCounts::of
Counts(rows) ==
  [status \in Tallied \cup {"other"} |->
     Cardinality({i \in DOMAIN rows : IF status = "other" THEN rows[i].status \notin Tallied
                                      ELSE rows[i].status = status})]

\* connectors: the table, narrowed; the needle is the set of connectors whose
\* name or class it is found in.
Table(rows, needle, statuses, kind) ==
  SelectSeq(rows, LAMBDA row :
    /\ needle = Absent \/ row.name \in needle
    /\ statuses = Absent \/ row.status \in statuses
    /\ kind = Absent \/ row.kind = kind)

(***************************************************************************)
(* The pages                                                               *)
(***************************************************************************)
Unless(answer, resource) == IF answer.ok THEN {} ELSE {resource}

\* check_kafka_cluster: expected as this caller may know it.
KafkaCheck(reference, expected, actual) ==
  IF reference = Absent THEN "notConfigured"
  ELSE IF Absent \in {expected, actual} THEN "unverified"
  ELSE IF expected = actual THEN "verified" ELSE "mismatch"

\* detail: the header, which asks for the rest only when the workers answer.
Header(workers, connectors, plugins, reference, expected) ==
  LET asks == workers.ok
  IN  [ counts  |-> IF asks /\ connectors.ok THEN Counts(connectors.value) ELSE Absent,
        plugins |-> IF asks /\ plugins.ok THEN plugins.value ELSE Absent,
        check   |-> KafkaCheck(reference, expected, workers.value),
        errors  |-> Unless(workers, "workers")
                    \cup (IF asks THEN Unless(connectors, "connectors") \cup Unless(plugins, "plugins") ELSE {}) ]

\* connector (split): a value, an absence, or an error of that name.
Split(answer, resource) ==
  [ value  |-> answer.value,
    absent |-> answer.fault = "absent",
    errors |-> IF answer.fault = "absent" THEN {} ELSE Unless(answer, resource) ]

\* topic_connectors: for each attached Connect cluster what listing it answered,
\* and for each connector listed what its topics did.
TopicConnectors(hosts, topic) ==
  [ connectors |-> UNION {{<<host.id, name>> : name \in {n \in host.listed.value :
                              host.topics[n].ok /\ topic \in host.topics[n].value}}
                          : host \in {h \in hosts : h.listed.ok}},
    errors     |-> {<<host.id>> : host \in {h \in hosts : ~h.listed.ok}}
                   \cup UNION {{<<host.id, name>> : name \in {n \in host.listed.value :
                                    ~host.topics[n].ok /\ host.topics[n].fault # "absent"}}
                               : host \in {h \in hosts : h.listed.ok}} ]

(***************************************************************************)
(* The client: ConnectClient's health and its probe                        *)
(*                                                                         *)
(* A client is [health, since, outcome, at, attempts], where outcome, at   *)
(* and attempts are the Probe's.  A call of it is [probe, ends, held,      *)
(* after]: what GET / would answer, how the call's own request ends,       *)
(* whether somebody has the probe's mutex when its fault is recorded, and  *)
(* how long after the last call it is made.  A write's probe is Absent: it *)
(* is sent without one.                                                    *)
(***************************************************************************)
Heeded == "answered"
Down     == {"unreachable", "misconfigured"}

NewClient == [health |-> "unprobed", since |-> 0, outcome |-> Absent, at |-> 0, attempts |-> 0]

\* record_fault: the probe is told only if its mutex is free.
RecordFault(client, fault, held, now) ==
  [ client EXCEPT !.health  = IF fault \in {"refused", "misconfigured"} THEN "misconfigured" ELSE "unreachable",
                  !.since   = IF client.health \in Down THEN @ ELSE now,
                  !.outcome = IF ~held /\ @ = Heeded THEN Absent ELSE @ ]

\* get_json, fault_of and unreachable: an outage and a refusal are recorded.
Heard(client, ends, held, now) ==
  IF ends \in {"unreachable", "refused"} THEN RecordFault(client, ends, held, now) ELSE client

\* backoff
Backoff(attempts) == Min({ProbeMax, ProbeMin * 2 ^ Min({attempts - 1, 6})})

ProbeDue(client) == IF client.outcome \in {"unreachable", "rebalancing"} THEN Backoff(client.attempts) ELSE ProbeMax

\* ready: how it answers.
ReadyBy(client, now) ==
  IF client.health = "ready" \/ client.outcome = Heeded THEN "trust"
  ELSE IF client.outcome # Absent /\ now - client.at < ProbeDue(client) THEN "rest" ELSE "probe"

\* ready, where it asks: the mutex is held all along.
Probed(client, answer, now) ==
  LET asked == Heard(client, answer, TRUE, now)
      told  == IF answer = Heeded THEN [asked EXCEPT !.health = "ready", !.since = now, !.attempts = 0]
               ELSE [RecordFault(asked, answer, TRUE, now) EXCEPT !.attempts = @ + 1]
  IN  [told EXCEPT !.outcome = answer, !.at = now]

\* One call, and what came of it.
Called(client, call, now) ==
  LET way     == IF call.probe = Absent THEN "send" ELSE ReadyBy(client, now)
      asked   == IF way = "probe" THEN Probed(client, call.probe, now) ELSE client
      through == way \in {"send", "trust"} \/ (way = "probe" /\ call.probe = Heeded)
  IN  [ client  |-> IF through THEN Heard(asked, call.ends, call.held, now) ELSE asked,
        way     |-> way,
        served  |-> through /\ call.ends = Heeded,
        crossed |-> through /\ call.ends \in {"unreachable", "refused"} /\ call.held,
        now     |-> now ]

\* The calls of a client, one after another: steps[1] is the client that is new.
Course(calls) ==
  FoldLeft(LAMBDA steps, call : Append(steps, Called(Last(steps).client, call, Last(steps).now + call.after)),
           <<[client |-> NewClient, way |-> "new", served |-> FALSE, crossed |-> FALSE, now |-> 0]>>, calls)

(***************************************************************************)
(* What they promise                                                       *)
(***************************************************************************)
\* A prefix is no disguise: what is withheld under a key is withheld under any
\* key that ends in it, and knowing the plugin only withholds more.  (The cloud
\* names that begin with the secret are the exception.)  What is shown as a
\* pointer is one pointer and nothing beside it.
PrefixHidesNothing(secrets, prefix, key, value) ==
  /\ Withheld(secrets, key, value) =>
       /\ (BeginsSecret(key) /\ ~EndsSecret(key)) \/ Withheld(secrets, prefix \o key, value)
       /\ secrets = Absent => \A more \in SUBSET {key, prefix} : Withheld(more, key, value)
  /\ NamedSecret(key) /\ ~Withheld(secrets, key, value) =>
       Cardinality({i \in DOMAIN value : value[i] = Brace}) = 1

\* A secret is withheld wherever its page shows it: the worker hands a connector's
\* config on to its tasks, and a task that says the same under the same key is
\* shown the same, though it names no class.
TasksHideNoLess(definitions, config, own) ==
  LET handed == [key \in DOMAIN config \ {ClassKey} |-> config[key]]
      page   == ConnectorPage(definitions, config, Answer(<<handed, own>>))
  IN  /\ \A key \in DOMAIN handed : page.tasks[1][key] = page.config[key]
      /\ \A key \in DOMAIN config \cap DOMAIN own :
           page.config[key] = Stars /\ config[key] # Stars => page.tasks[2][key] = Stars \/ IsReference(own[key])
      /\ ConnectorPage(definitions, config, Fault("unreachable")).config = page.config

\* An edit changes what was edited: whatever the form left alone is sent as the
\* worker has it where it was withheld and as it was read where it was not, the
\* placeholder itself is sent only where the worker holds it, and a submission
\* is declined only for a value that is gone or another connector's name.  What
\* the preview shows of an untouched key gives away nothing the read withheld.  A
\* form that would make a connector of its own makes what the edit would send.
EditIsExact(definitions, name, read, current, edits, removed) ==
  LET form      == Redacted(definitions, read)
      submitted == Edited(form, edits, removed)
      edit      == PrepareEdit(name, current, submitted)
      sent      == edit.value
      untouched == DOMAIN form \ (DOMAIN edits \cup removed)
      preview   == Redacted(definitions, sent)
      copied    == PrepareCreate(name, submitted)
  IN  /\ copied.ok => copied = edit
      /\ ~copied.ok => \/ ~edit.ok \/ ClassKey \notin DOMAIN submitted
                       \/ \E key \in DOMAIN submitted : submitted[key] = Stars
      /\ IF ~edit.ok
         THEN \/ \E key \in DOMAIN submitted : submitted[key] = Stars /\ key \notin DOMAIN current
              \/ NameKey \in DOMAIN edits /\ edits[NameKey] # name
         ELSE /\ DOMAIN sent = (DOMAIN read \cup DOMAIN edits) \ removed
              /\ \A key \in untouched :
                   sent[key] = IF form[key] = Stars THEN current[key] ELSE read[key]
              /\ \A key \in DOMAIN sent :
                   /\ sent[key] = Stars => key \in DOMAIN current /\ current[key] = Stars
                   /\ key \in DOMAIN edits /\ edits[key] # Stars => sent[key] = edits[key]
              /\ ClassKey \in untouched =>
                   \A key \in untouched :
                     form[key] = Stars => Stars \in {preview[key], read[key]} \/ IsReference(current[key])

\* The states a task of a running connector takes, and a connector takes.
Moving   == {"RUNNING", "FAILED", "RESTARTING", "UNASSIGNED"}
Stated == Moving \cup {"PAUSED", "STOPPED"}

\* The fold says what the worker said: running means that every one of some tasks
\* runs, paused and stopped are chosen and never a failure, a failed task of a
\* running connector is never lost, a failure is somebody's and total only when
\* it is everybody's, what the worker says in words the fold knows has a name, and
\* a task that is put right makes nothing worse.
StatusIsHonest(state, tasks) ==
  LET status   == Derive(state, tasks)
      failing  == {"failed", "degraded"}
      failures == {i \in DOMAIN tasks : tasks[i] = "FAILED"}
  IN  /\ status = "running" => state = "RUNNING" /\ {tasks[i] : i \in DOMAIN tasks} = {"RUNNING"}
      /\ status = "paused" <=> state = "PAUSED"
      /\ status = "stopped" <=> state = "STOPPED"
      /\ state = "RUNNING" /\ failures # {} => status \in failing \cup {"restarting", "unassigned"}
      /\ status \in failing => state = "FAILED" \/ failures # {}
      /\ status = "failed" => state = "FAILED" \/ failures = DOMAIN tasks
      /\ status = "unknown" => \/ state \notin Stated
                               \/ \E i \in DOMAIN tasks : tasks[i] \notin Moving
      /\ \A i \in failures :
           Derive(state, [tasks EXCEPT ![i] = "RUNNING"]) \in failing => status \in failing
      /\ Derive(state, Reverse(tasks)) = status

\* The header's counts and the table agree: each status counts the rows that a
\* table of it shows, and every row is counted once.
CountsAgree(connectors) ==
  LET rows   == [i \in DOMAIN connectors |-> RowOf(connectors[i])]
      counts == Counts(rows)
      shown(statuses) == Len(Table(rows, Absent, statuses, Absent))
      others == {row.status : row \in {rows[i] : i \in DOMAIN rows}} \ Tallied
  IN  /\ \A status \in Tallied : counts[status] = shown({status})
      /\ counts["other"] = shown(others)
      /\ shown(Tallied \cup others) = Len(rows)
      /\ \A i \in DOMAIN rows : rows[i].running + rows[i].failed <= Len(connectors[i].tasks)

\* What a header leaves out is named, the reference is called wrong only by two
\* ids that are known, and what only enriches a connector's page is there, is
\* absent by the worker's design or is named: one of the three.
HeaderIsWhole(workers, connectors, plugins, reference, expected, topics) ==
  LET header == Header(workers, connectors, plugins, reference, expected)
  IN  /\ header.counts = Absent => header.errors \cap {"workers", "connectors"} # {}
      /\ header.plugins = Absent => header.errors \cap {"workers", "plugins"} # {}
      /\ header.errors = {} => workers.ok /\ connectors.ok /\ plugins.ok
      /\ header.check = "mismatch" => Absent \notin {reference, expected, workers.value}
      /\ LET part == Split(topics, "topics")
         IN  {part.value # Absent, part.absent, part.errors # {}} = BOOLEAN
             /\ (part.absent => part.value = Absent /\ part.errors = {})
             /\ (part.errors # {} => part.value = Absent)

\* A topic's connectors are all there or the gap is named, but for the workers
\* that do not track topics; and none is there that did not use the topic.
UsersAreWhole(hosts, topic) ==
  LET page == TopicConnectors(hosts, topic)
  IN  \A host \in hosts : \A name \in DOMAIN host.used :
        /\ topic \in host.used[name] =>
             \/ <<host.id, name>> \in page.connectors
             \/ {<<host.id>>, <<host.id, name>>} \cap page.errors # {}
             \/ host.topics[name].fault = "absent"
        /\ <<host.id, name>> \in page.connectors => topic \in host.used[name]

\* A client's health is what was heard last: an outage or a refusal shows, a page is
\* served only by a client that says it is ready, and one that says it is not asks
\* again before it serves a page.
\* (A fault that is recorded while somebody has the probe's mutex is the exception:
\* the probe goes on trusting its answer, and the health stays as it is, until
\* another fault finds the mutex free.)  An
\* outage began where the health says it did.  However many pages ask, two probes
\* that fail stand as far apart as the backoff of those that failed before.
ClientIsHonest(calls) ==
  \A steps \in {Course(calls)} :
    LET made == 2 .. Len(steps)
        health(i)  == steps[i].client.health
        told(i)    == /\ steps[i].way \in {"send", "trust"} \/ (steps[i].way = "probe" /\ calls[i - 1].probe = Heeded)
                      /\ calls[i - 1].ends \in {"unreachable", "refused"} /\ ~calls[i - 1].held
        crossed(i) == \E j \in 2 .. i : steps[j].crossed /\ \A k \in j + 1 .. i : ~told(k)
        page(i)    == calls[i - 1].probe # Absent
        answers(i) == steps[i].way = "probe" /\ calls[i - 1].probe = Heeded
        fails(i)   == steps[i].way = "probe" /\ calls[i - 1].probe # Heeded
        began(i)   == health(i - 1) \notin Down \/ answers(i)
        row(i)     == {j \in 2 .. i : fails(j) /\ \A k \in j .. i : ~answers(k)}
    IN  /\ \A i \in made :
             /\ steps[i].served /\ page(i) => health(i) = "ready" \/ crossed(i)
             /\ health(i - 1) # "ready" /\ page(i) /\ steps[i].served => steps[i].way = "probe" \/ crossed(i - 1)
             /\ ~steps[i].served /\ (fails(i) \/ (steps[i].way # "rest" /\ calls[i - 1].ends \in {"unreachable", "refused"})) =>
                  health(i) \in Down
             /\ health(i) \in Down => steps[i].client.since = steps[Max({j \in 2 .. i : began(j)})].now
        /\ \A i, j \in made :
             i < j /\ fails(i) /\ steps[j].way = "probe" =>
               steps[j].now - steps[i].now >=
                 IF calls[i - 1].probe \in {"unreachable", "rebalancing"}
                 THEN Min({ProbeMax, ProbeMin * 2 ^ (Cardinality(row(i)) - 1)}) ELSE ProbeMax
=============================================================================
