------------------------------- MODULE Requests -------------------------------
(***************************************************************************)
(* One request from its address to its answer: the router of               *)
(* kaas-ui-api's lib.rs, the addresses client.ts asks and the keys it      *)
(* caches the answers under, and the handlers of routes/ that neither scan *)
(* nor stream: what each asks for before it answers, in which order, which *)
(* calls its answer can do without, and what it says of those that failed. *)
(*                                                                         *)
(* A request is [access, env, id, name, up, outcomes, brokers, groups,     *)
(* asked]: who asks for what, the clusters that are connected, how each    *)
(* call would end (Done or an error of Answers), what the cluster holds,   *)
(* and the query, [broker, specs, details, extras, limit], where limit is  *)
(* whether what a tail asks for can be read.  An answer is [reply, items,  *)
(* notes, nudged]; what a call says of each resource apart is Answers's    *)
(* PerItem.  A path is a sequence of segments.                             *)
(***************************************************************************)
EXTENDS FleetPage, Answers

CONSTANT Done   \* how a call ends that answers

(***************************************************************************)
(* Replies: ApiError's constructors                                        *)
(***************************************************************************)
Fine              == ReplyWith(200, "none", FALSE)
DeniedReply       == ReplyWith(403, "authorization", FALSE)
IntentUnrecorded  == ReplyWith(500, "none", TRUE)
OutcomeUnrecorded == ReplyWith(500, "none", FALSE)
NotFoundReply     == ReplyWith(404, "none", FALSE)
ForbiddenReply    == ReplyWith(403, "none", FALSE)
AuditFailed       == ReplyWith(500, "none", TRUE)
NotConnected      == ReplyWith(503, "transport", TRUE)
BadRequest        == ReplyWith(400, "invalid", FALSE)

\* `?`: the first refusal is the answer.
FirstRefusal(checks) ==
  LET refused == {i \in DOMAIN checks : checks[i] # Fine}
  IN  IF refused = {} THEN Fine ELSE checks[Min(refused)]

Unless400(condition) == IF condition THEN Fine ELSE BadRequest

(***************************************************************************)
(* What a handler asks for                                                 *)
(***************************************************************************)
Seen(r) == ClusterFor(r.access, r.env, r.id)

\* AppState::connected: the lookup, then a connection, for which nobody waits.
Connected(r) ==
  IF Seen(r) = {} THEN NotFoundReply ELSE IF Seen(r) \subseteq r.up THEN Fine ELSE NotConnected

\* Looking at a cluster that is not connected makes it try again now.
NudgedBy(r) == Seen(r) \ r.up

\* Caller::require, of a cluster that was found.
Require(r, resource, action, name) ==
  IF \E cluster \in Seen(r) : May(r.access, cluster, resource, action, name) THEN Fine ELSE ForbiddenReply

ViewConfig(r) == Require(r, "cluster_config", "view", Absent)

\* A call the answer is made of.
Must(r, called) == IF r.outcomes[called] = Done THEN Fine ELSE CallReply(r.outcomes[called])

Failing(r, calls) == {called \in calls : r.outcomes[called] # Done}

\* Calls the answer can do without: each that failed is a note.
NotesOf(r, calls) == {<<called, CallNote(r.outcomes[called])>> : called \in Failing(r, calls)}

\* A handler of a cluster's address: connected, then its own checks, then the
\* answer.
OnCluster(r, checks, items, notes) ==
  LET reply == FirstRefusal(<<Connected(r)>> \o checks)
  IN  [ reply  |-> reply,
        items  |-> IF reply = Fine THEN items ELSE {},
        notes  |-> IF reply = Fine THEN notes ELSE {},
        nudged |-> NudgedBy(r) ]

(***************************************************************************)
(* Clusters and their brokers                                              *)
(***************************************************************************)
\* Broker::list and enrich, of brokers [node -> [leads, fenced, controller,
\* describedController, connects, session]]: what describe_cluster adds where
\* it answers.
BrokerRow(r, node) ==
  LET broker    == r.brokers[node]
      described == r.outcomes["describe_cluster"] = Done
  IN  [ node       |-> node,
        leads      |-> broker.leads,
        fenced     |-> IF described THEN broker.fenced ELSE Unknown,
        controller |-> IF described THEN broker.describedController ELSE broker.controller ]

BrokerRows(r) == {BrokerRow(r, node) : node \in DOMAIN r.brokers}

ClusterDetail(r) ==
  OnCluster(r, <<ViewConfig(r)>>,
            {<<"card", Card(r.access, cluster)>> : cluster \in Seen(r)} \cup {<<"broker", row>> : row \in BrokerRows(r)},
            NotesOf(r, {"describe_cluster"}))

BrokerList(r) == OnCluster(r, <<ViewConfig(r)>>, BrokerRows(r), NotesOf(r, {"describe_cluster"}))

LogDirs(r) == OnCluster(r, <<ViewConfig(r), Must(r, "describe_log_dirs")>>, {"dirs"}, {})

\* tls: each broker is dialled on its own and is a row or a note.
Undecodable == "undecodable"

TlsPanel(r) ==
  LET dialled == {node \in DOMAIN r.brokers : r.brokers[node].connects = Done}
      broken  == {node \in dialled : r.brokers[node].session = Undecodable}
  IN  OnCluster(r, <<ViewConfig(r)>>,
        {[node |-> node, session |-> r.brokers[node].session] : node \in dialled \ broken},
        {<<node, CallNote(r.brokers[node].connects)>> : node \in DOMAIN r.brokers \ dialled}
          \cup {<<node, [kind |-> "decode", retriable |-> FALSE]>> : node \in broken})

\* capabilities: of the broker that was asked for, or of the lowest.
AskedBroker(r) ==
  IF r.asked.broker # Absent THEN r.asked.broker ELSE IF DOMAIN r.brokers = {} THEN Unknown ELSE Min(DOMAIN r.brokers)

CapabilitiesOf(r) ==
  LET node    == AskedBroker(r)
      exists  == IF r.asked.broker \in {Absent} \cup DOMAIN r.brokers THEN Fine ELSE NotFoundReply
      ends    == IF node \in DOMAIN r.brokers THEN r.brokers[node].connects ELSE r.outcomes["connect"]
  IN  OnCluster(r, <<ViewConfig(r), exists, IF ends = Done THEN Fine ELSE CallReply(ends)>>, {node}, {})

(***************************************************************************)
(* Configurations, groups, and the admin lists                             *)
(***************************************************************************)
\* parse_resource
ParseResource(spec) ==
  Unless400(spec.kind \in {"topic", "group"} \/ (spec.kind = "broker" /\ spec.numeric))

\* describe: its entries, and the resources that were refused by name.
ConfigsOf(r, checks, resources) ==
  OnCluster(r, checks \o <<Must(r, "describe_configs")>>, resources, {})

\* cluster_configs: of the resources named, or of every broker.
ClusterConfigs(r) ==
  LET specs == IF r.asked.specs = Absent THEN <<>> ELSE r.asked.specs
      named == {<<specs[i].kind, specs[i].name>> : i \in DOMAIN specs}
      whole == {<<"broker", node>> : node \in DOMAIN r.brokers}
      wanted == IF r.asked.specs = Absent THEN whole ELSE named
  IN  ConfigsOf(r, <<ViewConfig(r)>> \o [i \in DOMAIN specs |-> ParseResource(specs[i])] \o <<Unless400(wanted # {})>>, wanted)

TopicConfigs(r) ==
  ConfigsOf(r, <<ViewConfig(r), Require(r, "topic", "view", r.name)>>, {<<"topic", r.name>>})

\* groups: some group may be viewed, and then those that may.
GroupList(r) ==
  OnCluster(r, <<Require(r, "consumer", "view", Absent), Must(r, "list_groups")>>,
            {group \in r.groups : Require(r, "consumer", "view", group) = Fine}, {})

GroupDetail(r) ==
  OnCluster(r, <<Require(r, "consumer", "view", r.name), Must(r, "describe_groups")>>, {r.name}, {})

\* ends: either end that is not told is left out, and nobody is told so.
LogEnds     == {"list_offsets(latest)", "list_offsets(earliest)"}
EndsTold(r) == LogEnds \ Failing(r, LogEnds)

GroupOffsets(r) ==
  OnCluster(r, <<Require(r, "consumer", "view", r.name), Must(r, "fetch_offsets")>>, {<<r.name, EndsTold(r)>>}, {})

Acls(r)          == OnCluster(r, <<ViewConfig(r), Must(r, "describe_acls")>>, {"acls"}, {})
ScramUsers(r)    == OnCluster(r, <<ViewConfig(r), Must(r, "describe_scram_credentials")>>, {"users"}, {})
Reassignments(r) == OnCluster(r, <<ViewConfig(r), Must(r, "list_partition_reassignments")>>, {"moving"}, {})

\* transactions: the second call is made only for details, and of something.
TransactionList(r) ==
  OnCluster(r, <<ViewConfig(r), Must(r, "list_transactions"),
                 IF r.asked.details /\ r.groups # {} THEN Must(r, "describe_transactions") ELSE Fine>>, r.groups, {})

TransactionDetail(r) == OnCluster(r, <<ViewConfig(r), Must(r, "describe_transactions")>>, {r.name}, {})

(***************************************************************************)
(* Topics and messages                                                     *)
(***************************************************************************)
\* detail: the offsets and the size are each asked for by the query.
TopicDetail(r) ==
  LET extras == (IF "offsets" \in r.asked.extras THEN LogEnds ELSE {})
                  \cup (IF "size" \in r.asked.extras THEN {"topic_sizes"} ELSE {})
  IN  OnCluster(r, <<Require(r, "topic", "view", r.name), Must(r, "describe_topics")>>, {r.name}, NotesOf(r, extras))

\* tail: the payloads are read, the reading is recorded, and only then they leave.
MessageTail(r) ==
  OnCluster(r, <<Require(r, "topic", "messages_read", r.name), Unless400(r.asked.limit), Must(r, "tail"),
                 IF r.outcomes["audit"] = Done THEN Fine ELSE AuditFailed>>, {r.name}, {})

(***************************************************************************)
(* Kafka Connect                                                           *)
(***************************************************************************)
\* The handlers of a Connect cluster's address ask the workers: of a request
\* [access, who, env, id, name, faults, ...], where faults says how each call
\* would end.
OnConnect(r, checks, items, notes) ==
  LET found == IF ConnectFor(r.access, r.env, r.id) = {} THEN NotFoundReply ELSE Fine
      reply == FirstRefusal(<<found>> \o checks)
  IN  [reply |-> reply, items |-> IF reply = Fine THEN items ELSE {}, notes |-> IF reply = Fine THEN notes ELSE {}]

Asking(r, called) == IF r.faults[called] = Done THEN Fine ELSE FaultReply(r.faults[called])

\* connector and split: what the worker does not track is left out with its
\* reason, what it failed to tell is a note.
ConnectorDetail(r) ==
  LET extras == {"topics", "offsets"}
      failed == {called \in extras : r.faults[called] \notin {Done, "absent"}}
  IN  OnConnect(r, <<Asking(r, "connector")>>,
        {<<r.name, "told">>} \cup {<<called, IF r.faults[called] = Done THEN "told" ELSE "absent">> : called \in extras \ failed},
        {<<called, FaultNote(r.faults[called])>> : called \in failed})

PluginList(r) == OnConnect(r, <<Asking(r, "plugins")>>, {"plugins"}, {})

\* operation_of: the last segment of a write's address.
SegmentOf == [ restart |-> "restart", pause |-> "pause", resume |-> "resume", stop |-> "stop",
               reset_topics |-> "reset-topics", edit |-> "edit", delete |-> "delete",
               reset_offsets |-> "reset-offsets", alter_offsets |-> "alter-offsets" ]

OperationOf(segment) == {operation \in DOMAIN SegmentOf : SegmentOf[operation] = segment}

Destroys(operation) == operation \in {"delete", "reset_offsets", "alter_offsets"}

\* perform, of a write [access, who, env, id, name, operation, confirmed, dryRun,
\* config, offsets, recorded, faults]: what is asked of it before anything is
\* recorded, the intent, the change, and the outcome.
PreparesConfig(operation) == operation \in {"edit", "create"}

Gate(w) ==
  LET found == ConnectFor(w.access, w.env, w.id)
  IN  IF \E connect \in found : Authorize(w.access, w.who, w.operation, Target(connect, w.name), connect.ceiling) = "granted"
      THEN Fine ELSE IF found = {} THEN NotFoundReply ELSE DeniedReply

WriteChecks(w) ==
  << Gate(w),
     Unless400(Destroys(w.operation) => w.confirmed),
     Unless400(w.dryRun => PreparesConfig(w.operation)),
     Unless400(w.operation = "alter_offsets" => w.offsets),
     Unless400(PreparesConfig(w.operation) => w.config),
     IF PreparesConfig(w.operation) THEN Asking(w, "prepare") ELSE Fine >>

Perform(w) ==
  LET refused == FirstRefusal(WriteChecks(w))
      sent    == refused = Fine /\ ~w.dryRun /\ "intent" \in w.recorded
  IN  [ sent  |-> sent,
        reply |-> IF refused # Fine THEN refused
                  ELSE IF w.dryRun THEN Asking(w, "validate")
                  ELSE IF ~sent THEN IntentUnrecorded
                  ELSE IF "outcome" \notin w.recorded THEN OutcomeUnrecorded
                  ELSE Asking(w, "change") ]

\* write, write_task and create: the operation is the address's, a task is only
\* restarted, and a connector that is to be made needs a name.
Refusing(reply) == [sent |-> FALSE, reply |-> reply]

WriteAt(w, segment) ==
  IF OperationOf(segment) = {} THEN Refusing(NotFoundReply)
  ELSE Perform([w EXCEPT !.operation = CHOOSE operation \in OperationOf(segment) : TRUE])

WriteTask(w) == Perform([w EXCEPT !.operation = "restart_task", !.confirmed = FALSE, !.dryRun = FALSE])

CreateAt(w, blank) ==
  IF blank THEN Refusing(BadRequest)
  ELSE Perform([w EXCEPT !.operation = "create", !.confirmed = FALSE, !.config = TRUE])

(***************************************************************************)
(* The router                                                              *)
(***************************************************************************)
Parameters == {"{env}", "{id}", "{connect}", "{registry}", "{topic}", "{group}", "{txn}", "{node}", "{partition}",
               "{offset}", "{subject}", "{name}", "{operation}", "{task}"}

Gets(below, routes) == {<<"GET", below \o route[1], route[2]>> : route \in routes}

OfEnvironment == <<"api", "environments", "{env}">>
OfCluster     == OfEnvironment \o <<"clusters", "{id}">>
OfTopic       == OfCluster \o <<"topics", "{topic}">>
OfConnect     == OfEnvironment \o <<"connect-clusters", "{connect}">>
OfConnector   == OfConnect \o <<"connectors", "{name}">>
OfSubjects    == OfEnvironment \o <<"schema-registries", "{registry}", "subjects">>

\* api_router, of the environments and their clusters.
ClusterRoutes ==
  Gets(<<"api">>, { <<<<"openapi.json">>, "spec">>, <<<<"me">>, "me">>, <<<<"environments">>, "fleet">> })
  \cup Gets(OfEnvironment, {<<<<>>, "environment">>, <<<<"clusters">>, "list">>})
  \cup Gets(OfCluster,
         { <<<<>>, "detail">>, <<<<"capabilities">>, "capabilities">>, <<<<"brokers">>, "brokers">>,
           <<<<"brokers", "{node}", "log-dirs">>, "log_dirs">>, <<<<"tls">>, "tls">>, <<<<"configs">>, "cluster_configs">>,
           <<<<"topics">>, "topics">>, <<<<"groups">>, "groups">>, <<<<"groups", "{group}">>, "group">>,
           <<<<"groups", "{group}", "offsets">>, "group_offsets">>, <<<<"acls">>, "acls">>, <<<<"quotas">>, "quotas">>,
           <<<<"scram-users">>, "scram_users">>, <<<<"reassignments">>, "reassignments">>,
           <<<<"transactions">>, "transactions">>, <<<<"transactions", "{txn}">>, "transaction">>,
           <<<<"producers">>, "producers">> })
  \cup Gets(OfTopic,
         { <<<<>>, "topic">>, <<<<"configs">>, "topic_configs">>, <<<<"offsets">>, "offsets">>, <<<<"messages">>, "page">>,
           <<<<"messages", "tail">>, "tail">>, <<<<"messages", "stream">>, "stream">>,
           <<<<"messages", "{partition}", "{offset}">>, "one">>, <<<<"analysis">>, "analysis">> })

\* api_router, of what stands beside the clusters.
PeerRoutes ==
  Gets(OfSubjects, {<<<<>>, "subjects">>, <<<<"{subject}", "versions">>, "versions">>})
  \cup Gets(OfTopic, {<<<<"connectors">>, "topic_connectors">>})
  \cup Gets(OfConnect, {<<<<>>, "connect">>, <<<<"connectors">>, "connectors">>, <<<<"plugins">>, "plugins">>})
  \cup Gets(OfConnector, {<<<<>>, "connector">>})
  \cup { <<"POST", OfConnect \o <<"connectors">>, "create">>, <<"POST", OfConnector \o <<"{operation}">>, "write">>,
         <<"POST", OfConnector \o <<"tasks", "{task}", "restart">>, "write_task">> }

Routes == ClusterRoutes \cup PeerRoutes

\* A parameter takes any one segment that is not empty.
Fits(pattern, path) ==
  Len(pattern) = Len(path) /\ \A i \in DOMAIN path : pattern[i] = path[i] \/ (pattern[i] \in Parameters /\ path[i] # "")

HandlersOf(method, path) == {route[3] : route \in {r \in Routes : r[1] = method /\ Fits(r[2], path)}}

(***************************************************************************)
(* What the browser asks: client.ts                                        *)
(***************************************************************************)
\* A call is [method, path, handler, key], of somebody who looks at an
\* environment, a cluster or its peer, and a name in it; the parameters of a list
\* are left out of its path and of its key alike.
EnvironmentBase(at)     == <<"api", "environments", at.env>>
ClusterBase(at)         == EnvironmentBase(at) \o <<"clusters", at.id>>
TopicBase(at)           == ClusterBase(at) \o <<"topics", at.name>>
RegistryBase(at)        == EnvironmentBase(at) \o <<"schema-registries", at.id>>
ConnectBase(at)         == EnvironmentBase(at) \o <<"connect-clusters", at.id>>
ConnectorBase(at)       == ConnectBase(at) \o <<"connectors", at.name>>

Getting(path, handler, key) == [method |-> "GET", path |-> path, handler |-> handler, key |-> key]

\* One query of a cluster, a registry or a Connect cluster: keyed by its name and
\* by the two halves of the address.
Keyed(at, base, query) == Getting(base \o query[1], query[2], <<query[3], at.env, at.id>>)

\* And one of a name there.
KeyedByName(at, base, query) == Getting(base \o query[1], query[2], <<query[3], at.env, at.id, at.name>>)

QueriesOf(at) ==
  { Getting(<<"api", "me">>, "me", <<"me">>), Getting(<<"api", "environments">>, "fleet", <<"fleet">>),
    Getting(EnvironmentBase(at), "environment", <<"environment", at.env>>),
    Getting(EnvironmentBase(at) \o <<"clusters">>, "list", <<"clusters", at.env>>) }
  \cup {Keyed(at, ClusterBase(at), query) : query \in
          { <<<<>>, "detail", "cluster">>, <<<<"capabilities">>, "capabilities", "capabilities">>,
            <<<<"tls">>, "tls", "broker-tls">>, <<<<"topics">>, "topics", "topics">>,
            <<<<"configs">>, "cluster_configs", "cluster-configs">>,
            <<<<"groups">>, "groups", "groups">>, <<<<"acls">>, "acls", "acls">>, <<<<"quotas">>, "quotas", "quotas">>,
            <<<<"scram-users">>, "scram_users", "scram-users">>, <<<<"reassignments">>, "reassignments", "reassignments">>,
            <<<<"transactions">>, "transactions", "transactions">> }}
  \cup {KeyedByName(at, ClusterBase(at), query) : query \in
          { <<<<"groups", at.name>>, "group", "group">>,
            <<<<"groups", at.name, "offsets">>, "group_offsets", "group-offsets">> }}
  \cup {KeyedByName(at, TopicBase(at), query) : query \in
          { <<<<>>, "topic", "topic">>, <<<<"configs">>, "topic_configs", "topic-configs">>,
            <<<<"messages">>, "page", "oldest">>, <<<<"connectors">>, "topic_connectors", "topic-connectors">> }}
  \cup {Keyed(at, RegistryBase(at), <<<<"subjects">>, "subjects", "schemas">>),
        KeyedByName(at, RegistryBase(at), <<<<"subjects", at.name, "versions">>, "versions", "schema">>)}
  \cup {Keyed(at, ConnectBase(at), query) : query \in
          { <<<<>>, "connect", "connect">>, <<<<"connectors">>, "connectors", "connectors">>,
            <<<<"plugins">>, "plugins", "connect-plugins">> }}
  \cup {KeyedByName(at, ConnectorBase(at), <<<<>>, "connector", "connector">>)}

\* useMessageDetail and usePartitionBounds leave the environment out of the key.
HalfKeyed(at) ==
  { Getting(TopicBase(at) \o <<"messages", "0", "5">>, "one", <<"message", at.id, at.name, "0-5">>),
    Getting(TopicBase(at) \o <<"offsets">>, "offsets", <<"offsets", at.id, at.name>>) }

Posting(path, handler, operation) == [method |-> "POST", path |-> path, handler |-> handler, operation |-> operation]

\* CONNECTOR_SEGMENT: the browser's own table.
ConnectorSegment == [ restart |-> "restart", pause |-> "pause", resume |-> "resume", stop |-> "stop",
                      reset_topics |-> "reset-topics", edit |-> "edit", delete |-> "delete",
                      reset_offsets |-> "reset-offsets", alter_offsets |-> "alter-offsets" ]

\* useConnectorWrite and useConnectorCreate
WritesOf(at) ==
  {Posting(ConnectorBase(at) \o <<ConnectorSegment[operation]>>, "write", operation) : operation \in DOMAIN ConnectorSegment}
  \cup { Posting(ConnectorBase(at) \o <<"tasks", "0", "restart">>, "write_task", "restart_task"),
         Posting(ConnectBase(at) \o <<"connectors">>, "create", "create") }

\* onSettled: what is asked again after a write, of which only a dry run's verdict
\* says that it changed nothing; a failure does not.
Refetched(at, operation, answer) ==
  IF answer.reply = Fine /\ ~answer.sent THEN {}
  ELSE {<<"connectors", at.env, at.id>>, <<"connect", at.env, at.id>>}
       \cup IF operation = "create" THEN {} ELSE {<<"connector", at.env, at.id, at.name>>}

(***************************************************************************)
(* What they promise                                                       *)
(***************************************************************************)
ReadPages == {"detail", "brokers", "log_dirs", "tls", "capabilities", "cluster_configs", "topic_configs",
              "groups", "group", "group_offsets", "acls", "scram_users", "reassignments", "transactions",
              "transaction", "topic", "tail"}

AnswerOf(r, page) ==
  CASE page = "detail"             -> ClusterDetail(r)
    [] page = "brokers"            -> BrokerList(r)
    [] page = "log_dirs"           -> LogDirs(r)
    [] page = "tls"                -> TlsPanel(r)
    [] page = "capabilities"       -> CapabilitiesOf(r)
    [] page = "cluster_configs"    -> ClusterConfigs(r)
    [] page = "topic_configs"      -> TopicConfigs(r)
    [] page = "groups"             -> GroupList(r)
    [] page = "group"              -> GroupDetail(r)
    [] page = "group_offsets"      -> GroupOffsets(r)
    [] page = "acls"               -> Acls(r)
    [] page = "scram_users"        -> ScramUsers(r)
    [] page = "reassignments"      -> Reassignments(r)
    [] page = "transactions"       -> TransactionList(r)
    [] page = "transaction"        -> TransactionDetail(r)
    [] page = "topic"              -> TopicDetail(r)
    [] page = "tail"               -> MessageTail(r)

Silence == [kind |-> TimedOut, retriable |-> TRUE]

\* A cluster that is not to be seen answers as one that is not configured, on
\* every page, whatever is connected and however its calls would end, and
\* nothing is dialled for it; one that is seen and not connected answers at once
\* that it is not, and is told to try again, and nothing is shown of it.  A page
\* says of no call that answered that it failed, and what it shows in spite of a
\* failure it does not show as worth another try unless the failure is.  When
\* nothing answers in time no page looks whole, and no payload leaves that was not
\* recorded.  An administrator is refused nothing that a role is shown.
RequestsAreAnswered(r) ==
  LET nowhere == [r EXCEPT !.id = Absent, !.up = {}]
      asAdmin == [r EXCEPT !.access = Admin]
      silent  == [r EXCEPT !.outcomes = [called \in DOMAIN @ |-> Silence],
                           !.brokers  = [node \in DOMAIN @ |-> [@[node] EXCEPT !.connects = Silence]]]
  IN  \A page \in ReadPages : \A answer \in {AnswerOf(r, page)} :
        /\ Seen(r) = {} => answer = AnswerOf(nowhere, page) /\ answer.reply.status = 404
        /\ ~(Seen(r) \subseteq r.up) => answer.reply = NotConnected /\ answer.nudged = Seen(r)
        /\ Seen(r) \subseteq r.up => answer.nudged = {}
        /\ (answer.reply.status = 404 /\ Seen(r) # {}) => page = "capabilities"
        /\ answer.reply # Fine => answer.items = {} /\ answer.notes = {}
        /\ answer.reply = Fine =>
             /\ \A more \in {AnswerOf(asAdmin, page)} :
                  /\ more.reply = Fine /\ more.notes = answer.notes
                  /\ page # "detail" => answer.items \subseteq more.items
             /\ page = "tail" => r.outcomes["audit"] = Done
             /\ \A late \in {AnswerOf(silent, page)} :
                  late.reply # Fine \/ late.notes # {} \/ (page = "tls" /\ DOMAIN r.brokers = {})
        /\ answer.reply.retriable /\ answer.reply.status # 503 =>
             \/ r.outcomes["audit"] # Done
             \/ \E called \in DOMAIN r.outcomes : r.outcomes[called] # Done /\ r.outcomes[called].retriable
             \/ \E node \in DOMAIN r.brokers : r.brokers[node].connects # Done /\ r.brokers[node].connects.retriable
        /\ page # "tls" => \A note \in answer.notes : r.outcomes[note[1]] # Done

\* A list of groups is refused exactly when no group of it may be viewed, where the
\* groups that roles name are there, and otherwise has the groups whose own page is
\* not refused.  A topic's configuration is nothing that the cluster's page hides.
\* The brokers' table is whole whether or not the cluster describes itself, each
\* broker of it is a row of the TLS panel or a note there and never both, and what
\* fails on one broker fails no other.
RowsLeadSomewhere(r) ==
  LET group(g) == GroupDetail([r EXCEPT !.name = g])
      rows(tls)  == {item.node : item \in tls.items}
      notes(tls) == {note[1] : note \in tls.notes}
  IN  \A groups \in {GroupList(r)}, brokers \in {BrokerList(r)}, tls \in {TlsPanel(r)}, configs \in {TopicConfigs(r)} :
        /\ groups.reply = Fine => \A g \in r.groups : g \in groups.items <=> group(g).reply # ForbiddenReply
        /\ r.groups # {} => (groups.reply = ForbiddenReply <=> \A g \in r.groups : group(g).reply = ForbiddenReply)
        /\ brokers.reply = tls.reply
        /\ brokers.reply = Fine =>
             /\ {row.node : row \in brokers.items} = DOMAIN r.brokers
             /\ rows(tls) \cup notes(tls) = DOMAIN r.brokers /\ rows(tls) \cap notes(tls) = {}
             /\ r.outcomes["describe_cluster"] # Done <=> brokers.notes # {}
             /\ TopicDetail(r).reply = Fine /\ r.outcomes["describe_configs"] = Done => configs.reply = Fine
        /\ \A node \in rows(tls) : r.brokers[node].connects = Done
        /\ configs.reply = Fine =>
             ClusterConfigs([r EXCEPT !.asked.specs = <<[kind |-> "topic", name |-> r.name, numeric |-> FALSE]>>]).items
               = configs.items

\* A connector's page stands on the connector alone: whatever its topics and its
\* offsets answer, each of them is on the page, left out for a reason that is no
\* failure, or noted as one, and never two of these; a Connect cluster that is
\* hidden has no pages, whoever answers.
ConnectorsAreTold(r) ==
  LET extras == {"topics", "offsets"}
  IN  \A page \in {ConnectorDetail(r)}, plugins \in {PluginList(r)} :
        /\ ConnectFor(r.access, r.env, r.id) = {} => page.reply = NotFoundReply /\ plugins = page
        /\ page.reply = Fine =>
             \A called \in extras :
               /\ <<called, "told">> \in page.items <=> r.faults[called] = Done
               /\ <<called, "absent">> \in page.items <=> r.faults[called] = "absent"
               /\ called \in {note[1] : note \in page.notes}
                    <=> {<<called, "told">>, <<called, "absent">>} \cap page.items = {}
        /\ \A how \in {Done, "absent", "unreachable"} :
             ConnectorDetail([r EXCEPT !.faults["topics"] = how, !.faults["offsets"] = how]).reply = page.reply
        /\ \A note \in page.notes : note[2].retriable => r.faults[note[1]] \in {"unreachable", "rebalancing"}

\* A write that is refused for what was asked, or because it could not be
\* recorded, was not sent; one that was sent was both authorised and recorded;
\* no answer of a change that was made says that it may be tried again, and what
\* it may have changed is asked again whatever was answered; a dry run changes
\* nothing.  A Connect cluster that is hidden answers as one that is absent,
\* whatever is to be done to it and however that would end.
WritesAreTold(w, segment) ==
  LET hidden  == ConnectFor(w.access, w.env, w.id) = {}
      answers == {WriteAt(w, segment), WriteTask(w), CreateAt(w, FALSE), CreateAt(w, TRUE)}
      nowhere == [w EXCEPT !.id = Absent, !.faults = [called \in DOMAIN w.faults |-> Done], !.recorded = {}]
      made(answer) == answer.sent /\ w.faults["change"] = Done
      at == [env |-> w.env, id |-> w.id, name |-> w.name]
      shown(handlers) == {asked.key : asked \in {q \in QueriesOf(at) : q.handler \in handlers}}
  IN  /\ WriteAt(w, segment).sent =>
           shown({"connect", "connectors", "connector"}) \subseteq Refetched(at, "restart", WriteAt(w, segment))
      /\ CreateAt(w, FALSE).sent => shown({"connect", "connectors"}) \subseteq Refetched(at, "create", CreateAt(w, FALSE))
      /\ hidden => /\ WriteAt(w, segment) = WriteAt(nowhere, segment) /\ WriteTask(w) = WriteTask(nowhere)
                   /\ \A blank \in BOOLEAN : CreateAt(w, blank) = CreateAt(nowhere, blank)
                   /\ \A answer \in answers : ~answer.sent /\ answer.reply \in {NotFoundReply, BadRequest}
                   /\ WriteTask(w).reply = NotFoundReply /\ WriteAt(w, segment).reply = NotFoundReply
      /\ \A answer \in answers :
           /\ made(answer) => ~answer.reply.retriable
           /\ answer.sent => "intent" \in w.recorded
           /\ answer.reply.status \in {400, 403, 404} /\ answer.sent => w.faults["change"] # Done
           /\ answer.reply = Fine => answer.sent \/ w.dryRun
      /\ w.dryRun => ~WriteAt(w, segment).sent
      /\ WriteAt(w, segment).sent =>
           \E connect \in Connects, operation \in OperationOf(segment) :
             /\ <<connect.env, connect.id>> = <<w.env, w.id>> /\ operation \in connect.ceiling
             /\ Destroys(operation) => w.confirmed

\* Every address the browser writes is answered by one handler, the one it was
\* written for, whatever its names are; a write's address reads back as the
\* operation that was pressed, and each operation has one; and what is cached under
\* one key is one address's; the two queries that leave out the environment share
\* theirs with a namesake of another environment at most.
AddressesHold(one, other) ==
  /\ \A asked \in QueriesOf(one) \cup HalfKeyed(one) : HandlersOf("GET", asked.path) = {asked.handler}
  /\ \A asked \in WritesOf(one) :
       /\ HandlersOf("POST", asked.path) = {asked.handler}
       /\ asked.handler = "write" => OperationOf(asked.path[Len(asked.path)]) = {asked.operation}
  /\ {asked.operation : asked \in WritesOf(one)} = Operations
  /\ \A a \in QueriesOf(one), b \in QueriesOf(other) \cup HalfKeyed(other) : a.key = b.key => a.path = b.path
  /\ \A a \in HalfKeyed([one EXCEPT !.env = other.env]), b \in HalfKeyed(other) :
       a.key = b.key => a.path = b.path
=============================================================================
