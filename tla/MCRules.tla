------------------------------ MODULE MCRules ------------------------------
(***************************************************************************)
(* The rules that keep no state, over bounded inputs: each state asks one  *)
(* question of one of them.                                                *)
(***************************************************************************)
EXTENDS Glob, Configuration, TopicStatistics, Sizing, Offsets, Decoding, Subjects,
        FleetPage, Connectors, Answers, Windows, Deployment, Analysis, Requests

CONSTANTS
  MaxPattern,  \* the longest pattern and name
  MaxSizes,    \* the most sizes in a sketch
  MaxRecords,  \* the most records in a histogram
  MaxOffset,   \* the highest offset of a log
  MaxPieces    \* the most pieces of a protobuf file

VARIABLE question

UpTo(n, S) == UNION {[1 .. k -> S] : k \in 0 .. n}

(* An analysis: sizes at the edges of the buckets, records of four hours. *)
Sizes   == {0, 1, 7, 8, 15, 16, 26, 104, 1000}
Records == [partition : {0, 1}, time : {-1, 0, 1, 2, 5}, key : {NoSize, 1}, value : {1}]

(* Configurations of a plain cluster and two entries more, of one environment *)
(* or of two.                                                                 *)
MCUpper == [c \in {"a", "-", "_"} |-> IF c = "a" THEN "A" ELSE "_"]

Ids == {<<"a">>, <<"a", "-", "a">>, <<"a", "_", "a">>}

Entry(id) == [id |-> id, scheme |-> "https", username |-> FALSE, password |-> FALSE, bearer |-> FALSE,
              tls |-> Absent, oauth |-> Absent, kafka |-> Absent, writes |-> Absent]

Plain(id) == [id |-> id, envLabel |-> FALSE, bootstrap |-> TRUE, sasl |-> Absent, password |-> FALSE,
              oauth |-> Absent, tls |-> Absent, registry |-> Absent, codecs |-> {}]

Oauth(secret, assertion) == [plaintext |-> TRUE, secret |-> secret, assertion |-> assertion]

Web(id)        == {Entry(id), [Entry(id) EXCEPT !.bearer = TRUE], [Entry(id) EXCEPT !.username = TRUE],
                   [Entry(id) EXCEPT !.username = TRUE, !.password = TRUE]}
RegistryEntries(id) == Web(id) \cup {[Entry(id) EXCEPT !.oauth = Oauth(s, FALSE)] : s \in BOOLEAN}
                          \cup {[Entry(id) EXCEPT !.oauth = Oauth(s, TRUE)] : s \in BOOLEAN}
ClusterEntries(id) == {[Plain(id) EXCEPT !.sasl = "password", !.password = p] : p \in BOOLEAN}
                  \cup {[Plain(id) EXCEPT !.sasl = "oauth", !.oauth = Oauth(FALSE, a)] : a \in BOOLEAN}

Declarations ==
  UNION {[env : Ids, kind : {"registry"}, entry : RegistryEntries(id)]
         \cup [env : Ids, kind : {"cluster"}, entry : ClusterEntries(id)]
         \cup [env : Ids, kind : {"connect"}, entry : Web(id)] : id \in Ids}

Under(d, env, kind) == IF d.env = env /\ d.kind = kind THEN <<d.entry>> ELSE <<>>

EnvironmentOf(env, first, second, extra) ==
  LET entries(kind) == Under(first, env, kind) \o Under(second, env, kind)
  IN  [id |-> env, registries |-> entries("registry"), clusters |-> extra \o entries("cluster"),
       connects |-> entries("connect"), resources |-> <<>>]

Config(first, second) ==
  LET one == EnvironmentOf(first.env, first, second, <<Plain(<<"a", "a", "a">>)>>)
      two == EnvironmentOf(second.env, first, second, <<>>)
  IN  [environments |-> IF first.env = second.env THEN <<one>> ELSE <<one, two>>,
       auth |-> FALSE, roles |-> {}]

(* Topics and what an analysis measured of them. *)
Topics ==
  [ streams : {FALSE}, partitions : {1, 12}, replicas : {1}, brokers : {0, 3}, sizes : {Unset, <<1, 0, 2000>>},
    cleanup : {{"delete"}, {"compact"}, {"compact", "delete"}}, compressed : {TRUE},
    retention : {-1, 1, 60, 1440, 10080}, retentionBytes : {100}, segment : {Unset, 128, 1024},
    roll : {Unset, 30, 10080}, rollSet : {FALSE}, index : {Unset, 80}, interval : {1, 500},
    minInsync : {1}, dirty : {50} ]

Measurements ==
  { [mean |-> Unset, peak |-> Unset, small |-> FALSE, distinct |-> Unset],
    [mean |-> 0, peak |-> 0, small |-> FALSE, distinct |-> 20],
    [mean |-> 1, peak |-> 5, small |-> TRUE, distinct |-> 20],
    [mean |-> 1, peak |-> 15, small |-> FALSE, distinct |-> 80],
    [mean |-> 400, peak |-> 2000, small |-> FALSE, distinct |-> 80],
    [mean |-> 700, peak |-> 7000, small |-> FALSE, distinct |-> 80] }

(* Logs at three instants, whose ends only move up, beside one that stands    *)
(* still, and what the brokers answer.                                        *)
Moves(n)     == {ends \in [1 .. 3 -> 0 .. n] : ends[1] <= ends[2] /\ ends[2] <= ends[3]}
Histories(n) == {log \in [low : Moves(n), high : Moves(n)] : \A i \in 1 .. 3 : log.low[i] <= log.high[i]}
Steady(low, high) == [low |-> <<low, low, low>>, high |-> <<high, high, high>>]

Log(history, commit, read, latest, earliest) ==
  [low |-> history.low, high |-> history.high, commit |-> commit, read |-> read,
   latest |-> latest, earliest |-> earliest]

Beside   == {Log(Steady(0, 2), 1, "offset", "offset", "offset"), Log(Steady(1, 1), -1, "error", "offset", "error")}
Outcomes == {"offset", "none", "error"}
Copies   == [leader : BOOLEAN, future : BOOLEAN, size : {0, 5}, lag : {0, 3}]

(* Fields of a message: of the numbers 1 and 2, and of one the schema has not. *)
WireFields == [number : {1, 2, 3}, packed : {FALSE}, values : {<<7>>, <<8>>}]
              \cup [number : {1}, packed : {TRUE}, values : {<<>>, <<7>>, <<8, 9>>}]

(* Partitions of one or two copies, on the brokers 1 and 2. *)
Placement(replicas) ==
  [ leader : {NoAnswer} \cup ToSet(replicas), replicas : {replicas},
    isr : SUBSET ToSet(replicas), offline : SUBSET ToSet(replicas) ]
Placed       == Placement(<<1>>) \cup Placement(<<1, 2>>) \cup Placement(<<2, 1>>)
PlacedBeside == { [leader |-> 2, replicas |-> <<2>>, isr |-> {2}, offline |-> {}],
                  [leader |-> 1, replicas |-> <<2, 1>>, isr |-> {1}, offline |-> {2}],
                  [leader |-> NoAnswer, replicas |-> <<2, 3>>, isr |-> {3}, offline |-> {}] }

(* Topics of a list, some of which are not to be seen, and what is asked of it. *)
Listed(name, partitions, high, size, earliest) ==
  [ name |-> name, internal |-> FALSE, viewable |-> TRUE, matches |-> TRUE, partitions |-> partitions,
    under |-> partitions - 1, size |-> size, logs |-> <<Log(Steady(0, high), -1, "offset", "offset", earliest)>> ]

ListedTopics(name) ==
  { Listed(name, 1, 2, 5, "offset"), Listed(name, 2, 1, 7, "offset"), Listed(name, 3, 3, NoAnswer, "none"),
    [Listed(name, 1, 3, 9, "offset") EXCEPT !.viewable = FALSE],
    [Listed(name, 1, 3, 9, "offset") EXCEPT !.internal = TRUE, !.matches = FALSE] }

Queries ==
  {query \in [ internal : BOOLEAN, search : BOOLEAN, sort : Sorts \cup {"rank"}, descending : BOOLEAN,
               offset : {0, 1, 3}, limit : {1, 3}, metrics : BOOLEAN ] : query.internal = query.search}

(* Payloads on both sides of the framing and of the ceilings, with the needle  *)
(* nowhere, near the start or at the end of a rendering.                       *)
Needles(length) == {[length |-> length, needle |-> n] : n \in {0, 3, length}}

Payloads ==
  {p \in UNION {[ bytes : {n}, zero : BOOLEAN, utf8 : BOOLEAN, json : BOOLEAN, text : Needles(n),
                  hex : {[length |-> 2 * n, needle |-> m] : m \in {0, 2 * n - 1}}, value : Needles(9)]
                : n \in {4, 5, 8}} :
     p.json => p.utf8 /\ ~p.zero}

Answering ==
  [state : {"absent", "unreachable", "misconfigured"}, schema : {"avro"}, body : {"valid"}]
  \cup [state : {"ready"}, schema : {"avro", "protobuf", "unknown"}, body : {"valid", "invalid"}]
  \cup [state : {"ready"}, schema : {"jsonSchema"}, body : {"nonConforming"}]

CodecEntries == [topic : {<<"a">>, <<"a", Star>>, <<Star>>}, key : {NoCodec, "hex"}, value : {NoCodec, "json", "string"}]

(* Names of topics and records, and the pieces of a protobuf file.             *)
TopicNames  == UpTo(3, {"a", Dash, "value"}) \ {<<>>}
RecordNames == UpTo(2, {"a", "value", "key"}) \ {<<>>}
SubjectSet  == {<<"a", Dash, "key">>, <<"a", Dash, "value">>, <<"a", Dash, "a", Dash, "value">>,
                <<"a", Dash, "a">>, <<"a">>, <<Dash, "key">>}
Known(versions, own) == [versions |-> versions, unread |-> {}, own |-> own]

Said == [subject \in SubjectSet |->
           CASE subject = <<"a", Dash, "a">> -> Known(<<<<"a">>, <<"a">>>>, NoName)
             [] subject = <<"a">>            -> [Known(<<<<"a">>>>, "full") EXCEPT !.unread = {1}]
             [] OTHER                        -> Known(<<>>, NoName)]

Visits == [ registry : [listed : {NoName, {1}, {1, 2}}, texts : [1 .. 2 -> {NoName, "text"}]], after : 1 .. 2 ]

Readers     == [topics : SUBSET {<<"a">>, <<"a", Dash, "a">>}, connected : BOOLEAN, viewable : BOOLEAN]

Piece(text, words) == [text |-> text, words |-> words]

Pieces ==
  { Piece(<<"m">>, <<"m">>), Piece(<<" ", "a">>, <<" ", "a">>),
    Piece(<<"p", " ", "a", Dot, "b", " ">>, <<"p", " ", "a", Dot, "b", " ">>),
    Piece(<<"{">>, <<"{">>), Piece(<<"}">>, <<"}">>),
    Piece(<<"/", "*", "*", Quote, "{", "m", " ", "b", "*", "/">>, <<" ">>),
    Piece(<<"/", "/", "}", Quote, "m", " ", "b", "\n">>, <<" ">>),
    Piece(<<Quote, "/", "*", "{", "\\", Quote, "m", " ", "b", Quote>>, <<" ">>) }

(* A fleet of three environments, one of them an inventory only; roles that   *)
(* select by id or by label.                                                  *)
InEnv(env) == {<<"env", env>>}

MCClusters == { [env |-> "dev",  id |-> "k", labels |-> InEnv("dev"),  registry |-> "sr"],
                [env |-> "dev",  id |-> "l", labels |-> InEnv("dev") \cup {<<"tier", "one">>}, registry |-> "sr"],
                [env |-> "prod", id |-> "k", labels |-> InEnv("prod"), registry |-> Absent] }
MCRegistries == {[env |-> "dev", id |-> "sr"], [env |-> "dev", id |-> "lone"], [env |-> "prod", id |-> "sr"]}
MCConnects   == {[env |-> "dev", id |-> "c", kafka |-> "k", ceiling |-> {"restart", "delete", "create", "edit", "alter_offsets"}],
                 [env |-> "dev", id |-> "d", kafka |-> Absent, ceiling |-> {"create"}],
                 [env |-> "prod", id |-> "c", kafka |-> "k", ceiling |-> {}]}
MCEnvironments == << [id |-> "dev", resources |-> {[id |-> "ui", labels |-> {}]}],
                     [id |-> "bare", resources |-> {[id |-> "k", labels |-> InEnv("prod")]}],
                     [id |-> "prod", resources |-> {}] >>

Names == {"public", "secret", "c", "d"}

Grant(resource, value, actions) == [resource |-> resource, value |-> value, actions |-> actions]

Grants == { Grant("topic", Absent, {"view"}), Grant("topic", {"public"}, {All}), Grant("cluster_config", Absent, {All}),
            Grant("connect", {"c"}, {"view"}), Grant("connect", Absent, {All}),
            Grant("connector", {"public"}, {"operate", "delete"}) }

RoleOf(name, clusters, labels, permissions) ==
  [name |-> name, subjects |-> {Every}, clusters |-> clusters, labels |-> labels, permissions |-> permissions]

Selectors == [clusters : {{}, {{"k", "c"}}}, labels : {{}, InEnv("dev"), InEnv("prod"), {<<"tier", "one">>}}]

RoleSet(name, size) ==
  {RoleOf(name, by.clusters, by.labels, permissions) :
     by \in Selectors, permissions \in {some \in SUBSET Grants : Cardinality(some) <= size}}

Accesses ==
  {Admin} \cup {[roles |-> {one, two}, administrator |-> FALSE] : one \in RoleSet("one", 2), two \in RoleSet("two", 1)}

(* Connectors and their workers.                                              *)
MCEndingIn == [word \in SecretWords |-> IF word = "key" THEN {"key", "apikey"} ELSE {word}]

ClientCalls ==
  { call \in [ probe : {Absent, Heeded, "unreachable", "refused"}, ends : {Heeded, "unreachable"}, held : BOOLEAN,
              after : 0 .. 2 ] :
      call.held => call.ends # Heeded }

States == {"RUNNING", "PAUSED", "STOPPED", "FAILED", "RESTARTING", "UNASSIGNED", "other"}

Connector(name, state, tasks, kind) ==
  [name |-> name, state |-> state, tasks |-> tasks, kind |-> kind, infoKind |-> "sink", override |-> Absent]

Rows == {Connector(name, state, tasks, "sink") : name \in {"x"}, state \in {"RUNNING", "PAUSED", "other"},
                                                tasks \in UpTo(2, {"RUNNING", "FAILED"})}

Told(values, faults) == {Answer(v) : v \in values} \cup {Fault(f) : f \in faults}

Hosts(id) ==
  {[id |-> id, listed |-> listed, used |-> used, topics |-> [n \in {"x", "y"} |-> IF n \in silent THEN Fault(why) ELSE Answer(used[n])]]
   : listed \in {Answer({"x", "y"}), Fault("unreachable")}, used \in [{"x", "y"} -> {{}, {"t"}}],
     silent \in SUBSET {"x", "y"}, why \in {"absent", "rebalancing"}}

KeySegments == {"override", "db", "apikey", "password", "jaas", "config", "aws", "access", "id"}
Reference == <<Dollar, "f", Colon, "k", Brace>>
Values == {<<"x">>, <<Space>> \o Reference, Stars, Reference \o <<"x">> \o Reference, <<Dollar, Colon, "k", Brace>>, <<Dollar, "f", "k", Brace>>}

DbKey == <<"db", "apikey">>
IdKey == <<"override", "sasl", "id">>
HeldValues == {<<"x">>, Reference, Stars}

Configs ==
  {[key \in DOMAIN own \cup {NameKey, ClassKey} |->
      IF key = NameKey THEN <<"n">> ELSE IF key = ClassKey THEN <<"A">> ELSE own[key]]
   : own \in UNION {[keys -> HeldValues] : keys \in SUBSET {DbKey, IdKey, <<"topics">>}}}

Definitions == {[class \in known |-> {<<"sasl", "id">>}] : known \in {{}, {<<"A">>}}}

Near(one, other) == Cardinality({key \in DOMAIN one \cup DOMAIN other :
                       ~(key \in DOMAIN one /\ key \in DOMAIN other /\ one[key] = other[key])}) <= 1

(* Ranges of versions, quotas, transactions, and dates as locales write them.  *)
Ranges == {Unknown, <<0, 1>>, <<1, 3>>, <<2, 2>>}

Quota(entity) == [entity |-> entity]
StoredQuotas == {Quota(<<<<"user", "ada">>>>), Quota(<<<<"user", Unknown>>>>),
                 Quota(<<<<"user", "ada">>, <<"client-id", "app">>>>), Quota(<<<<"client-id", "app">>>>),
                 Quota(<<<<"ip", Unknown>>>>)}

Part(type, text) == [type |-> type, text |-> text]
Text == [year |-> "2026", month |-> "8", day |-> "9"]

Date(order, gaps, last) ==
  LET field(i) == Part(FieldsOf(order)[i], Text[FieldsOf(order)[i]])
  IN  <<field(1), Part("literal", gaps[1]), field(2), Part("literal", gaps[2]), field(3)>>
      \o IF last = "" THEN <<>> ELSE <<Part("literal", last)>>

Clock(gaps) == <<Part("hour", "09"), Part("literal", gaps[1]), Part("minute", "05"),
                 Part("literal", gaps[2]), Part("second", "03")>>

Dates ==
  LET clocks == {<<>>} \cup {Clock(gaps) : gaps \in {<<":", ":">>, <<".", ".">>, <<"h", "m">>}}
  IN  UNION {{Date(order, gaps, last) \o (IF clock = <<>> \/ last # "" THEN clock ELSE <<Part("literal", " ")>> \o clock),
              IF clock = <<>> THEN Date(order, gaps, last) ELSE clock \o <<Part("literal", " ")>> \o Date(order, gaps, last)}
             : order \in {"dmy", "ymd", "mdy"}, gaps \in {<<".", ".">>, <<"y", "m">>},
               last \in {"", "d"}, clock \in clocks}

(* Links to a window, what was read of two partitions, logs with batches that  *)
(* do not decode, and the progress of scans.                                  *)
Links ==
  [ mode : Modes \cup {Omitted, "other"}, offset : {Omitted, -1, 2}, timestamp : {Omitted, 7},
    partitions : {Omitted, <<>>, <<0>>, <<0, Word>>}, visibility : {Omitted, "committed", "other"},
    filter : {Omitted} \cup [blanks : 0 .. 1, chars : 0 .. MaxFilterChars + 1],
    limit : {Omitted, 0, MaxLimit, MaxLimit + 1} ]

TailsOf(partition) ==
  UNION {{[ partition |-> partition, malformed |-> 0,
            records |-> [i \in 1 .. n |-> [offset |-> first + i, time |-> times[i]]] ]
          : first \in {0, 1}, times \in [1 .. n -> {1, 2}]} : n \in 0 .. 3}

Cells == {cells \in UpTo(4, {"record", "gap", "bad", "rest"}) :
            \A i \in DOMAIN cells : cells[i] = "rest" => i > 1 /\ cells[i - 1] \in {"bad", "rest"}}

Offered == {[error |-> TRUE, offset |-> Omitted]} \cup [error : {FALSE}, offset : {Omitted, 0, 4}]

Progresses == [consumed : 0 .. 4, total : {0, 3, 4}, emitted : 0 .. 4]

(* Deployments, tokens, ways to sign in, mounts and pages, paths and fronts.   *)
MCAuthorities == {"https://kaas", "http://dex", "https://idp"}

Dex(host) == <<host, "/", "dex">>

Deployments ==
  [ issuer : {Dex(Public), Dex(Public) \o <<"/">>, <<Public, "/", "kafka", "/", "dex">>, Dex("https://idp"), <<"kaas">>},
    redirect : {<<Public, "/", "auth">>, <<"kaas">>}, internal : {Absent, Dex(Inside), <<Inside>>, Dex("https://idp")},
    upstream : {Absent, <<Inside>>, <<Inside, "/">>, <<"dex">>},
    dex : {Dex(Public), Dex(Public) \o <<"/">>, <<Public, "/", "kafka", "/", "dex">>, Dex("https://idp")},
    base : {<<>>, <<"/", "kafka">>} ]

Tokens == [ subject : {"s"}, username : {Absent, "ada"}, name : {Absent, "eve", "a@b"}, email : {Absent, "a@b", "ada"},
            verified : {Absent, FALSE, TRUE}, groups : SUBSET {"g", "eve"} ]

RoleFor(subjects) == [RoleOf("r", {}, {}, {Grant("topic", Absent, {"view"})}) EXCEPT !.subjects = subjects]

Mounts       == {<<>>, <<"/", "kafka">>, <<"/", "proxy", "/", "8099">>}
Spelled(mount) ==
  {around.before \o (IF mount = <<>> \/ around.rooted THEN mount ELSE Tail(mount)) \o around.after :
     around \in [before : {<<>>, <<" ">>, <<" ", "/">>}, rooted : BOOLEAN, after : {<<>>, <<"/">>, <<"/", "/", " ">>}]}

Element  == { <<"<head>">>, <<"<script", " src">> \o Asset \o <<"x.js", "\"", ">", "</script>">>,
              <<"<script", ">", "f", "<head>", "</script>">>, <<"<script", " defer", ">", "<script", ">", "</script>">>,
              <<"<link">> \o Asset \o <<"x.css", "\"", ">">> }
Inline(element) == IF Head(element) # "<script" \/ " src" \in ToSet(element) THEN <<>>
                   ELSE LET opens == SelectInSeq(element, LAMBDA token : token = ">")
                        IN  <<SubSeq(element, opens + 1, Len(element) - 1)>>
Pages    == {[html |-> <<"<head>">> \o FlattenSeq(elements),
              scripts |-> FlattenSeq([i \in DOMAIN elements |-> Inline(elements[i])])] : elements \in UpTo(2, Element)}

PathSegments == {<<"api">>, <<"assets">>, <<"x", ".", "js">>, <<"index", ".", "html">>, <<"topics">>, <<"a", ".", "b">>}
Bundle   == {IndexPage, <<<<"assets">>, <<"x", ".", "js">>>>}

(***************************************************************************)
(* Asking                                                                  *)
(***************************************************************************)
RulesInit == question = [of |-> "nothing"]

(* The log an analysis reads, its records, and what is known of the topic.    *)
Measurable(partition, time, key, value, stamp) ==
  [partition |-> partition, time |-> time, key |-> key, value |-> value, stamp |-> stamp]

MCCells == {[is |-> "record", record |-> Measurable(0, 0, NoSize, 3, "create")],
            [is |-> "record", record |-> Measurable(1, 5, 1, NoSize, "append")],
            [is |-> "batch", record |-> Measurable(2, 0, NoSize, NoSize, "create")],
            [is |-> "gap", record |-> Measurable(0, 0, NoSize, NoSize, "create")]}

MCScans ==
  {scan \in UNION {[ log : {log}, cap : {Unset} \cup 1 .. 3, broken : 0 .. Len(log), deadline : 0 .. 2 * Len(log) + 2,
                     gone : {2, 99}, quick : BOOLEAN ] : log \in UpTo(3, MCCells)} :
     scan.quick => scan.gone = 99 /\ scan.broken = 0}

MCMeasurables == {Measurable(p, t, 2, v, "create") : p \in {0, 1}, t \in {0, 3, 9}, v \in {0, 5}}
                   \cup {Measurable(2, 2, NoSize, NoSize, "append"), Measurable(0, -1, 1, 1, "create")}

TopicEntries(cleanup, explicit, retention, roll, segment) ==
  LET value == ("cleanup.policy" :> cleanup) @@ ("retention.ms" :> retention) @@ ("retention.bytes" :> -1)
                 @@ ("segment.ms" :> roll) @@ ("segment.bytes" :> segment) @@ ("segment.index.bytes" :> 80)
                 @@ ("index.interval.bytes" :> 10) @@ ("compression.type" :> "zstd") @@ ("min.insync.replicas" :> Word)
  IN  [name \in DOMAIN value |-> [value |-> value[name], explicit |-> explicit]]

MCTopicEntries ==
  {[name \in {} |-> Unset]}
    \cup {TopicEntries(cleanup, explicit, retention, roll, segment) :
            cleanup \in {{"delete"}, {"compact"}, {"compact", "delete"}}, explicit \in BOOLEAN,
            retention \in {-1, 60, 10080}, roll \in {30, 10080}, segment \in {50, 1024}}

Hideable == {{"cleanup.policy", "retention.ms", "retention.bytes", "segment.ms", "segment.bytes"}, {"compression.type"},
             {"retention.ms", "retention.bytes"}, {"segment.ms"}, {"segment.bytes"}, {"segment.index.bytes"}}

(* Requests: of an administrator or of one role, for a cluster that is        *)
(* connected, one that is not, or none, with one call at most that fails; and *)
(* writes, with one fault at most.                                            *)
Holding(labels, permissions) == [roles |-> {RoleOf("one", {}, labels, permissions)}, administrator |-> FALSE]

PageGrants == { Grant("topic", {"public"}, {All}), Grant("consumer", {"public"}, {"view"}),
                Grant("cluster_config", Absent, {"view"}) }
Askers     == {Admin} \cup {Holding(InEnv("dev"), some) : some \in SUBSET PageGrants}

ClusterCalls == {"describe_cluster", "describe_log_dirs", "connect", "describe_configs", "list_groups", "describe_groups", "fetch_offsets",
                 "describe_acls", "describe_scram_credentials", "list_partition_reassignments", "list_transactions",
                 "describe_transactions", "describe_topics", "list_offsets(latest)", "list_offsets(earliest)",
                 "topic_sizes", "tail", "audit"}

Failed(kind, retriable) == [kind |-> kind, retriable |-> retriable]

Endings == {Failed(TimedOut, TRUE), Failed("authorization", FALSE)}

NoneFailing == [called \in ClusterCalls |-> Done]

OneFailing(calls, endings) ==
  {[called \in calls |-> Done]}
  \cup {[called \in calls |-> IF called = failing THEN ending ELSE Done] : failing \in calls, ending \in endings}

Broker(leads, connects, session) ==
  [ leads |-> leads, fenced |-> FALSE, controller |-> leads, describedController |-> ~leads,
    connects |-> connects, session |-> session ]

Rack == <<Broker(TRUE, Failed(TimedOut, TRUE), "tls"), Broker(FALSE, Done, Undecodable), Broker(FALSE, Done, "tls")>>

Spec(kind, name, numeric) == [kind |-> kind, name |-> name, numeric |-> numeric]

Query(broker, specs, all) ==
  [broker |-> broker, specs |-> specs, details |-> all, limit |-> all,
   extras |-> IF all THEN {"offsets", "size"} ELSE {}]

\* What is asked, and of which brokers.
Asks == { <<Query(Absent, Absent, TRUE), << >>>>, <<Query(Absent, Absent, TRUE), Rack>>,
          <<Query(1, <<Spec("topic", "public", FALSE)>>, FALSE), Rack>>,
          <<Query(1, << >>, FALSE), << >>>>,
          <<Query(9, <<Spec("broker", "1", TRUE), Spec("broker", "public", FALSE)>>, TRUE), Rack>> }

Writers ==
  {Admin} \cup
  {Holding(InEnv("dev"), {Grant("topic", Absent, {"view"})} \cup some) :
     some \in SUBSET {Grant("connect", Absent, {All}), Grant("connector", {"public"}, {All})}}

Operated == {"restart", "edit", "delete", "alter-offsets", "anything"}

Ask(asked) == question' = asked

Asked == question.of # "nothing"

AskGlob ==
  /\ ~Asked
  /\ \E pattern \in UpTo(MaxPattern, {"a", "b", Star}), name \in UpTo(MaxPattern, {"a", "b"}) :
       Ask([of |-> "glob", pattern |-> pattern, name |-> name])

AskSizes ==
  /\ ~Asked
  /\ \E sizes \in UpTo(MaxSizes, Sizes) \ {<<>>} : Ask([of |-> "sizes", sizes |-> sizes])

AskRecords ==
  /\ ~Asked
  /\ \E records \in UpTo(MaxRecords, Records) : Ask([of |-> "records", records |-> records])

AskConfig ==
  /\ ~Asked
  /\ \E first, second \in Declarations : Ask([of |-> "config", config |-> Config(first, second)])

AskAdvice ==
  /\ ~Asked
  /\ \E topic \in Topics, measured \in Measurements, streams \in BOOLEAN :
       Ask([of |-> "advice", topic |-> [topic EXCEPT !.streams = streams], measured |-> measured])

AskScan ==
  /\ ~Asked
  /\ \E scan \in MCScans : \E planned \in {TRUE, scan.log # <<>>} : Ask([of |-> "scan", scan |-> scan, planned |-> planned])

AskMeasure ==
  /\ ~Asked
  /\ \E records \in UpTo(MaxRecords, MCMeasurables),
        seen \in {<<<<>>, Unset, 9>>, <<<<0, 3>>, 0, 0>>, <<<<0, 3>>, 7, 9>>} :
       Ask([of |-> "measure", records |-> records, batches |-> seen[1], disk |-> seen[2], guess |-> seen[3]])

AskCluster ==
  /\ ~Asked
  /\ \E entries \in MCTopicEntries, sizes \in {Unset, <<>>, <<1, 0, 2000>>, <<2000, 2000>>},
        hidden \in Hideable, measured \in Measurements, listed, streams \in BOOLEAN :
       Ask([of |-> "cluster", measured |-> measured, hidden |-> hidden,
            cluster |-> [listed |-> listed, streams |-> streams, replicas |-> <<3, 1>>, brokers |-> 3,
                         entries |-> entries, sizes |-> sizes]])

AskOffsets ==
  /\ ~Asked
  /\ \E history \in Histories(MaxOffset), beside \in Beside, lost \in SUBSET {"latest", "earliest"},
        commit \in -1 .. MaxOffset, latest, earliest \in Outcomes :
       Ask([of |-> "offsets", lost |-> lost,
            logs |-> <<Log(history, commit, "offset", latest, earliest), beside>>])

AskDisks ==
  /\ ~Asked
  /\ \E copies \in UpTo(2, Copies) : Ask([of |-> "disks", copies |-> copies])

AskHealth ==
  /\ ~Asked
  /\ \E first \in Placed, second, alone \in PlacedBeside :
       Ask([of |-> "health", topics |-> << <<first, second>>, <<>>, <<alone>> >>])

AskTopics ==
  /\ ~Asked
  /\ \E a \in ListedTopics(2), b \in ListedTopics(3), c \in ListedTopics(1), query \in Queries,
        lost \in {{}, {"sizes"}} :
       Ask([of |-> "topics", query |-> query, lost |-> lost, topics |-> <<a, b, c>>])

AskPayload ==
  /\ ~Asked
  /\ \E payload \in Payloads, first \in Answering, want \in Codecs, ceiling \in {4, 7} :
       \E second \in {first, [first EXCEPT !.state = "unreachable"], [first EXCEPT !.state = "ready"]} :
         Ask([of |-> "payload", payload |-> payload, first |-> first, second |-> second,
              want |-> want, ceiling |-> ceiling])

AskMessage ==
  /\ ~Asked
  /\ \E repeated \in BOOLEAN, fields \in UpTo(3, WireFields) :
       /\ \A i \in DOMAIN fields : fields[i].packed => fields[i].number = 1 /\ repeated
       /\ Ask([of |-> "message", fields |-> fields, schema |->
                [number \in {1, 2} |-> [name |-> 10 + number, repeated |-> repeated /\ number = 1]]])

AskCodec ==
  /\ ~Asked
  /\ \E codecs \in UpTo(2, CodecEntries), topic \in {<<"a">>, <<"a", "b">>}, asked \in {NoCodec, "avro"},
        side \in {"key", "value"} :
       Ask([of |-> "codec", codecs |-> codecs, topic |-> topic, asked |-> asked, side |-> side])

AskNames ==
  /\ ~Asked
  /\ \E topic \in TopicNames, record \in RecordNames : Ask([of |-> "names", topic |-> topic, record |-> record])

AskSubjects ==
  /\ ~Asked
  /\ \E subjects \in {SetToSeq(some) : some \in SUBSET SubjectSet}, topic \in {<<"a">>, <<"a", Dash, "a">>},
        one, two \in Readers :
       Ask([of |-> "subjects", subjects |-> subjects, topic |-> topic, readers |-> {one, two}])

AskSubjectList ==
  /\ ~Asked
  /\ \E subjects \in SUBSET SubjectSet, topics \in {{}, {<<"a">>}}, connected \in BOOLEAN,
        search \in {<<>>, <<"a", Dash>>}, limit \in 1 .. 2, global \in {"full"},
        known \in [SubjectSet -> {Known(<<<<"a">>>>, NoName)}] \cup [SubjectSet -> {Known(<<<<"value">>>>, "none")}]
                \cup {Said} :
       Ask([of |-> "subject list", names |-> SetToSeq(subjects), search |-> search, limit |-> limit, global |-> global,
            known |-> known, readers |-> {[topics |-> topics, connected |-> connected, viewable |-> TRUE]}])

AskReadings ==
  /\ ~Asked
  /\ \E visits \in UpTo(3, Visits) : Ask([of |-> "readings", visits |-> visits])

AskVersions ==
  /\ ~Asked
  /\ \E topic \in {t \in TopicNames : Len(t) <= 2}, record \in RecordNames,
        versions \in UpTo(2, {r \in RecordNames : Len(r) = 1} \cup {<<"a", "value">>, NoName}),
        own, global \in {NoName, "full"} :
       \E unread \in SUBSET (DOMAIN versions) :
         Ask([of |-> "versions", subject |-> topic \o <<Dash>> \o record, versions |-> versions,
              unread |-> unread, own |-> own, global |-> global])

AskProtobuf ==
  /\ ~Asked
  /\ \E pieces \in UpTo(MaxPieces, Pieces) : Ask([of |-> "protobuf", pieces |-> pieces])

AskFleet ==
  /\ ~Asked
  /\ \E access \in Accesses : Ask([of |-> "fleet", access |-> access])

AskStatus ==
  /\ ~Asked
  /\ \E state \in States, tasks \in UpTo(3, States) : Ask([of |-> "status", state |-> state, tasks |-> tasks])

AskTable ==
  /\ ~Asked
  /\ \E rows \in UpTo(2, Rows) : Ask([of |-> "table", rows |-> rows])

AskHeader ==
  /\ ~Asked
  /\ \E workers \in Told({Absent, "id", "another"}, {"refused"}), rows \in Told({<<>>}, {"rebalancing"}),
        plugins \in Told({0, 2}, {"unreachable"}), reference \in {Absent, "k"}, expected \in {Absent, "id"},
        topics \in Told({{"t"}}, {"absent", "unreachable"}) :
       Ask([of |-> "header", topics |-> topics, workers |-> workers, rows |-> rows, plugins |-> plugins,
            reference |-> reference, expected |-> expected])

AskUsers ==
  /\ ~Asked
  /\ \E one \in Hosts("c"), two \in Hosts("d") : Ask([of |-> "users", hosts |-> {one, two}])

AskKey ==
  /\ ~Asked
  /\ \E key \in UpTo(3, KeySegments) \ {<<>>}, prefix \in {<<"override">>, <<"aws", "id">>}, value \in Values,
        secrets \in {Absent, {<<"id">>}, {<<"db", "id">>}} :
       Ask([of |-> "key", key |-> key, prefix |-> prefix, value |-> value, secrets |-> secrets])

AskTasks ==
  /\ ~Asked
  /\ \E definitions \in Definitions, read, own \in Configs :
       Ask([of |-> "tasks", definitions |-> definitions, read |-> read, own |-> own])

AskEdit ==
  /\ ~Asked
  /\ \E definitions \in Definitions, read, current \in Configs, removed \in {{}, {DbKey}} :
       /\ Near(read, current)
       /\ \E edits \in {[key \in {} |-> <<"y">>]} \cup [{IdKey} -> {<<"y">>, Stars}]
                       \cup [{NameKey} -> {<<"m">>, Stars}] \cup [{<<"topics">>} -> {Reference, Stars}] :
            Ask([of |-> "edit", definitions |-> definitions, read |-> read, current |-> current,
                 edits |-> edits, removed |-> removed])

AskFailure ==
  /\ ~Asked
  /\ \E fault \in ConnectFaults, status \in {400, 401, 403, 404, 409, 418, 500, 503}, pathless \in BOOLEAN,
        outcome \in [kind : KafkaErrors, retriable : BOOLEAN] \cup {[kind |-> TimedOut, retriable |-> TRUE]} :
       Ask([of |-> "failure", fault |-> fault, status |-> status, pathless |-> pathless, outcome |-> outcome])

AskFeature ==
  /\ ~Asked
  /\ \E keys \in {<<"a">>, <<"a", "b">>}, advertised, ours, more \in [{"a", "b"} -> Ranges] :
       Ask([of |-> "feature", keys |-> keys, advertised |-> advertised, ours |-> ours, more |-> more])

AskOffer ==
  /\ ~Asked
  /\ \E missing \in SUBSET {"ListGroups", "DescribeGroups", "DescribeConfigs", "DescribeAcls", "DescribeClientQuotas",
                             "DescribeUserScramCredentials", "ListPartitionReassignments", "ListTransactions",
                             "DescribeTransactions"},
        at \in {<<"connected", {"topic", "consumer", "cluster_config"}, TRUE>>, <<"connected", {"topic"}, TRUE>>,
                <<"connected", {"consumer", "cluster_config"}, FALSE>>, <<"unreachable", {"topic"}, FALSE>>} :
       Ask([of |-> "offer", missing |-> missing, card |-> [status |-> at[1], viewable |-> at[2]], answered |-> at[3]])

TokenReplies ==
  {Unknown} \cup [ status : {200, 400, 503}, token : {Unknown, "", "t"}, error : {Unknown, "invalid_client"},
                  expires : {Unknown, 0, 30, 3600, 24 * 60 * 60 + 1}, description : {Unknown, "AADSTS70021"} ]

AskExchange ==
  /\ ~Asked
  /\ \E provider \in [scheme : {"https", "http", "ftp"}, plaintext : BOOLEAN], redirects \in UpTo(1, {"https", "http"}),
        file \in {Unknown, "blank", "jwt"}, reply \in TokenReplies :
       Ask([of |-> "exchange", provider |-> provider, redirects |-> redirects, file |-> file, reply |-> reply])

AskLists ==
  /\ ~Asked
  /\ \E stored \in {SetToSeq(some) : some \in SUBSET StoredQuotas}, down \in SUBSET ToSet(QuotaTypes),
        gone \in SUBSET {1, 2}, silent \in SUBSET {0, 3} :
       Ask([of |-> "lists", stored |-> stored, down |-> down, gone |-> gone, silent |-> silent])

AskDate ==
  /\ ~Asked
  /\ \E parts \in Dates, order \in {"dmy", "ymd", "mdy"} : Ask([of |-> "date", parts |-> parts, order |-> order])

AskLink ==
  /\ ~Asked
  /\ \E link \in Links : Ask([of |-> "link", link |-> link])

AskTail ==
  /\ ~Asked
  /\ \E one \in TailsOf(0), two \in TailsOf(1), limit \in {Omitted, 0, 1, 3, TailLimit + 1} :
       Ask([of |-> "tail", tails |-> <<one, two>>, query |-> [limit |-> limit, partitions |-> Omitted]])

AskOne ==
  /\ ~Asked
  /\ \E low \in {0, 2}, cells \in Cells, ends \in BOOLEAN, offset \in -1 .. 7 :
       Ask([of |-> "one", log |-> [low |-> low, cells |-> cells, ends |-> ends], offset |-> offset])

AskSeek ==
  /\ ~Asked
  /\ \E mode \in {"sinceTime", "toTime", "newest"}, partitions \in {Omitted, <<0>>, <<1, 0>>, <<0, 0>>},
        known \in SUBSET {0, 1}, answers \in {Omitted} \cup [{0, 1} -> Offered] :
       Ask([of |-> "seek", known |-> known, answers |-> answers,
            query |-> [ mode |-> mode, offset |-> Omitted, timestamp |-> 7, partitions |-> partitions,
                        visibility |-> Omitted, filter |-> Omitted, limit |-> Omitted ]])

AskProgress ==
  /\ ~Asked
  /\ \E progress \in Progresses, more \in 0 .. 2, limit \in {Omitted, 1, 2, 3} :
       Ask([of |-> "progress", progress |-> progress, more |-> more, limit |-> limit])

AskDeployment ==
  /\ ~Asked
  /\ \E d \in Deployments : Ask([of |-> "deployment", deployment |-> d])

AskClaims ==
  /\ ~Asked
  /\ \E claims \in Tokens, subjects \in SUBSET {"s", "ada", "a@b", "eve", Every} :
       Ask([of |-> "claims", claims |-> claims, role |-> RoleFor(subjects)])

AskSignIn ==
  /\ ~Asked
  /\ \E roles \in SUBSET {RoleFor({"ada"}), RoleFor({Every}), RoleFor({Nobody})}, auth \in BOOLEAN,
        connectors \in UpTo(2, {"github", "ldap"}), asked \in {"github", "saml"} :
       Ask([of |-> "signin", roles |-> roles, auth |-> auth, connectors |-> connectors, asked |-> asked])

AskMount ==
  /\ ~Asked
  /\ \E mount \in Mounts, page \in Pages, path \in {<<"/", "api">>, <<"/", "auth", "/", "login">>} :
       \E text \in Spelled(mount) : Ask([of |-> "mount", mount |-> mount, text |-> text, page |-> page, path |-> path])

AskPath ==
  /\ ~Asked
  /\ \E path \in UpTo(3, PathSegments), files \in SUBSET Bundle : Ask([of |-> "path", path |-> path, files |-> files])

AskFront ==
  /\ ~Asked
  /\ \E keeps, tells \in BOOLEAN : Ask([of |-> "front", keeps |-> keeps, tells |-> tells])

(* What fails is asked of the cluster that is there, seen and connected. *)
Cases ==
  ({<<"dev", "k">>} \X {Clusters} \X OneFailing(ClusterCalls, Endings))
  \cup ({<<"dev", "k">>, <<"prod", "k">>, <<"dev", "nowhere">>} \X {{}, Clusters} \X {NoneFailing})

AskRequest ==
  /\ ~Asked
  /\ \E access \in Askers, name \in {"public", "secret"}, asked \in Asks, case \in Cases :
       Ask([of |-> "request", request |->
             [ access |-> access, env |-> case[1][1], id |-> case[1][2], name |-> name, up |-> case[2],
               outcomes |-> case[3], brokers |-> asked[2], groups |-> {"public", "secret"}, asked |-> asked[1] ]])

AskWrite ==
  /\ ~Asked
  /\ \E access \in Writers, at \in {<<"dev", "c">>, <<"dev", "d">>, <<"prod", "c">>, <<"dev", "nowhere">>},
        segment \in Operated, confirmed, dryRun, whole \in BOOLEAN, recorded \in SUBSET {"intent", "outcome"},
        faults \in OneFailing({"prepare", "validate", "change"}, {"rebalancing", "notFound", "invalid"}) :
       Ask([of |-> "write", segment |-> segment, write |->
             [ access |-> access, who |-> [subject |-> "ada", identifiers |-> {"ada"}], env |-> at[1], id |-> at[2],
               name |-> "public", operation |-> "restart", confirmed |-> confirmed, dryRun |-> dryRun,
               config |-> whole, offsets |-> whole, recorded |-> recorded, faults |-> faults ]])

AskConnector ==
  /\ ~Asked
  /\ \E access \in Writers, at \in {<<"dev", "c">>, <<"prod", "c">>, <<"dev", "nowhere">>},
        faults \in [{"connector", "plugins", "topics", "offsets"} -> {Done, "absent", "unreachable", "notFound"}] :
       Ask([of |-> "connector",
            request |-> [access |-> access, env |-> at[1], id |-> at[2], name |-> "public", faults |-> faults]])

AskClient ==
  /\ ~Asked
  /\ \E calls \in UpTo(3, ClientCalls) : Ask([of |-> "client", calls |-> calls])

AskAddress ==
  /\ ~Asked
  /\ \E one, other \in [env : {"dev", "prod"}, id : {"k", "topics"}, name : {"a", "tail", "tasks", "restart", "messages"}] :
       Ask([of |-> "address", one |-> one, other |-> other])

RulesNext ==
  \/ AskGlob \/ AskSizes \/ AskRecords \/ AskConfig \/ AskAdvice
  \/ AskOffsets \/ AskDisks \/ AskTopics \/ AskPayload \/ AskCodec
  \/ AskNames \/ AskSubjects \/ AskSubjectList \/ AskReadings \/ AskVersions \/ AskProtobuf
  \/ AskFleet \/ AskStatus \/ AskTable \/ AskHeader \/ AskUsers \/ AskKey \/ AskEdit
  \/ AskFailure \/ AskFeature \/ AskLists \/ AskDate
  \/ AskLink \/ AskTail \/ AskOne \/ AskSeek \/ AskProgress
  \/ AskScan \/ AskMeasure \/ AskCluster
  \/ AskDeployment \/ AskClaims \/ AskSignIn \/ AskMount \/ AskPath \/ AskFront
  \/ AskRequest \/ AskWrite \/ AskConnector \/ AskClient \/ AskAddress
  \/ AskHealth \/ AskOffer \/ AskExchange \/ AskMessage \/ AskTasks

RulesSpec == RulesInit /\ [][RulesNext]_question

(***************************************************************************)
(* What the rules promise, asked of each                                   *)
(***************************************************************************)
\* What a role says is what its holder meets: Glob's MatchesAsRead, of policy.rs's
\* `matches`, FleetPage's FleetIsAddressable, CardsAreExact and OffersAreKept, of
\* registry.rs, dto.rs and connect_write.rs, and Deployment's NamesAreVouchedFor and
\* SignInIsOffered, of identity.rs and config.rs.
RolesMeanWhatTheySay ==
  /\ question.of = "glob" => MatchesAsRead(question.pattern, question.name)
  /\ question.of = "fleet" => /\ FleetIsAddressable(question.access)
                              /\ CardsAreExact(question.access, Names)
                              /\ OffersAreKept(question.access, [subject |-> "ada", identifiers |-> {"ada"}], Names)
  /\ question.of = "claims" => NamesAreVouchedFor(question.claims, question.role)
  /\ question.of = "signin" =>
       SignInIsOffered(question.roles, question.auth, question.connectors, question.asked, CHOOSE c \in Clusters : TRUE)

\* What a topic analysis adds up and what is advised from it: TopicStatistics's
\* QuantilesAreClose and HistogramAccounts, of the sketches and accumulators of
\* analysis.rs, Sizing's AdviceStands, of advice.rs and lint.rs, and Analysis's
\* AnalysisIsTold, MeasureHolds and AdviceOnlyNarrows, of the route's pump, of
\* Measured::of and of SizingAdvice::build.
StatisticsAreSound ==
  /\ question.of = "sizes" => QuantilesAreClose(question.sizes)
  /\ question.of = "records" => HistogramAccounts(question.records)
  /\ question.of = "advice" => AdviceStands(question.topic, question.measured)
  /\ question.of = "scan" => AnalysisIsTold(question.scan, question.planned)
  /\ question.of = "measure" => MeasureHolds(question.records, question.batches, question.disk, question.guess)
  /\ question.of = "cluster" => AdviceOnlyNarrows(question.cluster, question.measured, question.hidden)

\* Who reads which credential: Configuration's SecretsAreApart and AuthIsOnesOwn,
\* of the claims of config.rs and of what clients are built with, and Connectors's
\* PrefixHidesNothing, TasksHideNoLess and EditIsExact, of redact.rs, client.rs and
\* writer.rs.
SecretsStayPut ==
  /\ question.of = "config" => SecretsAreApart(question.config) /\ AuthIsOnesOwn(question.config)
  /\ question.of = "key" => PrefixHidesNothing(question.secrets, question.prefix, question.key, question.value)
  /\ question.of = "tasks" => TasksHideNoLess(question.definitions, question.read, question.own)
  /\ question.of = "edit" =>
       EditIsExact(question.definitions, <<"n">>, question.read, question.current, question.edits, question.removed)

\* What the pages say of what was asked for them.  Connectors's StatusIsHonest,
\* CountsAgree, HeaderIsWhole, UsersAreWhole and ClientIsHonest, of model.rs,
\* connect.rs and client.rs; Answers's FailuresAgree, StatusesAreKept,
\* FeaturesAreHonest, OffersAreServed, ExchangesAreTold and ListsAreWhole, of
\* error.rs, fault.rs, capabilities.rs, nav-cluster-item.tsx, federated.rs and
\* admin.rs; Windows's DatesKeepTheirFields, LinksAreServed, PlansAreBounded,
\* TailIsTheNewest, TheRecordAskedFor, SeekIsExplained and ProgressIsHonest, of
\* settings.ts, search.ts, seek.rs, mod.rs, resolve.rs and stream.rs; Deployment's
\* LoginStaysInside, LinksKeepTheirPrefix, AssetsAreAnswered and OwnWritesPass, of
\* oidc.rs, dex.rs, assets.rs, base.ts and lib.rs; and Requests's
\* RequestsAreAnswered, RowsLeadSomewhere, ConnectorsAreTold, WritesAreTold and
\* AddressesHold, of the handlers of routes/, lib.rs's router and client.ts.
PagesAreHonest ==
  /\ question.of = "status" => StatusIsHonest(question.state, question.tasks)
  /\ question.of = "table" => CountsAgree(question.rows)
  /\ question.of = "header" =>
       HeaderIsWhole(question.workers, question.rows, question.plugins, question.reference, question.expected,
                     question.topics)
  /\ question.of = "users" => UsersAreWhole(question.hosts, "t")
  /\ question.of = "failure" => /\ FailuresAgree(question.fault, question.outcome)
                                /\ StatusesAreKept(question.status, question.pathless)
  /\ question.of = "feature" =>
       FeaturesAreHonest(question.keys, question.advertised, question.ours, question.more)
  /\ question.of = "offer" => OffersAreServed(question.card, KeysAsked \ question.missing, question.answered)
  /\ question.of = "exchange" => ExchangesAreTold(question.provider, question.redirects, question.file, question.reply)
  /\ question.of = "lists" =>
       ListsAreWhole(question.stored, question.down, <<[id |-> 2, state |-> "open"], [id |-> 1, state |-> "open"]>>,
                     [id \in {1, 2} |-> IF id \in question.gone THEN Unknown ELSE "done"],
                     <<3, 0>>, [partition \in {0, 3} \ question.silent |-> <<7, 5>>])
  /\ question.of = "date" => DatesKeepTheirFields(question.parts, question.order)
  /\ question.of = "link" => LinksAreServed(question.link) /\ PlansAreBounded(question.link)
  /\ question.of = "tail" => TailIsTheNewest(question.query, question.tails)
  /\ question.of = "one" => TheRecordAskedFor(question.log, question.offset)
  /\ question.of = "seek" => SeekIsExplained(question.query, question.known, question.answers)
  /\ question.of = "deployment" => LoginStaysInside(question.deployment)
  /\ question.of = "mount" => LinksKeepTheirPrefix(question.text, question.mount, question.page, question.path)
  /\ question.of = "path" => AssetsAreAnswered(question.path, question.files, <<"<head>">>)
  /\ question.of = "front" => OwnWritesPass("kaas", "idp", question.keeps, question.tells)
  /\ question.of = "request" => RequestsAreAnswered(question.request) /\ RowsLeadSomewhere(question.request)
  /\ question.of = "client" => ClientIsHonest(question.calls)
  /\ question.of = "connector" => ConnectorsAreTold(question.request)
  /\ question.of = "write" => WritesAreTold(question.write, question.segment)
  /\ question.of = "address" => AddressesHold(question.one, question.other)
  /\ question.of = "progress" => ProgressIsHonest(question.progress, question.more, question.limit)

\* The numbers of the topic and group pages: Offsets's LagIsHonest,
\* CountsAreHonest, SizesAreHonest, HealthAgrees and ListIsHonest, of topics.rs,
\* groups.rs, dto.rs and placement.tsx.
NumbersAreHonest ==
  /\ question.of = "offsets" => /\ LagIsHonest(question.lost, question.logs)
                                /\ CountsAreHonest(question.lost, question.logs)
  /\ question.of = "disks" => SizesAreHonest(question.copies)
  /\ question.of = "health" => HealthAgrees(question.topics)
  /\ question.of = "topics" => ListIsHonest(question.query, question.lost, question.topics)

\* What is shown and searched of a payload: Decoding's FilterIsWhole, CodecIsTold,
\* ShapeIsTheSchemas and CodecIsChosen, of codec.rs, registry.rs, proto.rs and
\* decode.rs.
PayloadsAreHonest ==
  /\ question.of = "payload" =>
       /\ FilterIsWhole(question.first, question.second, question.payload, question.want, question.ceiling)
       /\ CodecIsTold(question.first, question.second, question.payload, question.want, question.ceiling)
  /\ question.of = "message" => ShapeIsTheSchemas(question.schema, question.fields)
  /\ question.of = "codec" => CodecIsChosen(question.asked, question.codecs, question.topic, question.side)

\* What a subject's name says: Subjects's NamesReadBack, ColumnsAreExact,
\* RowAndPageAgree, ListIsCut, PageRemembers and ScanReadsTheCode, of naming.rs,
\* topics.rs, schemas.rs and subjects.rs.
SubjectsReadBack ==
  /\ question.of = "names" => NamesReadBack(question.topic, question.record)
  /\ question.of = "subjects" => ColumnsAreExact(question.topic, question.subjects, question.readers)
  /\ question.of = "subject list" =>
       ListIsCut(question.names, question.readers, question.known, question.global, question.search, question.limit)
  /\ question.of = "readings" => PageRemembers(question.visits)
  /\ question.of = "versions" =>
       RowAndPageAgree(question.subject, question.versions, question.unread, question.own, question.global)
  /\ question.of = "protobuf" => ScanReadsTheCode(question.pieces)
=============================================================================
