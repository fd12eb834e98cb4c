-------------------------------- MODULE Answers --------------------------------
(***************************************************************************)
(* What the service answers when something it asked did not: the error     *)
(* tables of kaas-ui-core's error.rs, kaas-ui-api's error.rs and           *)
(* kaas-ui-connect's fault.rs, the envelope's split of per-item outcomes,  *)
(* the features a broker can serve, and the lists of the admin page that   *)
(* are put together from several calls.                                    *)
(***************************************************************************)
EXTENDS Integers, SequencesExt, FiniteSetsExt

CONSTANT Unknown   \* no range, no default name, nothing advertised

(***************************************************************************)
(* Kafka Connect                                                           *)
(***************************************************************************)
\* ConnectFault::of_status; `pathless` when the body says what Jersey says of a
\* path it has no resource for.
FaultOf(status, pathless) ==
  CASE status >= 500                 -> "unreachable"
    [] status \in {401, 403}         -> "refused"
    [] status = 409                  -> "rebalancing"
    [] status = 404 /\ pathless      -> "absent"
    [] status = 404 /\ ~pathless     -> "notFound"
    [] status = 400                  -> "invalid"
    [] status < 500 /\ status \notin {400, 401, 403, 404, 409} -> "rejected"

\* RegistryHandle::status_fault: a registry's faults are of two kinds.
RegistryFaultOf(status) == IF status >= 500 THEN "unreachable" ELSE "misconfigured"

ConnectFaults == {"unreachable", "refused", "misconfigured", "rebalancing", "absent", "notFound", "invalid", "rejected"}

Retriable(fault) == fault \in {"unreachable", "rebalancing"}

ReplyWith(status, kind, retriable) == [status |-> status, kind |-> kind, retriable |-> retriable]

\* ApiError::from(ConnectFault): the call was the point of the request.
FaultReply(fault) ==
  CASE fault = "unreachable"                     -> ReplyWith(502, "transport", TRUE)
    [] fault = "refused"                         -> ReplyWith(502, "auth", FALSE)
    [] fault \in {"misconfigured", "rejected"}   -> ReplyWith(502, "invalid", FALSE)
    [] fault = "rebalancing"                     -> ReplyWith(503, "transport", TRUE)
    [] fault = "notFound"                        -> ReplyWith(404, "invalid", FALSE)
    [] fault = "invalid"                         -> ReplyWith(400, "invalid", FALSE)
    [] fault = "absent"                          -> ReplyWith(404, "unsupported", FALSE)

\* connect_resource_error: the call only enriched a page.
FaultNote(fault) ==
  [ kind |-> CASE fault = "refused" -> "auth"
               [] fault = "absent"  -> "unsupported"
               [] fault \in {"unreachable", "rebalancing"} -> "transport"
               [] fault \in {"misconfigured", "rejected", "notFound", "invalid"} -> "invalid",
    retriable |-> Retriable(fault) ]

(***************************************************************************)
(* Kafka                                                                   *)
(***************************************************************************)
KafkaErrors == {"transport", "connectionClosed", "timeout", "authentication", "authorization", "broker",
                "decode", "readOnly", "unsupportedApi", "unsupported", "invalidRequest", "newer"}

\* ErrorKind::of
KindOf(error) ==
  CASE error \in {"transport", "connectionClosed"} -> "transport"
    [] error = "authentication"                    -> "auth"
    [] error \in {"unsupportedApi", "unsupported"} -> "unsupported"
    [] error = "invalidRequest"                    -> "invalid"
    [] error = "newer"                             -> "other"
    [] error \in {"timeout", "authorization", "broker", "decode", "readOnly"} -> error

\* http_status
StatusOf(error) ==
  CASE error \in {"transport", "connectionClosed", "authentication"} -> 502
    [] error = "timeout"                                  -> 504
    [] error = "authorization"                            -> 403
    [] error \in {"broker", "unsupported", "invalidRequest"} -> 400
    [] error \in {"decode", "readOnly", "newer"}          -> 500
    [] error = "unsupportedApi"                           -> 501

\* call: what a handler that waits no longer than CALL_TIMEOUT is told, an error
\* [kind, retriable] of kaas-lib's or, as another kind, none in time.
TimedOut == "timed out"

\* ApiError::from(CallError)
CallReply(outcome) ==
  IF outcome.kind = TimedOut THEN ReplyWith(504, "timeout", TRUE)
  ELSE ReplyWith(StatusOf(outcome.kind), KindOf(outcome.kind), outcome.retriable)

\* CallError::into_resource_error
CallNote(outcome) ==
  IF outcome.kind = TimedOut THEN [kind |-> "timeout", retriable |-> TRUE]
  ELSE [kind |-> KindOf(outcome.kind), retriable |-> outcome.retriable]

(***************************************************************************)
(* Features                                                                *)
(***************************************************************************)
\* ApiVersionEntry::negotiated: the newest version both speak.
Negotiated(broker, ours) ==
  IF Unknown \in {broker, ours} THEN Unknown
  ELSE LET newest == Min({broker[2], ours[2]})
       IN  IF newest < Max({broker[1], ours[1]}) THEN Unknown ELSE newest

\* state_of: the first key that cannot be spoken decides, and both ranges travel
\* with the answer.
FeatureState(keys, advertised, ours) ==
  LET missing == {i \in DOMAIN keys : Negotiated(advertised[keys[i]], ours[keys[i]]) = Unknown}
  IN  IF missing = {} THEN [available |-> TRUE]
      ELSE LET key == keys[Min(missing)]
           IN  [available |-> FALSE, key |-> key, broker |-> advertised[key], ours |-> ours[key]]

\* Feature::keys, of every Feature::ALL.
FeatureKeys ==
  [ clusterDescription   |-> <<"DescribeCluster">>,
    topicPartitions      |-> <<"DescribeTopicPartitions">>,
    logDirs              |-> <<"DescribeLogDirs">>,
    configs              |-> <<"DescribeConfigs">>,
    consumerGroups       |-> <<"ListGroups", "DescribeGroups">>,
    modernConsumerGroups |-> <<"ConsumerGroupDescribe">>,
    shareGroups          |-> <<"ShareGroupDescribe">>,
    committedOffsets     |-> <<"OffsetFetch">>,
    acls                 |-> <<"DescribeAcls">>,
    quotas               |-> <<"DescribeClientQuotas">>,
    scramUsers           |-> <<"DescribeUserScramCredentials">>,
    reassignments        |-> <<"ListPartitionReassignments">>,
    transactions         |-> <<"ListTransactions", "DescribeTransactions">>,
    producers            |-> <<"DescribeProducers">>,
    quorum               |-> <<"DescribeQuorum">>,
    messages             |-> <<"Fetch", "ListOffsets">> ]

KeysAsked == UNION {ToSet(FeatureKeys[feature]) : feature \in DOMAIN FeatureKeys}

\* project; what the broker does not advertise is no row of the table.
Project(advertised, ours) ==
  LET rows == {key \in DOMAIN advertised : advertised[key] # Unknown}
      ahead(key) == IF ours[key] = Unknown THEN TRUE ELSE advertised[key][2] > ours[key][2]
  IN  [ features   |-> [feature \in DOMAIN FeatureKeys |-> FeatureState(FeatureKeys[feature], advertised, ours)],
        apiKeys    |-> [key \in rows |-> Negotiated(advertised[key], ours[key])],
        aheadCount |-> Cardinality({key \in rows : ahead(key)}) ]

\* Until the answer is there, everything is taken to be.
Available(answer, feature) == IF answer = Unknown THEN TRUE ELSE answer.features[feature].available

AdminTabs == {"acls", "quotas", "scramUsers", "reassignments", "transactions"}

\* CLUSTER_NAV: what an item needs a grant of, and the features one of which it needs.
NavItems ==
  [ topics       |-> [resource |-> "topic", features |-> {}],
    groups       |-> [resource |-> "consumer", features |-> {"consumerGroups"}],
    configs      |-> [resource |-> "cluster_config", features |-> {"configs"}],
    admin        |-> [resource |-> "cluster_config", features |-> AdminTabs],
    capabilities |-> [resource |-> "cluster_config", features |-> {}] ]

\* Every item needs the connection.
NavShown(card, answer) ==
  { label \in DOMAIN NavItems :
      /\ card.status # "unreachable"
      /\ NavItems[label].resource \in card.viewable
      /\ LET needs == NavItems[label].features
         IN  needs = {} \/ \E feature \in needs : Available(answer, feature) }

\* A tab without its feature is not rendered; none at all is said instead of tabs.
AdminPage(answer) ==
  [ tabs |-> {tab \in AdminTabs : Available(answer, tab)},
    none |-> answer # Unknown /\ \A tab \in AdminTabs : ~Available(answer, tab) ]

\* What the pages ask of the brokers, by the handlers of groups.rs, configs.rs and
\* admin.rs.
PageCalls ==
  [ groups |-> {"ListGroups"}, configs |-> {"DescribeConfigs"}, acls |-> {"DescribeAcls"},
    quotas |-> {"DescribeClientQuotas"}, scramUsers |-> {"DescribeUserScramCredentials"},
    reassignments |-> {"ListPartitionReassignments"}, transactions |-> {"ListTransactions", "DescribeTransactions"} ]

(***************************************************************************)
(* Token endpoints.  A provider is [scheme, plaintext] as configured, and  *)
(* its issuer may redirect a request once, to another scheme; the          *)
(* file of the assertion is Unknown, "blank" or "jwt"; a reply is Unknown  *)
(* or [status, token, expires, error, description], expires in whole       *)
(* seconds, as a number or as its text, or Unknown.                        *)
(***************************************************************************)
MaxLifetime == 24 * 60 * 60

\* FederatedTokenProvider::new; a provider is not built for any other.
EndpointServes(provider) == provider.scheme = "https" \/ (provider.scheme = "http" /\ provider.plaintext)

\* https_only: the client that is built follows a redirect no further than that.
Follows(provider, scheme) == scheme = "https" \/ (scheme = "http" /\ provider.plaintext)

\* Where the assertion goes: the schemes it is posted over, the endpoint's first.
PostedOver(provider, redirects) ==
  IF ~EndpointServes(provider) THEN <<>>
  ELSE <<provider.scheme>> \o SelectSeq(redirects, LAMBDA scheme : Follows(provider, scheme))

Assertion(file) == IF file = "blank" THEN Unknown ELSE file

\* parse_token_response: a lifetime that is not told is short, a long one is not
\* believed.
TokenOf(reply) ==
  IF reply.token \in {Unknown, ""} THEN Unknown
  ELSE [token |-> reply.token, lifetime |-> Min({MaxLifetime, IF reply.expires = Unknown THEN 60 ELSE reply.expires})]

\* describe_failure: what the body names, or else the body.
FailureDetail(reply) ==
  IF reply.error = Unknown /\ reply.description = Unknown THEN <<"body">>
  ELSE SelectSeq(<<reply.error, reply.description>>, LAMBDA part : part # Unknown)

NotExchanged(status, detail) == [token |-> Unknown, status |-> status, detail |-> detail]

\* fetch
Exchange(provider, redirects, file, reply) ==
  IF Assertion(file) = Unknown THEN NotExchanged(Unknown, <<"assertion">>)
  ELSE IF reply = Unknown \/ Len(PostedOver(provider, redirects)) <= Len(redirects)
       THEN NotExchanged(Unknown, <<"endpoint">>)
  ELSE IF reply.status \notin 200 .. 299 THEN NotExchanged(reply.status, FailureDetail(reply))
  ELSE IF TokenOf(reply) = Unknown THEN NotExchanged(200, <<"body">>)
  ELSE TokenOf(reply)

(***************************************************************************)
(* Lists put together from several answers                                 *)
(***************************************************************************)
\* Envelope::from_per_item, of a sequence of [key, ok, value].
PerItem(outcomes) ==
  [ items  |-> LET oks == SelectSeq(outcomes, LAMBDA o : o.ok) IN [i \in DOMAIN oks |-> oks[i].value],
    errors |-> {outcomes[i].key : i \in {j \in DOMAIN outcomes : ~outcomes[j].ok}} ]

QuotaTypes == <<"user", "client-id", "ip">>

\* Mutant of EntityKey: a quota is known by the types it names.
EntityKeyOfTypes(quota) == [i \in DOMAIN quota.entity |-> quota.entity[i][1]]

\* entity_key: the components of a quota as they are written, the default of a
\* type by a name of its own.
EntityKey(quota) ==
  [i \in DOMAIN quota.entity |->
     <<quota.entity[i][1], IF quota.entity[i][2] = Unknown THEN "<default>" ELSE quota.entity[i][2]>>]

\* quotas: one call for each type, of which `down` failed; an entity comes back
\* under every type it names and is kept once.
Quotas(answered, down) ==
  LET asked == SelectSeq(QuotaTypes, LAMBDA type : type \notin down)
      found == FlattenSeq([i \in DOMAIN asked |-> answered[asked[i]]])
      fresh == {i \in DOMAIN found : \A j \in 1 .. i - 1 : EntityKey(found[j]) # EntityKey(found[i])}
  IN  [ items  |-> [i \in 1 .. Cardinality(fresh) |-> found[SetToSortSeq(fresh, <)[i]]],
        errors |-> down ]

\* transactions: the listing, or what describing each of it answers.
Transactions(listed, details, described) ==
  LET sorted(rows) == SortSeq(rows, LAMBDA a, b : a.id < b.id)
      each == PerItem([i \in DOMAIN listed |->
                [key |-> listed[i].id, ok |-> described[listed[i].id] # Unknown,
                 value |-> [id |-> listed[i].id, state |-> described[listed[i].id]]]])
  IN  IF details THEN [items |-> sorted(each.items), errors |-> each.errors]
      ELSE [items |-> sorted(listed), errors |-> {}]

\* producers: the partitions asked for, or those the snapshot knows, each with
\* its leader's producers or an error.
Refuses == [items |-> <<>>, errors |-> {"bad request"}]

Producers(known, asked, producing) ==
  LET wanted == IF asked = Unknown THEN known ELSE asked
      ok(partition) == partition \in DOMAIN producing
      rows == FlattenSeq([i \in DOMAIN wanted |->
                IF ok(wanted[i]) THEN [j \in DOMAIN producing[wanted[i]] |-> <<wanted[i], producing[wanted[i]][j]>>]
                ELSE <<>>])
  IN  IF wanted = <<>> THEN Refuses
      ELSE [ items  |-> SortSeq(rows, LAMBDA a, b : a[1] < b[1] \/ (a[1] = b[1] /\ a[2] < b[2])),
             errors |-> {partition \in ToSet(wanted) : ~ok(partition)} ]

(***************************************************************************)
(* What they promise                                                       *)
(***************************************************************************)
\* One failure, one meaning: where it is the whole answer and where it is a note
\* on a page it has the same kind and may be retried or not alike; it is never
\* the caller's own sign-in that failed, and what is worth retrying is never
\* told as a request that was wrong.
FailuresAgree(fault, outcome) ==
  LET whole == FaultReply(fault)
      call  == CallReply(outcome)
  IN  /\ FaultNote(fault) = [kind |-> whole.kind, retriable |-> whole.retriable]
      /\ CallNote(outcome) = [kind |-> call.kind, retriable |-> call.retriable]
      /\ 401 \notin {whole.status, call.status}
      /\ whole.retriable => whole.status >= 500
      /\ whole.kind = "transport" <=> whole.retriable
      /\ call.kind \in {"transport", "timeout"} => call.status >= 500

\* What the worker's status says is kept: a missing connector and a missing
\* endpoint are told apart, and only an outage or a rebalance is worth another
\* try.  A registry behind the same proxy is out when the worker is.
StatusesAreKept(status, pathless) ==
  LET fault == FaultOf(status, pathless)
  IN  /\ FaultReply(fault).retriable <=> status >= 500 \/ status = 409
      /\ FaultReply(fault).kind = "unsupported" <=> status = 404 /\ pathless
      /\ FaultReply(fault).status = 404 <=> status = 404
      /\ status # 409 => (RegistryFaultOf(status) = "unreachable" <=> Retriable(fault))

\* A feature is offered exactly when there is a version of every key it needs
\* that both sides speak; where it is not, the key that is named is one of the
\* reasons, its ranges say why, and a broker that speaks more loses nothing.
FeaturesAreHonest(keys, advertised, ours, more) ==
  LET state     == FeatureState(keys, advertised, ours)
      spoken(range) == IF range = Unknown THEN {} ELSE range[1] .. range[2]
      shared(key, broker) == spoken(broker[key]) \cap spoken(ours[key])
      wider     == [key \in DOMAIN advertised |-> IF more[key] = Unknown THEN advertised[key] ELSE more[key]]
  IN  /\ state.available <=> \A i \in DOMAIN keys : shared(keys[i], advertised) # {}
      /\ ~state.available =>
           /\ state.key \in ToSet(keys)
           /\ spoken(state.broker) \cap spoken(state.ours) = {}
           /\ state.broker = Unknown <=> advertised[state.key] = Unknown
      /\ \A key \in ToSet(keys) :
           LET version == Negotiated(advertised[key], ours[key])
           IN  version # Unknown => version \in shared(key, advertised)
      /\ state.available /\ (\A key \in ToSet(keys) : spoken(advertised[key]) \subseteq spoken(wider[key]))
           => FeatureState(keys, wider, ours).available

\* Once a broker's answer is there, what leads to a page whose calls it cannot
\* speak is not offered: a cluster's items, and the tabs of its admin page.
\* Whatever is missing is missing for a reason: the connection, the grant, or,
\* of each of the features, a key.  The admin item is there exactly when its page
\* has a tab.
OffersAreServed(card, spoken, answered) ==
  LET range(some)  == [key \in KeysAsked |-> IF key \in some THEN <<0, 1>> ELSE Unknown]
      answer       == IF answered THEN Project(range(spoken), range(KeysAsked)) ELSE Unknown
      shown        == NavShown(card, answer)
      page         == AdminPage(answer)
      allowed(label) == card.status # "unreachable" /\ NavItems[label].resource \in card.viewable
  IN  /\ \A label \in shown : allowed(label)
      /\ answered => \A label \in (shown \cup page.tabs) \cap DOMAIN PageCalls : PageCalls[label] \subseteq spoken
      /\ \A label \in DOMAIN NavItems \ shown : allowed(label) =>
           /\ answered
           /\ \A feature \in NavItems[label].features : ~(ToSet(FeatureKeys[feature]) \subseteq spoken)
      /\ allowed("admin") => ("admin" \in shown <=> page.tabs # {})
      /\ page.none <=> page.tabs = {}
      /\ answered => DOMAIN answer.apiKeys = spoken /\ answer.aheadCount = 0

\* The assertion crosses the wire in the clear only where that was asked for; a
\* token is kept no longer than a day, nor than the issuer said in seconds it
\* counted, and a minute when it said nothing; a failure has the status of an
\* answer, which is what is not retried, exactly when there was an answer, and
\* says what the answer named.
ExchangesAreTold(provider, redirects, file, reply) ==
  LET got  == Exchange(provider, redirects, file, reply)
      over == PostedOver(provider, redirects)
  IN  /\ ToSet(over) \subseteq {"http", "https"} /\ ("http" \in ToSet(over) => provider.plaintext)
      /\ got.token # Unknown =>
           /\ file = "jwt" /\ over # <<>> /\ got.token = reply.token /\ got.token # ""
           /\ got.lifetime <= MaxLifetime
           /\ IF reply.expires = Unknown THEN got.lifetime = 60 ELSE got.lifetime <= reply.expires
      /\ got.token = Unknown =>
           /\ got.status # Unknown <=> file = "jwt" /\ reply # Unknown /\ Len(over) = Len(redirects) + 1
           /\ got.status # Unknown /\ got.status >= 300 =>
                ({reply.error, reply.description} \ {Unknown}) \subseteq ToSet(got.detail) /\ got.detail # <<>>

\* Nothing is lost between several answers: every quota one of whose types was
\* answered for is listed exactly once and every type that was not is named,
\* every transaction listed is a row or an error by its id, and every partition
\* asked about has its producers or an error.
ListsAreWhole(stored, down, listed, described, known, producing) ==
  LET names(quota, type) == \E i \in DOMAIN quota.entity : quota.entity[i][1] = type
      answered == [type \in ToSet(QuotaTypes) |-> SelectSeq(stored, LAMBDA quota : names(quota, type))]
      quotas   == Quotas(answered, down)
      rows     == Transactions(listed, TRUE, described)
      ids(seq) == {seq[i].id : i \in DOMAIN seq}
      page     == Producers(known, Unknown, producing)
  IN  /\ \A quota \in ToSet(stored) :
           Cardinality({i \in DOMAIN quotas.items : quotas.items[i] = quota})
             = IF \E type \in ToSet(QuotaTypes) \ down : names(quota, type) THEN 1 ELSE 0
      /\ quotas.errors = down
      /\ ids(rows.items) \cup rows.errors = ids(listed)
      /\ ids(rows.items) \cap rows.errors = {}
      /\ Len(rows.items) + Cardinality(rows.errors) = Len(Transactions(listed, FALSE, described).items)
      /\ \A i \in DOMAIN page.items, j \in DOMAIN page.items : i < j => page.items[i] # page.items[j]
      /\ \A partition \in ToSet(known) :
           IF partition \in DOMAIN producing
           THEN {row[2] : row \in {r \in ToSet(page.items) : r[1] = partition}} = ToSet(producing[partition])
           ELSE partition \in page.errors
=============================================================================
