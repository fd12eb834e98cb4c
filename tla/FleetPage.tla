------------------------------- MODULE FleetPage -------------------------------
(***************************************************************************)
(* What the fleet's pages put before a caller: the sections of             *)
(* kaas-ui-core's dto.rs, the routes of clusters.rs that serve them, what  *)
(* a card says the caller may do, and the writes a Connect page offers.    *)
(* Fleet has the lookups behind the addresses; this module is about the    *)
(* lists that lead to them.                                                *)
(*                                                                         *)
(* An environment is [id, resources], a resource of its inventory          *)
(* [id, labels].                                                           *)
(***************************************************************************)
EXTENDS Fleet, Sequences

CONSTANT Environments   \* the declared environments, in declared order

\* Config::validate's duplicate ids; what is nested in an environment is in it.
ASSUME EnvironmentsAreKeyed ==
  /\ \A i, j \in DOMAIN Environments : Environments[i].id = Environments[j].id => i = j
  /\ \A one \in Clusters \cup Registries \cup Connects : \E i \in DOMAIN Environments : Environments[i].id = one.env

\* And of Connect clusters; what stands for no cluster, or a hidden one, is no id.
ASSUME ConnectsAreKeyed ==
  /\ \A a, b \in Connects : a.env = b.env /\ a.id = b.id => a = b
  /\ \A one \in Clusters \cup Connects : one.id # Absent

\* ResourceEntry::effective_labels, as a cluster has them.
ASSUME ClustersAreLabelled ==
  \A cluster \in Clusters : \A label \in cluster.labels : label[1] = "env" => label = EnvironmentLabel(cluster.env)

ASSUME CeilingsAreOperations == \A connect \in Connects : connect.ceiling \subseteq Operations

Declared(env) == {Environments[i] : i \in {j \in DOMAIN Environments : Environments[j].id = env}}

\* ResourceEntry::effective_labels: the nesting wins over a label that disagrees.
EffectiveLabels(resource, env) ==
  {label \in resource.labels : label[1] # "env"} \cup {EnvironmentLabel(env)}

\* Registry::resources_visible, of one environment.
ResourcesVisible(access, environment) ==
  { resource \in environment.resources :
      Sees(access, [id |-> resource.id, labels |-> EffectiveLabels(resource, environment.id)]) }

\* Access::permissions: what a cluster's card tells the browser to offer.
AllResources == {"topic", "cluster_config", "consumer", "connector", "connect"}

Permissions(access, cluster) ==
  { grant \in (AllResources \X {"view"}) \cup {<<"topic", "messages_read">>} :
      May(access, cluster, grant[1], grant[2], Absent) }

\* ClusterCard::of, the parts that depend on who looks.
Card(access, cluster) ==
  [ env |-> cluster.env, id |-> cluster.id, registry |-> cluster.registry,
    grants |-> Permissions(access, cluster) ]

Cards(access) == {Card(access, cluster) : cluster \in Visible(access)}

\* EnvironmentRegistry::of
RegistryRows(access, environment, cards) ==
  { [id |-> registry.id,
     usedBy |-> {card.id : card \in {c \in cards : c.registry = registry.id /\ <<"topic", "view">> \in c.grants}}]
    : registry \in UNION {RegistryFor(access, environment.id, r.id) :
                          r \in {q \in Registries : q.env = environment.id}} }

\* Registry::connect_clusters_in
ConnectsIn(access, env) ==
  UNION {ConnectFor(access, env, connect.id) : connect \in {c \in Connects : c.env = env}}

\* EnvironmentSection::of: nothing seen, no section.
SectionOf(access, environment, cards) ==
  LET resources == ResourcesVisible(access, environment)
  IN  IF cards = {} /\ resources = {} THEN {}
      ELSE {[ id         |-> environment.id,
              clusters   |-> cards,
              registries |-> RegistryRows(access, environment, cards),
              connects   |-> {connect.id : connect \in ConnectsIn(access, environment.id)},
              resources  |-> resources ]}

MembersOf(cards, env) == {card \in cards : card.env = env}

\* fleet, EnvironmentSection::arrange
FleetOf(access) ==
  UNION {SectionOf(access, Environments[i], MembersOf(Cards(access), Environments[i].id)) : i \in DOMAIN Environments}

\* Registry::environment, and the route that shows one.
EnvironmentFor(access, env) == {environment \in Declared(env) : VisibleIn(access, env) # {}}

EnvironmentPage(access, env) ==
  UNION {SectionOf(access, environment, MembersOf(Cards(access), env)) : environment \in EnvironmentFor(access, env)}

\* write_options and create_option: the ceiling's operations, each with what the
\* gate would say; a create has no connector yet.
Offers(access, connect, connector) ==
  {<<operation, Check(access, operation, Target(connect, connector), connect.ceiling)>>
   : operation \in connect.ceiling \ {"create"}}
  \cup {<<operation, Check(access, operation, Target(connect, Absent), connect.ceiling)>>
        : operation \in connect.ceiling \cap {"create"}}

(***************************************************************************)
(* What they promise                                                       *)
(***************************************************************************)
SectionsOf(fleet, env) == {section \in fleet : section.id = env}

\* A cluster stands in the section of its environment exactly when its own
\* address answers.
ClustersAreListed(access, fleet) ==
  \A cluster \in Clusters :
    ClusterFor(access, cluster.env, cluster.id) # {}
      <=> \E section \in SectionsOf(fleet, cluster.env) : \E card \in section.clusters : card.id = cluster.id

\* So does a schema registry, said to be used by the clusters whose topics the
\* caller may view, and by one at least if any uses it.
RegistriesAreListed(access, fleet) ==
  \A registry \in Registries :
    /\ RegistryFor(access, registry.env, registry.id) # {}
         <=> \E section \in SectionsOf(fleet, registry.env) : \E row \in section.registries : row.id = registry.id
    /\ \A section \in SectionsOf(fleet, registry.env) : \A row \in section.registries :
         row.id = registry.id =>
           /\ row.usedBy = {cluster.id : cluster \in ReadersOf(access, registry)}
           /\ (\E cluster \in Clusters : References(cluster, registry)) => row.usedBy # {}

IsListed(fleet, connect) == \E section \in SectionsOf(fleet, connect.env) : connect.id \in section.connects

\* And a Connect cluster; the connectors of a topic's page are those of the
\* Connect clusters in the section, asked for only by who may view the cluster's
\* topics.
ConnectsAreListed(access, fleet) ==
  /\ \A connect \in Connects : ConnectFor(access, connect.env, connect.id) # {} <=> IsListed(fleet, connect)
  /\ \A cluster \in Clusters :
       /\ ConnectsOf(access, cluster.env, cluster.id) # {} => cluster \in ReadersIn(access, cluster.env)
       /\ ConnectsOf(access, cluster.env, cluster.id)
            = {connect \in Connects : /\ connect.env = cluster.env /\ connect.kafka = cluster.id
                                      /\ IsListed(fleet, connect)}

\* Roles that select by an environment's label reach into no other.
LabelsConfine(access, fleet) ==
  \A env \in {Environments[i].id : i \in DOMAIN Environments} :
    ~access.administrator /\ (\A role \in access.roles : EnvironmentLabel(env) \in role.labels)
      => \A section \in fleet : section.id = env

\* The code lists a section of nothing but topics, groups and the like
\* (clusters.rs:120) and answers a request for its environment with a 404
\* (clusters.rs:135): the one kind of section SectionsAreWhole says nothing about.
OnlyResources(section) == section.clusters = {}

\* A section is there once, and only for something the caller sees; and its
\* environment's own page is that section, unless it has only resources.
SectionsAreWhole(access, fleet) ==
  \A section \in fleet :
    /\ Cardinality(SectionsOf(fleet, section.id)) = 1
    /\ VisibleIn(access, section.id) # {} \/ section.resources # {}
    /\ ~OnlyResources(section) => EnvironmentPage(access, section.id) = SectionsOf(fleet, section.id)

\* The fleet leads to what may be opened and to nothing else.
FleetIsAddressable(access) ==
  \A fleet \in {FleetOf(access)} :
    /\ ClustersAreListed(access, fleet)
    /\ RegistriesAreListed(access, fleet)
    /\ ConnectsAreListed(access, fleet)
    /\ LabelsConfine(access, fleet)
    /\ SectionsAreWhole(access, fleet)

\* A card offers what some name would be granted, and no more: an action is on it
\* exactly when there is a name the caller may do it to.
CardsAreExact(access, names) ==
  \A cluster \in Visible(access) :
    \A grant \in (AllResources \X {"view"}) \cup {<<"topic", "messages_read">>} :
      grant \in Permissions(access, cluster)
        <=> \E name \in names : May(access, cluster, grant[1], grant[2], name)

\* For somebody signed in, a Connect page offers what the gate will grant when
\* the write is asked for: of every operation, those offered and allowed are
\* those authorised, the create although its connector is not named yet.
OffersAreKept(access, who, names) ==
  IsAuthenticated(who) =>
    \A env \in {connect.env : connect \in Connects} : \A connect \in ConnectsIn(access, env) : \A name \in names :
      {operation \in Operations :
         Authorize(access, who, operation, Target(connect, name), connect.ceiling) = "granted"}
      = {offer[1] : offer \in {o \in Offers(access, connect, name) : o[2] = "granted"}}
=============================================================================
