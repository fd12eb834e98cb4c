-------------------------------- MODULE Fleet --------------------------------
(***************************************************************************)
(* What a caller finds in the fleet: the lookups of kaas-ui-core's         *)
(* registry.rs, each made as somebody.  Every one that fails is the same   *)
(* 404, whether the thing is not configured or not the caller's to see.    *)
(*                                                                         *)
(* A cluster is [env, id, labels, registry], a schema registry [env, id],  *)
(* a Connect cluster [env, id, kafka, ceiling], where registry and kafka   *)
(* are ids in the same environment or Absent.                              *)
(***************************************************************************)
EXTENDS Policy

CONSTANTS Clusters, Registries, Connects

ASSUME ClustersAreKeyed == \A a, b \in Clusters : a.env = b.env /\ a.id = b.id => a = b

Visible(access) == {cluster \in Clusters : Sees(access, cluster)}

VisibleIn(access, env) == {cluster \in Visible(access) : cluster.env = env}

\* Registry::get, the only way to a cluster's handle.
ClusterFor(access, env, id) == {cluster \in VisibleIn(access, env) : cluster.id = id}

\* readers_in: the clusters here whose topics the caller may view.
ReadersIn(access, env) ==
  {cluster \in VisibleIn(access, env) : May(access, cluster, "topic", "view", Absent)}

References(cluster, registry) == cluster.env = registry.env /\ cluster.registry = registry.id

\* Registry::schema_registry: with a reader of a cluster that references it,
\* or with any reader in the environment when none does.
RegistryFor(access, env, id) ==
  { registry \in Registries :
      /\ registry.env = env /\ registry.id = id
      /\ LET users == {cluster \in Clusters : References(cluster, registry)}
         IN  IF users = {} THEN ReadersIn(access, env) # {}
             ELSE ReadersIn(access, env) \cap users # {} }

\* connect_target: a Connect cluster is selected by its Kafka cluster, or by
\* its own id and its environment's label.
EnvironmentLabel(env) == <<"env", env>>

SelectedBy(connect) ==
  LET kafka == {cluster \in Clusters : cluster.env = connect.env /\ cluster.id = connect.kafka}
  IN  CASE kafka # {} -> CHOOSE cluster \in kafka : TRUE
        [] kafka = {} -> [ id     |-> IF connect.kafka = Absent THEN connect.id ELSE connect.kafka,
                           labels |-> {EnvironmentLabel(connect.env)} ]

Target(connect, connector) ==
  [cluster |-> SelectedBy(connect), host |-> connect.id, name |-> connector]

\* Registry::connect_cluster: connect view on it, and a reader of its Kafka
\* cluster, or of any cluster here when it names none.
ConnectFor(access, env, id) ==
  { connect \in Connects :
      /\ connect.env = env /\ connect.id = id
      /\ May(access, SelectedBy(connect), "connect", "view", id)
      /\ \E cluster \in ReadersIn(access, env) : connect.kafka \in {Absent, cluster.id} }

\* readers_of: who reads this registry, of those whose topics the caller may view.
ReadersOf(access, registry) ==
  {cluster \in ReadersIn(access, registry.env) : References(cluster, registry)}

\* connect_clusters_of: those whose connectors can be about a cluster's topics.
ConnectsOf(access, env, kafka) ==
  UNION {ConnectFor(access, env, connect.id) :
           connect \in {c \in Connects : c.env = env /\ c.kafka = kafka}}

=============================================================================
