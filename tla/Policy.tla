------------------------------- MODULE Policy -------------------------------
(***************************************************************************)
(* Who may do what: kaas-ui-auth's policy.rs and gate.rs.                  *)
(*                                                                         *)
(* A pattern is the set of names it matches (Glob is about how it does),   *)
(* so a role is                                                            *)
(*   [name, subjects, clusters, labels, permissions]                       *)
(* with subjects a set of identifiers, clusters a set of patterns, labels  *)
(* a set of label pairs, and permissions a set of                          *)
(*   [resource, value, actions]                                            *)
(* with value a pattern or Absent.  A principal is [subject, identifiers], *)
(* an access [roles, administrator], a cluster [id, labels].               *)
(***************************************************************************)
EXTENDS FiniteSets

CONSTANTS
  Absent,   \* no value, no name
  Nobody    \* the subject of the anonymous caller

Every == "*"   \* the subject that stands for any authenticated caller
All   == "all" \* the action that stands for every action of its resource

IsNamed(resource) == resource # "cluster_config"

\* Resource::actions
Actions(resource) ==
  CASE resource = "topic"     -> {"view", "messages_read"}
    [] resource \in {"cluster_config", "consumer"} -> {"view"}
    [] resource = "connector" -> {"operate", "edit", "delete", "reset_offsets"}
    [] resource = "connect"   -> {"view", "create"}

Expand(action, resource) == IF action = All THEN Actions(resource) ELSE {action}

Covers(permission, resource, action, name) ==
  /\ permission.resource = resource
  /\ \E held \in permission.actions : action \in Expand(held, resource)
  /\ (permission.value # Absent /\ name # Absent /\ IsNamed(resource)) => name \in permission.value

(***************************************************************************)
(* Principals and roles                                                    *)
(***************************************************************************)
Anonymous == [subject |-> Nobody, identifiers |-> {Nobody}]

IsAuthenticated(who) == who.subject # Nobody

\* Role::covers: "*" is anyone signed in, and never the anonymous caller.
Applies(role, who) ==
  \/ Every \in role.subjects /\ IsAuthenticated(who)
  \/ role.subjects \cap who.identifiers # {}

\* Role::selects
Selects(role, cluster) ==
  /\ role.clusters = {} \/ \E pattern \in role.clusters : cluster.id \in pattern
  /\ role.labels \subseteq cluster.labels

Admin == [roles |-> {}, administrator |-> TRUE]

\* Policy::access, at a login and of the anonymous caller.
AccessOf(roles, enforcing, who) ==
  IF ~enforcing THEN Admin
  ELSE [roles |-> {role \in roles : Applies(role, who)}, administrator |-> FALSE]

\* Policy::access_for_roles, of a session.
AccessForRoles(roles, enforcing, names) ==
  IF ~enforcing THEN Admin
  ELSE [roles |-> {role \in roles : role.name \in names}, administrator |-> FALSE]

RoleNames(access) == {role.name : role \in access.roles}

(***************************************************************************)
(* What an access answers                                                  *)
(***************************************************************************)
Sees(access, cluster) ==
  \/ access.administrator
  \/ \E role \in access.roles : Selects(role, cluster) /\ role.permissions # {}

RolePermits(access, cluster, resource, action, name) ==
  \E role \in access.roles :
    /\ Selects(role, cluster)
    /\ \E permission \in role.permissions : Covers(permission, resource, action, name)

May(access, cluster, resource, action, name) ==
  access.administrator \/ RolePermits(access, cluster, resource, action, name)

MayReadTopic(access, cluster, topic) == May(access, cluster, "topic", "messages_read", topic)

(***************************************************************************)
(* The write gate                                                          *)
(***************************************************************************)
Operations == {"restart", "restart_task", "pause", "resume", "stop", "reset_topics",
               "edit", "create", "delete", "reset_offsets", "alter_offsets"}

\* Operation::permission
PermissionFor(operation) ==
  CASE operation \in {"restart", "restart_task", "pause", "resume", "stop", "reset_topics"} ->
         <<"connector", "operate">>
    [] operation = "edit"   -> <<"connector", "edit">>
    [] operation = "create" -> <<"connect", "create">>
    [] operation = "delete" -> <<"connector", "delete">>
    [] operation \in {"reset_offsets", "alter_offsets"} -> <<"connector", "reset_offsets">>

\* A target is [cluster, host, name]: the Kafka cluster roles select on, the
\* Connect cluster, the connector.
Named(target, resource) == IF resource = "connect" THEN target.host ELSE target.name

\* Access::check: "granted", or which gate refused.
Check(access, operation, target, ceiling) ==
  LET asks == PermissionFor(operation)
  IN  CASE access.administrator -> "anonymous"
        [] ~access.administrator /\ operation \notin ceiling -> "not enabled"
        [] ~access.administrator /\ operation \in ceiling ->
             IF RolePermits(access, target.cluster, asks[1], asks[2], Named(target, asks[1]))
             THEN "granted" ELSE "forbidden"

Authorize(access, who, operation, target, ceiling) ==
  IF ~IsAuthenticated(who) THEN "anonymous" ELSE Check(access, operation, target, ceiling)
=============================================================================
