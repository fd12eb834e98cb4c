------------------------------- MODULE MCAccess -------------------------------
\* Two environments; two people, one known by a group; a policy in which
\* two roles share a name, which a restart replaces by another in which the role
\* of that name is somebody else's.
EXTENDS Access, TLC

Alike == Permutations(Flows) \cup Permutations(Callbacks)

Person(subject, aliases) == [subject |-> subject, identifiers |-> {subject} \cup aliases]
MCPeople == {Person("s1", {"ada"}), Person("s2", {"team"})}

Labels(env) == {<<"env", env>>}
MCClusters == { [env |-> "dev",  id |-> "k", labels |-> Labels("dev"),  registry |-> "sr"],
                [env |-> "prod", id |-> "k", labels |-> Labels("prod"), registry |-> Absent] }
MCRegistries == {[env |-> "dev", id |-> "sr"], [env |-> "prod", id |-> "spare"]}
MCConnects   == {[env |-> "dev", id |-> "c", kafka |-> "k", ceiling |-> {"restart", "create"}]}

Granted(resource, value, actions) == [resource |-> resource, value |-> value, actions |-> actions]
Role(name, subjects, labels, permissions) ==
  [name |-> name, subjects |-> subjects, clusters |-> {{"k"}}, labels |-> labels, permissions |-> permissions]

Reads  == Granted("topic", {"public"}, {All})
Views  == Granted("topic", Absent, {"view"})
Hooks  == {Granted("connect", {"c"}, {All}), Granted("connector", {"x"}, {"operate"})}
MCPolicies ==
  0 :> [enforcing |-> TRUE,
        roles |-> {Role("dev", {Every}, Labels("dev"), {Reads}),
                   Role("ops", {"team"}, {}, {Views} \cup Hooks),
                   Role("ops", {"eve"}, Labels("prod"), {Reads})}] @@
  1 :> [enforcing |-> TRUE,
        roles |-> {Role("dev", {Every}, Labels("prod"), {Views}),
                   Role("ops", {"ada"}, {}, {Reads} \cup Hooks)}] @@
  2 :> [enforcing |-> FALSE, roles |-> {}]

Question(kind, env, id, topic, operation, name) ==
  [kind |-> kind, env |-> env, id |-> id, topic |-> topic, operation |-> operation, name |-> name]
MCQuestions ==
  {Question("page", env, "k", topic, Absent, Absent) : env \in {"dev", "prod"}, topic \in {"public", "secret"}}
  \cup {Question("registry", "dev", "sr", Absent, Absent, Absent),
        Question("registry", "prod", "spare", Absent, Absent, Absent),
        Question("connect", "dev", "c", Absent, Absent, Absent)}
  \cup {Question("write", "dev", "c", Absent, operation, "x") : operation \in {"restart", "create"}}
=============================================================================
