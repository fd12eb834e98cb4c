---------------------------- MODULE Configuration ----------------------------
(***************************************************************************)
(* What a configuration file may say: Config::validate of kaas-ui-core's   *)
(* config.rs, the environment variables credentials are read from, and     *)
(* what each entry reads when its client is built (to_settings and         *)
(* registry.rs).                                                           *)
(*                                                                         *)
(* An id is a sequence of characters.  An environment is [id, registries,  *)
(* clusters, connects, resources], with sequences of                       *)
(*   registry  [id, scheme, username, password, bearer, tls, oauth]        *)
(*   cluster   [id, envLabel, bootstrap, sasl, password, oauth, tls,       *)
(*              registry, codecs]                                          *)
(*   connect   [id, scheme, username, password, bearer, tls, kafka, writes]*)
(* and a sequence of ids.  Fields that are only set or not are booleans,   *)
(* oauth is Absent or [plaintext, secret, assertion], tls Absent or [cert, *)
(* key], and a cluster's sasl Absent, "password" or "oauth".               *)
(***************************************************************************)
EXTENDS Policy, SequencesExt

CONSTANTS
  SafeChars,  \* letters, digits, '-' and '_'
  Upper       \* character -> what flatten makes of it: a capital, or "_"

\* A field that is not there is no value that one could have.
ASSUME AbsentIsNoValue ==
  Absent \notin {"password", "oauth"} \cup [plaintext : BOOLEAN, secret : BOOLEAN, assertion : BOOLEAN]

PathSafe(id) == id # <<>> /\ ToSet(id) \subseteq SafeChars

Distinct(entries) == \A i, j \in DOMAIN entries : entries[i].id = entries[j].id => i = j

(***************************************************************************)
(* The variables credentials come from                                     *)
(***************************************************************************)
Flatten(id) == [i \in DOMAIN id |-> Upper[id[i]]]

\* secret_var: KAAS_UI_<credential>_<environment>_<id>
SecretVar(credential, env, id) == <<credential>> \o Flatten(env) \o <<"_">> \o Flatten(id)

Claim(credential, env, kind, id) == [credential |-> credential, env |-> env, kind |-> kind, id |-> id]

VarOf(claim) == SecretVar(claim.credential, claim.env, claim.id)

\* The variables an environment's entries are given, whether or not they read
\* them.
Claims(env) ==
  {Claim(credential, env.id, "schema registry", registry.id) :
      registry \in ToSet(env.registries), credential \in {"password", "bearer_token"}}
  \cup {Claim("client_secret", env.id, "schema registry", registry.id) :
      registry \in {r \in ToSet(env.registries) : r.oauth # Absent /\ ~r.oauth.assertion}}
  \cup {Claim("password", env.id, "cluster", cluster.id) :
      cluster \in {k \in ToSet(env.clusters) : k.sasl = "password"}}
  \cup {Claim("client_secret", env.id, "cluster", cluster.id) :
      cluster \in {k \in ToSet(env.clusters) : k.sasl = "oauth"}}
  \cup {Claim(credential, env.id, "Connect cluster", connect.id) :
      connect \in ToSet(env.connects), credential \in {"password", "bearer_token"}}

\* Mutant of Owner: the kind is left out.
OwnerById(claim) == claim.id

\* Who a variable belongs to: without the environment.
Owner(claim) == <<claim.kind, claim.id>>

\* claim: a variable that is taken again must be taken by the same owner.
ClaimsAgree(envs) ==
  LET all == UNION {Claims(env) : env \in ToSet(envs)}
  IN  \A a, b \in all : VarOf(a) = VarOf(b) => Owner(a) = Owner(b)

\* What an entry reads when its client is built, inline credentials missing:
\* to_settings of the registry and Connect entries, connection settings of a
\* cluster's SASL.
ReadsOfBasic(env, kind, entry) ==
  IF entry.username
  THEN IF entry.password THEN {} ELSE {Claim("password", env.id, kind, entry.id)}
  ELSE IF entry.bearer THEN {} ELSE {Claim("bearer_token", env.id, kind, entry.id)}

ReadsOfOauth(env, kind, entry) ==
  IF entry.oauth.secret \/ entry.oauth.assertion THEN {}
  ELSE {Claim("client_secret", env.id, kind, entry.id)}

ReadsOfRegistry(env, registry) ==
  IF registry.oauth # Absent THEN ReadsOfOauth(env, "schema registry", registry)
  ELSE ReadsOfBasic(env, "schema registry", registry)

ReadsOf(env) ==
  (UNION {ReadsOfRegistry(env, registry) : registry \in ToSet(env.registries)})
  \cup (UNION {ReadsOfBasic(env, "Connect cluster", connect) : connect \in ToSet(env.connects)})
  \cup {Claim("password", env.id, "cluster", cluster.id) :
          cluster \in {k \in ToSet(env.clusters) : k.sasl = "password" /\ ~k.password}}
  \cup (UNION {ReadsOfOauth(env, "cluster", cluster) :
          cluster \in {k \in ToSet(env.clusters) : k.sasl = "oauth"}})

(***************************************************************************)
(* What a client is built with                                             *)
(*                                                                         *)
(* given is the variables of the process that are set to more than blanks, *)
(* a secret is WrittenHere or the variable it was read from, and what is   *)
(* built is [mode, secret], or Unbuilt, which ends the start-up.           *)
(***************************************************************************)
WrittenHere == <<"written">>
Unbuilt     == [mode |-> "refused", secret |-> <<>>]
Unsigned    == [mode |-> "none", secret |-> <<>>]

\* Written here it wins, omitted it is read; empty if there is none to read.
Secret(written, claim, given) ==
  IF written THEN WrittenHere ELSE IF VarOf(claim) \in given THEN VarOf(claim) ELSE <<>>

\* secret_from_env, where a secret is demanded
Demanding(mode, secret) == IF secret = <<>> THEN Unbuilt ELSE [mode |-> mode, secret |-> secret]

\* oauth_provider: an assertion file is read when a token is bought, not here.
OauthAuth(env, kind, entry, given) ==
  IF ~entry.oauth.assertion
  THEN Demanding("oauth", Secret(entry.oauth.secret, Claim("client_secret", env.id, kind, entry.id), given))
  ELSE IF entry.oauth.secret THEN Unbuilt ELSE [mode |-> "assertion", secret |-> <<>>]

\* to_settings, without oauth: a bearer token is asked of the environment, a
\* password demanded of it.
BasicAuth(env, kind, entry, given) ==
  IF entry.username
  THEN Demanding("basic", Secret(entry.password, Claim("password", env.id, kind, entry.id), given))
  ELSE LET token == Secret(entry.bearer, Claim("bearer_token", env.id, kind, entry.id), given)
       IN  IF token = <<>> THEN Unsigned ELSE [mode |-> "bearer", secret |-> token]

RegistryAuth(env, registry, given) ==
  IF registry.oauth # Absent THEN OauthAuth(env, "schema registry", registry, given)
  ELSE BasicAuth(env, "schema registry", registry, given)

\* build_sasl and password_sasl
ClusterAuth(env, cluster, given) ==
  CASE cluster.sasl = "oauth"    -> OauthAuth(env, "cluster", cluster, given)
    [] cluster.sasl = "password" ->
         Demanding("password", Secret(cluster.password, Claim("password", env.id, "cluster", cluster.id), given))
    [] OTHER                     -> Unsigned

\* Every client a configuration has built, by the place of its entry.
AuthsOf(i, env, given) ==
  {<<i, "registry", j, RegistryAuth(env, env.registries[j], given)>> : j \in DOMAIN env.registries}
  \cup {<<i, "cluster", j, ClusterAuth(env, env.clusters[j], given)>> : j \in DOMAIN env.clusters}
  \cup {<<i, "connect", j, BasicAuth(env, "Connect cluster", env.connects[j], given)>> : j \in DOMAIN env.connects}

Auths(config, given) ==
  UNION {AuthsOf(i, config.environments[i], given) : i \in DOMAIN config.environments}

(***************************************************************************)
(* Entries                                                                 *)
(***************************************************************************)
HalfACertificate(tls) == tls # Absent /\ tls.cert # tls.key

\* A bearer token of any kind must not be readable on the path.
InTheClear(oauth, encrypted) == oauth # Absent /\ ~encrypted /\ ~oauth.plaintext

RegistryValid(registry) ==
  /\ PathSafe(registry.id) /\ registry.scheme \in {"http", "https"}
  /\ registry.password => registry.username
  /\ ~(registry.username /\ registry.bearer)
  /\ registry.tls # Absent => registry.scheme = "https"
  /\ registry.oauth # Absent => ~registry.username /\ ~registry.password /\ ~registry.bearer
  /\ ~InTheClear(registry.oauth, registry.scheme = "https")

ClusterValid(env, cluster) ==
  /\ PathSafe(cluster.id) /\ ~cluster.envLabel /\ cluster.bootstrap
  /\ cluster.sasl = "oauth" => ~InTheClear(cluster.oauth, cluster.tls # Absent)
  /\ ~HalfACertificate(cluster.tls)
  /\ cluster.registry # Absent => \E registry \in ToSet(env.registries) : registry.id = cluster.registry
  /\ \A codec \in cluster.codecs : codec.topic # <<>> /\ (codec.key \/ codec.value)

ConnectValid(env, connect, auth) ==
  /\ PathSafe(connect.id) /\ connect.scheme \in {"http", "https"}
  /\ connect.id \notin ToSet(env.resources)
  /\ connect.password => connect.username
  /\ ~(connect.username /\ connect.bearer)
  /\ ~HalfACertificate(connect.tls)
  /\ connect.kafka # Absent => \E cluster \in ToSet(env.clusters) : cluster.id = connect.kafka
  /\ connect.writes # Absent => auth /\ connect.writes # {}

RoleValid(role) ==
  /\ role.name # "" /\ role.subjects # {} /\ role.permissions # {}
  /\ \A permission \in role.permissions :
       /\ permission.actions # {}
       /\ permission.value # Absent => IsNamed(permission.resource)
       /\ permission.actions \subseteq {All} \cup Actions(permission.resource)

EnvironmentValid(env, auth) ==
  /\ PathSafe(env.id)
  /\ Distinct(env.registries) /\ Distinct(env.clusters) /\ Distinct(env.connects)
  /\ IsInjective(env.resources) /\ <<>> \notin ToSet(env.resources)
  /\ \A registry \in ToSet(env.registries) : RegistryValid(registry)
  /\ \A cluster \in ToSet(env.clusters) : ClusterValid(env, cluster)
  /\ \A connect \in ToSet(env.connects) : ConnectValid(env, connect, auth)

\* Config::validate, of [environments, auth, roles].
Valid(config) ==
  /\ config.environments # <<>> /\ Distinct(config.environments)
  /\ \A env \in ToSet(config.environments) : EnvironmentValid(env, config.auth)
  /\ ClaimsAgree(config.environments)
  /\ \E env \in ToSet(config.environments) : env.clusters # <<>>
  /\ \A role \in config.roles : RoleValid(role)

(***************************************************************************)
(* Properties                                                              *)
(***************************************************************************)
\* Premise of both: no two environments' ids flatten to the same letters, since
\* the owner of a variable is told by kind and id alone.
FlattenedApart(envs) == \A i, j \in DOMAIN envs : Flatten(envs[i].id) = Flatten(envs[j].id) => i = j

\* Two entries of a configuration that is accepted never read a credential from
\* one variable, so one cluster's or registry's secret is not sent to another,
\* whatever flattening makes of their ids: the '_' between environment and id
\* may be part of either.
SecretsAreApart(config) ==
  LET reads == UNION {ReadsOf(env) : env \in ToSet(config.environments)}
  IN  Valid(config) /\ FlattenedApart(config.environments) =>
        \A a, b \in reads : VarOf(a) = VarOf(b) => a = b

ClaimedVars(envs) == {VarOf(claim) : claim \in UNION {Claims(env) : env \in ToSet(envs)}}
ReadVars(envs)    == {VarOf(claim) : claim \in UNION {ReadsOf(env) : env \in ToSet(envs)}}

\* What the entry of a client buys its token with, and whether it names two ways.
OauthOf(envs, client) ==
  LET env == envs[client[1]]
  IN  CASE client[2] = "registry" -> env.registries[client[3]].oauth
        [] client[2] = "cluster"  -> env.clusters[client[3]].oauth
        [] OTHER                  -> Absent

NamesBoth(oauth) == oauth # Absent /\ oauth.secret /\ oauth.assertion

\* A client that presents a variable, and had nothing to present without it.
Became(client, bare, variable) ==
  /\ client[4].secret = variable
  /\ \E was \in bare :
       /\ SubSeq(was, 1, 3) = SubSeq(client, 1, 3)
       /\ was[4] = Unbuilt \/ (was[4] = Unsigned /\ client[4].mode = "bearer")

\* A variable is one client's: setting one changes what one client presents, at
\* most, and only a client whose entry left that credential out, which had
\* nothing to present and becomes a bearer of it or could not be built for want
\* of it.  Every client of a configuration that is accepted can be built with the
\* environment alone, unless its entry names two ways to buy a token.
AuthIsOnesOwn(config) ==
  LET envs == config.environments
  IN  Valid(config) /\ FlattenedApart(envs) =>
        \A bare \in {Auths(config, {})}, all \in {ClaimedVars(envs)}, read \in {ReadVars(envs)} :
          /\ \A variable \in all : \A told \in {Auths(config, {variable}) \ bare} :
               /\ Cardinality(told) = IF variable \in read THEN 1 ELSE 0
               /\ \A client \in told : Became(client, bare, variable)
          /\ \A client \in Auths(config, all) : client[4] = Unbuilt <=> NamesBoth(OauthOf(envs, client))
=============================================================================
