----------------------------- MODULE Rules_proofs -----------------------------
(***************************************************************************)
(* Proofs about the rules that run `rules` enumerates, for every           *)
(* configuration, definition and input that the types allow: which         *)
(* credential an entry reads and its client is built with, which prefixes  *)
(* are left out of sight, what an edit of a connector sends, and with them *)
(* the invariant SecretsStayPut of RulesSpec; then a group's lags, what is *)
(* offered on a page, what a payload is shown as, which addresses the page *)
(* of the fleet lists, and what a write is answered.                       *)
(***************************************************************************)
EXTENDS MCRules, TLAPS, FiniteSetTheorems, SequenceTheorems

(***************************************************************************)
(* Credentials                                                             *)
(***************************************************************************)
\* An id is a sequence of characters.
IsText(id) == id \in Seq(ToSet(id))

TypedEntries(entries) == \A i \in DOMAIN entries : IsText(entries[i].id)

\* What serde makes of an environment: ids are text, and a cluster has the fields
\* of OAuth when that is its SASL.
TypedEnvironment(env) ==
  /\ IsText(env.id)
  /\ TypedEntries(env.registries)
  /\ TypedEntries(env.clusters)
  /\ TypedEntries(env.connects)
  /\ \A i \in DOMAIN env.clusters : env.clusters[i].sasl = "oauth" <=> env.clusters[i].oauth # Absent

TypedConfig(config) == \A i \in DOMAIN config.environments : TypedEnvironment(config.environments[i])

LEMMA FlattenIsText ==
  ASSUME NEW S, NEW id, IsText(id), {Upper[c] : c \in ToSet(id)} \subseteq S
  PROVE  Flatten(id) \in Seq(S)
<1>1. PICK n \in Nat : id \in [1 .. n -> ToSet(id)]
  BY SeqDef DEF IsText
<1>2. DOMAIN id = 1 .. n /\ \A i \in 1 .. n : id[i] \in ToSet(id)
  BY <1>1
<1>3. Flatten(id) \in [1 .. n -> S]
  BY <1>2 DEF Flatten
<1>4. QED
  BY <1>3, SeqDef

\* What ends alike is told apart by what it begins with.
LEMMA SuffixCancels ==
  ASSUME NEW S, NEW s \in Seq(S), NEW t \in Seq(S), NEW u \in Seq(S), s \o u = t \o u
  PROVE  s = t
<1>1. Len(s) = Len(t)
  <2>1. Len(s \o u) = Len(s) + Len(u) /\ Len(t \o u) = Len(t) + Len(u)
    BY ConcatProperties
  <2>2. Len(s) \in Nat /\ Len(t) \in Nat /\ Len(u) \in Nat
    BY LenProperties
  <2>3. QED
    BY <2>1, <2>2
<1>2. \A i \in 1 .. Len(s) : (s \o u)[i] = s[i] /\ (t \o u)[i] = t[i]
  BY <1>1, ConcatProperties, LenProperties
<1>3. QED
  BY <1>1, <1>2, SeqEqual

LEMMA SingleIsSeq ==
  ASSUME NEW S, NEW a \in S
  PROVE  <<a>> \in Seq(S)
OBVIOUS

LEMMA PrefixCancels ==
  ASSUME NEW S, NEW s \in Seq(S), NEW t \in Seq(S), NEW a \in S, NEW b \in S, <<a>> \o s = <<b>> \o t
  PROVE  a = b /\ s = t
<1>0. <<a>> \in Seq(S) /\ <<b>> \in Seq(S) /\ Len(<<a>>) = 1 /\ Len(<<b>>) = 1
  OBVIOUS
<1>1. Len(s) = Len(t)
  <2>1. Len(<<a>> \o s) = 1 + Len(s) /\ Len(<<b>> \o t) = 1 + Len(t)
    BY <1>0, ConcatProperties
  <2>2. Len(s) \in Nat /\ Len(t) \in Nat
    BY LenProperties
  <2>3. QED
    BY <2>1, <2>2
<1>2. a = b
  <2>1. (<<a>> \o s)[1] = a /\ (<<b>> \o t)[1] = b
    BY <1>0, ConcatProperties, LenProperties
  <2>2. QED
    BY <2>1
<1>3. \A i \in 1 .. Len(s) : s[i] = t[i]
  <2> SUFFICES ASSUME NEW i \in 1 .. Len(s) PROVE s[i] = t[i]
    OBVIOUS
  <2>1. (<<a>> \o s)[i + 1] = s[i] /\ (<<b>> \o t)[i + 1] = t[i]
    BY <1>0, <1>1, ConcatProperties, LenProperties
  <2>2. QED
    BY <2>1
<1>4. QED
  BY <1>1, <1>2, <1>3, SeqEqual

\* Two variables for entries of one id are told apart by the credential and by
\* what flatten makes of the environments.
LEMMA VariablesTellApart ==
  ASSUME NEW c, NEW d, NEW e, NEW f, NEW id, IsText(e), IsText(f), IsText(id),
         SecretVar(c, e, id) = SecretVar(d, f, id)
  PROVE  c = d /\ Flatten(e) = Flatten(f)
<1> DEFINE S == {c, d, "_"} \cup {Upper[x] : x \in ToSet(e)} \cup {Upper[x] : x \in ToSet(f)}
                 \cup {Upper[x] : x \in ToSet(id)}
<1>1. Flatten(e) \in Seq(S) /\ Flatten(f) \in Seq(S) /\ Flatten(id) \in Seq(S)
  BY FlattenIsText
<1>2. c \in S /\ d \in S /\ "_" \in S
  OBVIOUS
<1> HIDE DEF S
<1>3. PICK ce, df, u : ce = <<c>> \o Flatten(e) /\ df = <<d>> \o Flatten(f) /\ u = <<"_">>
  OBVIOUS
<1>4. ce \in Seq(S) /\ df \in Seq(S) /\ u \in Seq(S)
  <2>1. <<c>> \in Seq(S) /\ <<d>> \in Seq(S) /\ <<"_">> \in Seq(S)
    BY <1>2, SingleIsSeq
  <2>2. QED
    BY <1>1, <1>3, <2>1, ConcatProperties
<1>5. ce \o u \in Seq(S) /\ df \o u \in Seq(S)
  BY <1>4, ConcatProperties
<1>6. (ce \o u) \o Flatten(id) = (df \o u) \o Flatten(id)
  BY <1>3 DEF SecretVar
<1>7. ce \o u = df \o u
  BY <1>1, <1>5, <1>6, SuffixCancels
<1>8. ce = df
  BY <1>4, <1>7, SuffixCancels
<1>9. QED
  BY <1>1, <1>2, <1>3, <1>8, PrefixCancels

LEMMA EntryIsText ==
  ASSUME NEW entries, TypedEntries(entries), NEW entry \in ToSet(entries)
  PROVE  IsText(entry.id)
BY DEF TypedEntries, ToSet

LEMMA ClaimFields ==
  ASSUME NEW credential, NEW env, NEW kind, NEW id
  PROVE  LET a == Claim(credential, env, kind, id)
         IN  a.credential = credential /\ a.env = env /\ a.kind = kind /\ a.id = id
BY DEF Claim

\* The claims of an environment, one entry after another.
ClaimedBy(env, a) ==
  \/ \E registry \in ToSet(env.registries), credential \in {"password", "bearer_token"} :
       a = Claim(credential, env.id, "schema registry", registry.id)
  \/ \E registry \in ToSet(env.registries) :
       /\ registry.oauth # Absent /\ ~registry.oauth.assertion
       /\ a = Claim("client_secret", env.id, "schema registry", registry.id)
  \/ \E cluster \in ToSet(env.clusters) :
       cluster.sasl = "password" /\ a = Claim("password", env.id, "cluster", cluster.id)
  \/ \E cluster \in ToSet(env.clusters) :
       cluster.sasl = "oauth" /\ a = Claim("client_secret", env.id, "cluster", cluster.id)
  \/ \E connect \in ToSet(env.connects), credential \in {"password", "bearer_token"} :
       a = Claim(credential, env.id, "Connect cluster", connect.id)

LEMMA ClaimsOneByOne ==
  ASSUME NEW env, NEW a
  PROVE  a \in Claims(env) <=> ClaimedBy(env, a)
<1> DEFINE A == {Claim(credential, env.id, "schema registry", registry.id) :
                   registry \in ToSet(env.registries), credential \in {"password", "bearer_token"}}
           B == {Claim("client_secret", env.id, "schema registry", registry.id) :
                   registry \in {r \in ToSet(env.registries) : r.oauth # Absent /\ ~r.oauth.assertion}}
           C == {Claim("password", env.id, "cluster", cluster.id) :
                   cluster \in {k \in ToSet(env.clusters) : k.sasl = "password"}}
           D == {Claim("client_secret", env.id, "cluster", cluster.id) :
                   cluster \in {k \in ToSet(env.clusters) : k.sasl = "oauth"}}
           E == {Claim(credential, env.id, "Connect cluster", connect.id) :
                   connect \in ToSet(env.connects), credential \in {"password", "bearer_token"}}
<1>1. Claims(env) = A \cup B \cup C \cup D \cup E
  BY DEF Claims
<1>2. a \in A <=> \E registry \in ToSet(env.registries), credential \in {"password", "bearer_token"} :
                    a = Claim(credential, env.id, "schema registry", registry.id)
  OBVIOUS
<1>3. a \in B <=> \E registry \in ToSet(env.registries) :
                    /\ registry.oauth # Absent /\ ~registry.oauth.assertion
                    /\ a = Claim("client_secret", env.id, "schema registry", registry.id)
  OBVIOUS
<1>4. a \in C <=> \E cluster \in ToSet(env.clusters) :
                    cluster.sasl = "password" /\ a = Claim("password", env.id, "cluster", cluster.id)
  OBVIOUS
<1>5. a \in D <=> \E cluster \in ToSet(env.clusters) :
                    cluster.sasl = "oauth" /\ a = Claim("client_secret", env.id, "cluster", cluster.id)
  OBVIOUS
<1>6. a \in E <=> \E connect \in ToSet(env.connects), credential \in {"password", "bearer_token"} :
                    a = Claim(credential, env.id, "Connect cluster", connect.id)
  OBVIOUS
<1> HIDE DEF A, B, C, D, E
<1>7. QED
  BY <1>1, <1>2, <1>3, <1>4, <1>5, <1>6 DEF ClaimedBy

\* A claim of an environment is of one of its entries.
LEMMA ClaimIsText ==
  ASSUME NEW env, TypedEnvironment(env), NEW a \in Claims(env)
  PROVE  /\ IsText(a.id)
         /\ a = Claim(a.credential, env.id, a.kind, a.id)
<1>1. PICK credential, kind, id : a = Claim(credential, env.id, kind, id) /\ IsText(id)
  <2>1. ClaimedBy(env, a)
    BY ClaimsOneByOne
  <2>2. ASSUME NEW entry \in ToSet(env.registries) PROVE IsText(entry.id)
    BY EntryIsText DEF TypedEnvironment
  <2>3. ASSUME NEW entry \in ToSet(env.clusters) PROVE IsText(entry.id)
    BY EntryIsText DEF TypedEnvironment
  <2>4. ASSUME NEW entry \in ToSet(env.connects) PROVE IsText(entry.id)
    BY EntryIsText DEF TypedEnvironment
  <2>5. QED
    BY <2>1, <2>2, <2>3, <2>4 DEF ClaimedBy
<1>2. QED
  BY <1>1, ClaimFields

\* What an environment reads, one entry after another.
ReadBy(env, a) ==
  \/ \E registry \in ToSet(env.registries) : a \in ReadsOfRegistry(env, registry)
  \/ \E connect \in ToSet(env.connects) : a \in ReadsOfBasic(env, "Connect cluster", connect)
  \/ \E cluster \in ToSet(env.clusters) :
       /\ cluster.sasl = "password" /\ ~cluster.password
       /\ a = Claim("password", env.id, "cluster", cluster.id)
  \/ \E cluster \in ToSet(env.clusters) : cluster.sasl = "oauth" /\ a \in ReadsOfOauth(env, "cluster", cluster)

LEMMA ReadsOneByOne ==
  ASSUME NEW env, NEW a
  PROVE  a \in ReadsOf(env) <=> ReadBy(env, a)
<1> DEFINE A == UNION {ReadsOfRegistry(env, registry) : registry \in ToSet(env.registries)}
           B == UNION {ReadsOfBasic(env, "Connect cluster", connect) : connect \in ToSet(env.connects)}
           C == {Claim("password", env.id, "cluster", cluster.id) :
                   cluster \in {k \in ToSet(env.clusters) : k.sasl = "password" /\ ~k.password}}
           D == UNION {ReadsOfOauth(env, "cluster", cluster) :
                   cluster \in {k \in ToSet(env.clusters) : k.sasl = "oauth"}}
<1>1. ReadsOf(env) = A \cup B \cup C \cup D
  BY DEF ReadsOf
<1>2. a \in A <=> \E registry \in ToSet(env.registries) : a \in ReadsOfRegistry(env, registry)
  OBVIOUS
<1>3. a \in B <=> \E connect \in ToSet(env.connects) : a \in ReadsOfBasic(env, "Connect cluster", connect)
  OBVIOUS
<1>4. a \in C <=> \E cluster \in ToSet(env.clusters) :
                    /\ cluster.sasl = "password" /\ ~cluster.password
                    /\ a = Claim("password", env.id, "cluster", cluster.id)
  OBVIOUS
<1>5. a \in D <=> \E cluster \in ToSet(env.clusters) :
                    cluster.sasl = "oauth" /\ a \in ReadsOfOauth(env, "cluster", cluster)
  OBVIOUS
<1> HIDE DEF A, B, C, D
<1>6. QED
  BY <1>1, <1>2, <1>3, <1>4, <1>5 DEF ReadBy

\* What an entry reads, it claims.
LEMMA ReadsAreClaimed ==
  ASSUME NEW env, NEW a \in ReadsOf(env)
  PROVE  a \in Claims(env)
<1> SUFFICES ClaimedBy(env, a)
  BY ClaimsOneByOne
<1>1. ASSUME NEW registry \in ToSet(env.registries), a \in ReadsOfRegistry(env, registry)
      PROVE  ClaimedBy(env, a)
  <2>1. CASE registry.oauth # Absent
    BY <1>1, <2>1 DEF ClaimedBy, ReadsOfRegistry, ReadsOfOauth
  <2>2. CASE registry.oauth = Absent
    BY <1>1, <2>2 DEF ClaimedBy, ReadsOfRegistry, ReadsOfBasic
  <2>3. QED
    BY <2>1, <2>2
<1>2. ASSUME NEW connect \in ToSet(env.connects), a \in ReadsOfBasic(env, "Connect cluster", connect)
      PROVE  ClaimedBy(env, a)
  BY <1>2 DEF ClaimedBy, ReadsOfBasic
<1>3. ASSUME NEW cluster \in ToSet(env.clusters), cluster.sasl = "password",
             a = Claim("password", env.id, "cluster", cluster.id)
      PROVE  ClaimedBy(env, a)
  BY <1>3 DEF ClaimedBy
<1>4. ASSUME NEW cluster \in ToSet(env.clusters), cluster.sasl = "oauth", a \in ReadsOfOauth(env, "cluster", cluster)
      PROVE  ClaimedBy(env, a)
  BY <1>4 DEF ClaimedBy, ReadsOfOauth
<1>5. ReadBy(env, a)
  BY ReadsOneByOne
<1>6. QED
  BY <1>1, <1>2, <1>3, <1>4, <1>5 DEF ReadBy

\* A variable that is claimed is claimed for one credential of one entry, whether
\* it is read or not.
LEMMA ClaimsAreApart ==
  ASSUME NEW envs, \A i \in DOMAIN envs : TypedEnvironment(envs[i]), ClaimsAgree(envs), FlattenedApart(envs),
         NEW i \in DOMAIN envs, NEW j \in DOMAIN envs, NEW a \in Claims(envs[i]), NEW b \in Claims(envs[j]),
         VarOf(a) = VarOf(b)
  PROVE  i = j /\ a = b
<1>1. /\ IsText(a.id) /\ a = Claim(a.credential, envs[i].id, a.kind, a.id)
      /\ IsText(b.id) /\ b = Claim(b.credential, envs[j].id, b.kind, b.id)
  BY ClaimIsText
<1>2. a.env = envs[i].id /\ b.env = envs[j].id
  BY <1>1 DEF Claim
<1>3. IsText(a.env) /\ IsText(b.env)
  BY <1>2 DEF TypedEnvironment
<1>4. a \in UNION {Claims(env) : env \in ToSet(envs)} /\ b \in UNION {Claims(env) : env \in ToSet(envs)}
  BY DEF ToSet
<1>5. Owner(a) = Owner(b)
  BY <1>4 DEF ClaimsAgree
<1>6. a.kind = b.kind /\ a.id = b.id
  BY <1>5 DEF Owner
<1>7. SecretVar(a.credential, a.env, a.id) = SecretVar(b.credential, b.env, a.id)
  BY <1>6 DEF VarOf
<1>8. a.credential = b.credential /\ Flatten(a.env) = Flatten(b.env)
  BY <1>1, <1>3, <1>7, VariablesTellApart
<1>9. i = j
  BY <1>2, <1>8 DEF FlattenedApart
<1>10. QED
  BY <1>1, <1>6, <1>8, <1>9

\* Two entries of a configuration that is accepted never read a credential from
\* one variable, whatever flattening makes of their ids: config.rs's claims of
\* everything an entry might read are enough, although an owner is told by kind
\* and id alone.
THEOREM CredentialsAreApart ==
  ASSUME NEW config, TypedConfig(config)
  PROVE  SecretsAreApart(config)
<1> DEFINE envs == config.environments
<1> SUFFICES ASSUME Valid(config), FlattenedApart(envs),
                    NEW a \in UNION {ReadsOf(env) : env \in ToSet(envs)},
                    NEW b \in UNION {ReadsOf(env) : env \in ToSet(envs)}, VarOf(a) = VarOf(b)
             PROVE  a = b
  BY DEF SecretsAreApart, FlattenedApart
<1>1. PICK i \in DOMAIN envs : a \in ReadsOf(envs[i])
  BY DEF ToSet
<1>2. PICK j \in DOMAIN envs : b \in ReadsOf(envs[j])
  BY DEF ToSet
<1>3. a \in Claims(envs[i]) /\ b \in Claims(envs[j])
  BY <1>1, <1>2, ReadsAreClaimed
<1>4. ClaimsAgree(envs)
  BY DEF Valid
<1>5. \A k \in DOMAIN envs : TypedEnvironment(envs[k])
  BY DEF TypedConfig
<1>6. QED
  BY <1>3, <1>4, <1>5, ClaimsAreApart

Kinds3 == {"registry", "cluster", "connect"}

\* The entries of an environment of one kind, and what a claim calls the kind.
EntriesOf(env, kind) ==
  CASE kind = "registry" -> env.registries
    [] kind = "cluster"  -> env.clusters
    [] kind = "connect"  -> env.connects

CalledKind(kind) ==
  CASE kind = "registry" -> "schema registry"
    [] kind = "cluster"  -> "cluster"
    [] kind = "connect"  -> "Connect cluster"

\* What one entry reads, and what its client is built with.
ReadsAt(env, kind, entry) ==
  CASE kind = "registry" -> ReadsOfRegistry(env, entry)
    [] kind = "cluster"  -> IF entry.sasl = "password"
                            THEN IF entry.password THEN {} ELSE {Claim("password", env.id, "cluster", entry.id)}
                            ELSE IF entry.sasl = "oauth" THEN ReadsOfOauth(env, "cluster", entry) ELSE {}
    [] kind = "connect"  -> ReadsOfBasic(env, "Connect cluster", entry)

AuthAt(env, kind, entry, given) ==
  CASE kind = "registry" -> RegistryAuth(env, entry, given)
    [] kind = "cluster"  -> ClusterAuth(env, entry, given)
    [] kind = "connect"  -> BasicAuth(env, "Connect cluster", entry, given)

\* The two ways to buy a token that an entry may name, of which it must not name both.
BothWays(kind, entry) ==
  /\ kind \in {"registry", "cluster"} /\ entry.oauth # Absent
  /\ entry.oauth.secret /\ entry.oauth.assertion

Place(envs, i, kind, j) == i \in DOMAIN envs /\ kind \in Kinds3 /\ j \in DOMAIN EntriesOf(envs[i], kind)

ClientAt(envs, i, kind, j, given) == <<i, kind, j, AuthAt(envs[i], kind, EntriesOf(envs[i], kind)[j], given)>>

\* A client that is built, by the place of its entry.
IsClient(envs, given, client) ==
  \E i \in DOMAIN envs, kind \in Kinds3 : \E j \in DOMAIN EntriesOf(envs[i], kind) :
    client = ClientAt(envs, i, kind, j, given)

LEMMA AuthsOneByOne ==
  ASSUME NEW config, NEW envs, envs = config.environments, NEW given, NEW client
  PROVE  client \in Auths(config, given) <=> IsClient(envs, given, client)
<1>1. client \in Auths(config, given) <=> \E i \in DOMAIN envs : client \in AuthsOf(i, envs[i], given)
  BY DEF Auths
<1>2. ASSUME NEW i \in DOMAIN envs
      PROVE  client \in AuthsOf(i, envs[i], given)
               <=> \E kind \in Kinds3 : \E j \in DOMAIN EntriesOf(envs[i], kind) :
                     client = ClientAt(envs, i, kind, j, given)
  <2>1. PICK env : env = envs[i]
    OBVIOUS
  <2>2. client \in AuthsOf(i, env, given)
          <=> \/ \E j \in DOMAIN env.registries : client = <<i, "registry", j, RegistryAuth(env, env.registries[j], given)>>
              \/ \E j \in DOMAIN env.clusters : client = <<i, "cluster", j, ClusterAuth(env, env.clusters[j], given)>>
              \/ \E j \in DOMAIN env.connects :
                   client = <<i, "connect", j, BasicAuth(env, "Connect cluster", env.connects[j], given)>>
    BY DEF AuthsOf
  <2>3. (\E j \in DOMAIN EntriesOf(env, "registry") : client = ClientAt(envs, i, "registry", j, given))
          <=> \E j \in DOMAIN env.registries : client = <<i, "registry", j, RegistryAuth(env, env.registries[j], given)>>
    BY <2>1 DEF EntriesOf, ClientAt, AuthAt
  <2>4. (\E j \in DOMAIN EntriesOf(env, "cluster") : client = ClientAt(envs, i, "cluster", j, given))
          <=> \E j \in DOMAIN env.clusters : client = <<i, "cluster", j, ClusterAuth(env, env.clusters[j], given)>>
    BY <2>1 DEF EntriesOf, ClientAt, AuthAt
  <2>5. (\E j \in DOMAIN EntriesOf(env, "connect") : client = ClientAt(envs, i, "connect", j, given))
          <=> \E j \in DOMAIN env.connects :
                client = <<i, "connect", j, BasicAuth(env, "Connect cluster", env.connects[j], given)>>
    BY <2>1 DEF EntriesOf, ClientAt, AuthAt
  <2>6. QED
    BY <2>1, <2>2, <2>3, <2>4, <2>5 DEF Kinds3
<1>3. QED
  BY <1>1, <1>2 DEF IsClient

LEMMA ReadsByEntry ==
  ASSUME NEW env, NEW a
  PROVE  a \in ReadsOf(env)
           <=> \E kind \in Kinds3 : \E j \in DOMAIN EntriesOf(env, kind) : a \in ReadsAt(env, kind, EntriesOf(env, kind)[j])
<1>1. a \in ReadsOf(env) <=> ReadBy(env, a)
  BY ReadsOneByOne
<1>2. (\E registry \in ToSet(env.registries) : a \in ReadsOfRegistry(env, registry))
        <=> \E j \in DOMAIN EntriesOf(env, "registry") : a \in ReadsAt(env, "registry", EntriesOf(env, "registry")[j])
  BY DEF ToSet, EntriesOf, ReadsAt
<1>3. (\E connect \in ToSet(env.connects) : a \in ReadsOfBasic(env, "Connect cluster", connect))
        <=> \E j \in DOMAIN EntriesOf(env, "connect") : a \in ReadsAt(env, "connect", EntriesOf(env, "connect")[j])
  BY DEF ToSet, EntriesOf, ReadsAt
<1>4. ASSUME NEW cluster
      PROVE  \/ /\ cluster.sasl = "password" /\ ~cluster.password
                /\ a = Claim("password", env.id, "cluster", cluster.id)
             \/ cluster.sasl = "oauth" /\ a \in ReadsOfOauth(env, "cluster", cluster)
             <=> a \in ReadsAt(env, "cluster", cluster)
  BY DEF ReadsAt
<1>5. (\/ \E cluster \in ToSet(env.clusters) :
            /\ cluster.sasl = "password" /\ ~cluster.password
            /\ a = Claim("password", env.id, "cluster", cluster.id)
       \/ \E cluster \in ToSet(env.clusters) : cluster.sasl = "oauth" /\ a \in ReadsOfOauth(env, "cluster", cluster))
        <=> \E j \in DOMAIN EntriesOf(env, "cluster") : a \in ReadsAt(env, "cluster", EntriesOf(env, "cluster")[j])
  <2>1. EntriesOf(env, "cluster") = env.clusters
    BY DEF EntriesOf
  <2>2. QED
    BY <1>4, <2>1 DEF ToSet
<1>6. QED
  BY <1>1, <1>2, <1>3, <1>5 DEF ReadBy, Kinds3

\* What an entry reads is one credential at most, of that entry.
LEMMA ReadIsAClaim ==
  ASSUME NEW env, NEW kind \in Kinds3, NEW entry, NEW a \in ReadsAt(env, kind, entry)
  PROVE  \E credential : /\ a = Claim(credential, env.id, CalledKind(kind), entry.id)
                         /\ ReadsAt(env, kind, entry) = {Claim(credential, env.id, CalledKind(kind), entry.id)}
<1>1. CASE kind = "registry"
  BY <1>1 DEF ReadsAt, CalledKind, ReadsOfRegistry, ReadsOfOauth, ReadsOfBasic
<1>2. CASE kind = "cluster"
  BY <1>2 DEF ReadsAt, CalledKind, ReadsOfOauth
<1>3. CASE kind = "connect"
  BY <1>3 DEF ReadsAt, CalledKind, ReadsOfBasic
<1>4. QED
  BY <1>1, <1>2, <1>3 DEF Kinds3

LEMMA ReadsAreOnes ==
  ASSUME NEW env, NEW kind \in Kinds3, NEW entry, NEW a \in ReadsAt(env, kind, entry)
  PROVE  /\ a.kind = CalledKind(kind) /\ a.id = entry.id /\ a.env = env.id
         /\ ReadsAt(env, kind, entry) = {a}
<1>1. PICK credential : a = Claim(credential, env.id, CalledKind(kind), entry.id)
                        /\ ReadsAt(env, kind, entry) = {Claim(credential, env.id, CalledKind(kind), entry.id)}
  BY ReadIsAClaim
<1>2. QED
  BY <1>1, ClaimFields

\* A secret that is written wins, and one that is left out is read from its
\* variable; a client that demands one is not built without.
LEMMA SecretIsRead ==
  ASSUME NEW written, NEW claim, NEW given
  PROVE  /\ written => Secret(written, claim, given) = WrittenHere
         /\ ~written /\ VarOf(claim) \in given => Secret(written, claim, given) = VarOf(claim)
         /\ ~written /\ VarOf(claim) \notin given => Secret(written, claim, given) = <<>>
BY DEF Secret

LEMMA WrittenIsGiven == WrittenHere # <<>>
BY DEF WrittenHere

Built(mode, secret) == [mode |-> mode, secret |-> secret]

LEMMA BuiltIsTold ==
  ASSUME NEW mode, NEW secret
  PROVE  /\ Built(mode, secret).secret = secret /\ Built(mode, secret).mode = mode
         /\ mode # "refused" => Built(mode, secret) # Unbuilt
BY DEF Built, Unbuilt

LEMMA DemandedIsBuilt ==
  ASSUME NEW mode, NEW secret
  PROVE  /\ secret # <<>> => Demanding(mode, secret) = Built(mode, secret)
         /\ secret = <<>> => Demanding(mode, secret) = Unbuilt
BY DEF Demanding, Built

LEMMA UnsignedIsBuilt == Unsigned # Unbuilt /\ Unsigned.secret = <<>> /\ Unbuilt.secret = <<>>
BY DEF Unsigned, Unbuilt

LEMMA DemandedIsRead ==
  ASSUME NEW mode, NEW written, NEW claim, NEW given, VarOf(claim) # <<>>
  PROVE  LET auth == Demanding(mode, Secret(written, claim, given))
         IN  /\ written => auth = Built(mode, WrittenHere)
             /\ ~written /\ VarOf(claim) \in given => auth = Built(mode, VarOf(claim))
             /\ ~written /\ VarOf(claim) \notin given => auth = Unbuilt
<1>1. PICK secret : secret = Secret(written, claim, given)
  OBVIOUS
<1>2. /\ written => secret = WrittenHere
      /\ ~written /\ VarOf(claim) \in given => secret = VarOf(claim)
      /\ ~written /\ VarOf(claim) \notin given => secret = <<>>
  BY <1>1, SecretIsRead
<1>3. QED
  BY <1>1, <1>2, WrittenIsGiven, DemandedIsBuilt

LEMMA OauthIsRead ==
  ASSUME NEW env, NEW kind, NEW entry, NEW given, NEW claim,
         claim = Claim("client_secret", env.id, kind, entry.id), VarOf(claim) # <<>>
  PROVE  LET auth == OauthAuth(env, kind, entry, given)
         IN  /\ entry.oauth.assertion /\ entry.oauth.secret => auth = Unbuilt
             /\ entry.oauth.assertion /\ ~entry.oauth.secret => auth = Built("assertion", <<>>)
             /\ ~entry.oauth.assertion /\ entry.oauth.secret => auth = Built("oauth", WrittenHere)
             /\ ~entry.oauth.assertion /\ ~entry.oauth.secret =>
                  /\ VarOf(claim) \in given => auth = Built("oauth", VarOf(claim))
                  /\ VarOf(claim) \notin given => auth = Unbuilt
<1>1. CASE entry.oauth.assertion
  BY <1>1 DEF OauthAuth, Built
<1>2. CASE ~entry.oauth.assertion
  <2>1. OauthAuth(env, kind, entry, given) = Demanding("oauth", Secret(entry.oauth.secret, claim, given))
    BY <1>2 DEF OauthAuth
  <2>2. QED
    BY <1>2, <2>1, DemandedIsRead
<1>3. QED
  BY <1>1, <1>2

LEMMA BasicIsRead ==
  ASSUME NEW env, NEW kind, NEW entry, NEW given, NEW password, NEW token,
         password = Claim("password", env.id, kind, entry.id), VarOf(password) # <<>>,
         token = Claim("bearer_token", env.id, kind, entry.id), VarOf(token) # <<>>
  PROVE  LET auth == BasicAuth(env, kind, entry, given)
         IN  /\ entry.username /\ entry.password => auth = Built("basic", WrittenHere)
             /\ entry.username /\ ~entry.password =>
                  /\ VarOf(password) \in given => auth = Built("basic", VarOf(password))
                  /\ VarOf(password) \notin given => auth = Unbuilt
             /\ ~entry.username /\ entry.bearer => auth = Built("bearer", WrittenHere)
             /\ ~entry.username /\ ~entry.bearer =>
                  /\ VarOf(token) \in given => auth = Built("bearer", VarOf(token))
                  /\ VarOf(token) \notin given => auth = Unsigned
<1>1. CASE entry.username
  <2>1. BasicAuth(env, kind, entry, given) = Demanding("basic", Secret(entry.password, password, given))
    BY <1>1 DEF BasicAuth
  <2>2. QED
    BY <1>1, <2>1, DemandedIsRead
<1>2. CASE ~entry.username
  <2>1. PICK secret : secret = Secret(entry.bearer, token, given)
    OBVIOUS
  <2>2. BasicAuth(env, kind, entry, given) = IF secret = <<>> THEN Unsigned ELSE Built("bearer", secret)
    BY <1>2, <2>1 DEF BasicAuth, Built
  <2>3. /\ entry.bearer => secret = WrittenHere
        /\ ~entry.bearer /\ VarOf(token) \in given => secret = VarOf(token)
        /\ ~entry.bearer /\ VarOf(token) \notin given => secret = <<>>
    BY <2>1, SecretIsRead
  <2>4. QED
    BY <1>2, <2>2, <2>3, WrittenIsGiven
<1>3. QED
  BY <1>1, <1>2

\* A cluster's password, demanded.
LEMMA PasswordIsRead ==
  ASSUME NEW env, NEW entry, NEW given, NEW claim, entry.sasl = "password",
         claim = Claim("password", env.id, "cluster", entry.id), VarOf(claim) # <<>>
  PROVE  LET auth == ClusterAuth(env, entry, given)
         IN  /\ entry.password => auth = Built("password", WrittenHere)
             /\ ~entry.password /\ VarOf(claim) \in given => auth = Built("password", VarOf(claim))
             /\ ~entry.password /\ VarOf(claim) \notin given => auth = Unbuilt
<1>1. ClusterAuth(env, entry, given) = Demanding("password", Secret(entry.password, claim, given))
  BY DEF ClusterAuth
<1>2. QED
  BY <1>1, DemandedIsRead

\* What an entry's client is built with follows from what it reads and from
\* nothing else that is given.
FollowsReads(reads, auth, bare, given, both) ==
  /\ \A a \in reads : VarOf(a) \in given =>
       /\ auth.secret = VarOf(a) /\ bare.secret = <<>>
       /\ bare = Unbuilt \/ (bare = Unsigned /\ auth.mode = "bearer")
  /\ (\A a \in reads : VarOf(a) \notin given) => auth = bare
  /\ (\A a \in reads : VarOf(a) \in given) => (auth = Unbuilt <=> both)

LEMMA OauthFollows ==
  ASSUME NEW env, NEW kind, NEW entry, NEW given,
         VarOf(Claim("client_secret", env.id, kind, entry.id)) # <<>>
  PROVE  FollowsReads(ReadsOfOauth(env, kind, entry), OauthAuth(env, kind, entry, given), OauthAuth(env, kind, entry, {}), given,
                 entry.oauth.secret /\ entry.oauth.assertion)
<1>1. PICK claim, auth, bare : /\ claim = Claim("client_secret", env.id, kind, entry.id)
                               /\ auth = OauthAuth(env, kind, entry, given) /\ bare = OauthAuth(env, kind, entry, {})
  OBVIOUS
<1>2. CASE entry.oauth.secret \/ entry.oauth.assertion
  <2>1. ReadsOfOauth(env, kind, entry) = {}
    BY <1>2 DEF ReadsOfOauth
  <2>2. auth = bare
    BY <1>1, <1>2, OauthIsRead
  <2>3. auth = Unbuilt <=> entry.oauth.secret /\ entry.oauth.assertion
    <3>1. Built("assertion", <<>>) # Unbuilt /\ Built("oauth", WrittenHere) # Unbuilt
      BY BuiltIsTold
    <3>2. QED
      BY <1>1, <1>2, <3>1, OauthIsRead
  <2>4. QED
    BY <1>1, <2>1, <2>2, <2>3 DEF FollowsReads
<1>3. CASE ~entry.oauth.secret /\ ~entry.oauth.assertion
  <2>1. ReadsOfOauth(env, kind, entry) = {claim}
    BY <1>1, <1>3 DEF ReadsOfOauth
  <2>2. /\ VarOf(claim) \in given => auth = Built("oauth", VarOf(claim))
        /\ VarOf(claim) \notin given => auth = Unbuilt
        /\ bare = Unbuilt
    BY <1>1, <1>3, OauthIsRead
  <2>3. Built("oauth", VarOf(claim)).secret = VarOf(claim) /\ Built("oauth", VarOf(claim)) # Unbuilt
    BY BuiltIsTold
  <2>4. QED
    BY <1>1, <1>3, <2>1, <2>2, <2>3, UnsignedIsBuilt DEF FollowsReads
<1>4. QED
  BY <1>2, <1>3

LEMMA BasicFollows ==
  ASSUME NEW env, NEW kind, NEW entry, NEW given,
         VarOf(Claim("password", env.id, kind, entry.id)) # <<>>,
         VarOf(Claim("bearer_token", env.id, kind, entry.id)) # <<>>
  PROVE  FollowsReads(ReadsOfBasic(env, kind, entry), BasicAuth(env, kind, entry, given), BasicAuth(env, kind, entry, {}), given,
                 FALSE)
<1>1. PICK password, token, auth, bare, reads :
           /\ password = Claim("password", env.id, kind, entry.id) /\ token = Claim("bearer_token", env.id, kind, entry.id)
           /\ auth = BasicAuth(env, kind, entry, given) /\ bare = BasicAuth(env, kind, entry, {})
           /\ reads = ReadsOfBasic(env, kind, entry)
  OBVIOUS
<1>2. CASE entry.username /\ entry.password
  <2>1. reads = {} /\ auth = Built("basic", WrittenHere) /\ bare = Built("basic", WrittenHere)
    BY <1>1, <1>2, BasicIsRead DEF ReadsOfBasic
  <2>2. QED
    BY <1>1, <2>1, BuiltIsTold DEF FollowsReads
<1>3. CASE entry.username /\ ~entry.password
  <2>1. reads = {password}
    BY <1>1, <1>3 DEF ReadsOfBasic
  <2>2. /\ VarOf(password) \in given => auth = Built("basic", VarOf(password))
        /\ VarOf(password) \notin given => auth = Unbuilt
        /\ bare = Unbuilt
    BY <1>1, <1>3, BasicIsRead
  <2>3. Built("basic", VarOf(password)).secret = VarOf(password) /\ Built("basic", VarOf(password)) # Unbuilt
    BY BuiltIsTold
  <2>4. QED
    BY <1>1, <2>1, <2>2, <2>3, UnsignedIsBuilt DEF FollowsReads
<1>4. CASE ~entry.username /\ entry.bearer
  <2>1. reads = {} /\ auth = Built("bearer", WrittenHere) /\ bare = Built("bearer", WrittenHere)
    BY <1>1, <1>4, BasicIsRead DEF ReadsOfBasic
  <2>2. QED
    BY <1>1, <2>1, BuiltIsTold DEF FollowsReads
<1>5. CASE ~entry.username /\ ~entry.bearer
  <2>1. reads = {token}
    BY <1>1, <1>5 DEF ReadsOfBasic
  <2>2. /\ VarOf(token) \in given => auth = Built("bearer", VarOf(token))
        /\ VarOf(token) \notin given => auth = Unsigned
        /\ bare = Unsigned
    BY <1>1, <1>5, BasicIsRead
  <2>3. /\ Built("bearer", VarOf(token)).secret = VarOf(token) /\ Built("bearer", VarOf(token)).mode = "bearer"
        /\ Built("bearer", VarOf(token)) # Unbuilt
    BY BuiltIsTold
  <2>4. QED
    BY <1>1, <2>1, <2>2, <2>3, UnsignedIsBuilt DEF FollowsReads
<1>6. QED
  BY <1>2, <1>3, <1>4, <1>5

LEMMA PasswordFollows ==
  ASSUME NEW env, NEW entry, NEW given, entry.sasl = "password",
         VarOf(Claim("password", env.id, "cluster", entry.id)) # <<>>
  PROVE  FollowsReads(ReadsAt(env, "cluster", entry), ClusterAuth(env, entry, given), ClusterAuth(env, entry, {}), given, FALSE)
<1>1. PICK claim, auth, bare, reads :
           /\ claim = Claim("password", env.id, "cluster", entry.id)
           /\ auth = ClusterAuth(env, entry, given) /\ bare = ClusterAuth(env, entry, {})
           /\ reads = ReadsAt(env, "cluster", entry)
  OBVIOUS
<1>2. CASE entry.password
  <2>1. reads = {} /\ auth = Built("password", WrittenHere) /\ bare = Built("password", WrittenHere)
    BY <1>1, <1>2, PasswordIsRead DEF ReadsAt
  <2>2. QED
    BY <1>1, <2>1, BuiltIsTold DEF FollowsReads
<1>3. CASE ~entry.password
  <2>1. reads = {claim}
    BY <1>1, <1>3 DEF ReadsAt
  <2>2. /\ VarOf(claim) \in given => auth = Built("password", VarOf(claim))
        /\ VarOf(claim) \notin given => auth = Unbuilt
        /\ bare = Unbuilt
    BY <1>1, <1>3, PasswordIsRead
  <2>3. Built("password", VarOf(claim)).secret = VarOf(claim) /\ Built("password", VarOf(claim)) # Unbuilt
    BY BuiltIsTold
  <2>4. QED
    BY <1>1, <2>1, <2>2, <2>3, UnsignedIsBuilt DEF FollowsReads
<1>4. QED
  BY <1>2, <1>3

\* Every variable has a name.
Nameable(env, entry) == \A credential, kind : VarOf(Claim(credential, env.id, kind, entry.id)) # <<>>

LEMMA AuthFollowsReads ==
  ASSUME NEW env, NEW kind \in Kinds3, NEW entry, NEW given, Nameable(env, entry),
         kind = "cluster" => (entry.sasl = "oauth" <=> entry.oauth # Absent)
  PROVE  FollowsReads(ReadsAt(env, kind, entry), AuthAt(env, kind, entry, given), AuthAt(env, kind, entry, {}), given,
                 BothWays(kind, entry))
<1>1. CASE kind = "connect"
  <2>1. ReadsAt(env, kind, entry) = ReadsOfBasic(env, "Connect cluster", entry)
    BY <1>1 DEF ReadsAt
  <2>2. \A some : AuthAt(env, kind, entry, some) = BasicAuth(env, "Connect cluster", entry, some)
    BY <1>1 DEF AuthAt
  <2>3. BothWays(kind, entry) = FALSE
    BY <1>1 DEF BothWays
  <2>4. QED
    BY <2>1, <2>2, <2>3, BasicFollows DEF Nameable
<1>2. CASE kind = "registry" /\ entry.oauth = Absent
  <2>1. ReadsAt(env, kind, entry) = ReadsOfBasic(env, "schema registry", entry)
    BY <1>2 DEF ReadsAt, ReadsOfRegistry
  <2>2. \A some : AuthAt(env, kind, entry, some) = BasicAuth(env, "schema registry", entry, some)
    BY <1>2 DEF AuthAt, RegistryAuth
  <2>3. BothWays(kind, entry) = FALSE
    BY <1>2 DEF BothWays
  <2>4. QED
    BY <2>1, <2>2, <2>3, BasicFollows DEF Nameable
<1>3. CASE kind \in {"registry", "cluster"} /\ entry.oauth # Absent
  <2>1. PICK called : called = CalledKind(kind)
    OBVIOUS
  <2>2. ReadsAt(env, kind, entry) = ReadsOfOauth(env, called, entry)
    BY <1>3, <2>1 DEF ReadsAt, ReadsOfRegistry, CalledKind
  <2>3. \A some : AuthAt(env, kind, entry, some) = OauthAuth(env, called, entry, some)
    BY <1>3, <2>1 DEF AuthAt, RegistryAuth, ClusterAuth, CalledKind
  <2>4. BothWays(kind, entry) = (entry.oauth.secret /\ entry.oauth.assertion)
    BY <1>3 DEF BothWays
  <2>5. QED
    BY <2>2, <2>3, <2>4, OauthFollows DEF Nameable
<1>4. CASE kind = "cluster" /\ entry.sasl = "password" /\ entry.oauth = Absent
  <2>1. \A some : AuthAt(env, kind, entry, some) = ClusterAuth(env, entry, some)
    BY <1>4 DEF AuthAt
  <2>2. BothWays(kind, entry) = FALSE
    BY <1>4 DEF BothWays
  <2>3. QED
    BY <1>4, <2>1, <2>2, PasswordFollows DEF Nameable
<1>5. CASE kind = "cluster" /\ entry.sasl # "password" /\ entry.oauth = Absent
  <2>1. entry.sasl # "oauth"
    BY <1>5
  <2>2. \A some : AuthAt(env, kind, entry, some) = Unsigned
    BY <1>5, <2>1 DEF AuthAt, ClusterAuth
  <2>3. BothWays(kind, entry) = FALSE
    BY <1>5 DEF BothWays
  <2>4. ReadsAt(env, kind, entry) = {}
    BY <1>5, <2>1 DEF ReadsAt
  <2>5. QED
    BY <2>2, <2>3, <2>4, UnsignedIsBuilt DEF FollowsReads
<1>6. QED
  BY <1>1, <1>2, <1>3, <1>4, <1>5 DEF Kinds3

LEMMA TextIsNameable ==
  ASSUME NEW env, NEW entry, IsText(env.id), IsText(entry.id)
  PROVE  Nameable(env, entry)
<1> SUFFICES ASSUME NEW credential, NEW kind
             PROVE  VarOf(Claim(credential, env.id, kind, entry.id)) # <<>>
  BY DEF Nameable
<1>1. VarOf(Claim(credential, env.id, kind, entry.id)) = SecretVar(credential, env.id, entry.id)
  BY ClaimFields DEF VarOf
<1> DEFINE S == {credential, "_"} \cup {Upper[x] : x \in ToSet(env.id)} \cup {Upper[x] : x \in ToSet(entry.id)}
<1>2. PICK e, f, c, u : /\ e = Flatten(env.id) /\ f = Flatten(entry.id) /\ c = <<credential>> /\ u = <<"_">>
  OBVIOUS
<1>3. e \in Seq(S) /\ f \in Seq(S)
  BY <1>2, FlattenIsText
<1>4. credential \in S /\ "_" \in S
  OBVIOUS
<1> HIDE DEF S
<1>5. c \in Seq(S) /\ u \in Seq(S) /\ Len(c) = 1
  BY <1>2, <1>4, SingleIsSeq
<1>6. PICK ce : ce = c \o e
  OBVIOUS
<1>7. ce \in Seq(S) /\ Len(ce) = Len(c) + Len(e)
  BY <1>3, <1>5, <1>6, ConcatProperties
<1>8. PICK cu : cu = ce \o u
  OBVIOUS
<1>9. cu \in Seq(S) /\ Len(cu) = Len(ce) + Len(u)
  BY <1>5, <1>7, <1>8, ConcatProperties
<1>10. Len(cu \o f) = Len(cu) + Len(f)
  BY <1>3, <1>9, ConcatProperties
<1>11. Len(e) \in Nat /\ Len(u) \in Nat /\ Len(f) \in Nat
  BY <1>3, <1>5, LenProperties
<1>12. Len(cu \o f) # 0
  BY <1>5, <1>7, <1>9, <1>10, <1>11
<1>13. SecretVar(credential, env.id, entry.id) = cu \o f
  BY <1>2, <1>6, <1>8 DEF SecretVar
<1>14. Len(<<>>) = 0
  BY EmptySeq
<1>15. QED
  BY <1>1, <1>12, <1>13, <1>14

LEMMA PlacedFollows ==
  ASSUME NEW envs, NEW i \in DOMAIN envs, TypedEnvironment(envs[i]),
         NEW kind \in Kinds3, NEW j \in DOMAIN EntriesOf(envs[i], kind), NEW given
  PROVE  LET entry == EntriesOf(envs[i], kind)[j]
         IN  FollowsReads(ReadsAt(envs[i], kind, entry), AuthAt(envs[i], kind, entry, given),
                     AuthAt(envs[i], kind, entry, {}), given, BothWays(kind, entry))
<1>1. PICK env, entry : env = envs[i] /\ entry = EntriesOf(envs[i], kind)[j]
  OBVIOUS
<1>2. IsText(env.id) /\ IsText(entry.id)
  BY <1>1 DEF TypedEnvironment, TypedEntries, EntriesOf, Kinds3
<1>3. kind = "cluster" => (entry.sasl = "oauth" <=> entry.oauth # Absent)
  BY <1>1 DEF TypedEnvironment, EntriesOf
<1>4. Nameable(env, entry)
  BY <1>2, TextIsNameable
<1>5. QED
  BY <1>1, <1>3, <1>4, AuthFollowsReads

LEMMA PlacesAreApart ==
  ASSUME NEW i, NEW kind, NEW j, NEW auth, NEW i2, NEW kind2, NEW j2, NEW auth2,
         <<i, kind, j, auth>> = <<i2, kind2, j2, auth2>>
  PROVE  i = i2 /\ kind = kind2 /\ j = j2 /\ auth = auth2
OBVIOUS

LEMMA PlaceIsKept ==
  ASSUME NEW i, NEW kind, NEW j, NEW auth, NEW bare
  PROVE  /\ SubSeq(<<i, kind, j, bare>>, 1, 3) = SubSeq(<<i, kind, j, auth>>, 1, 3)
         /\ <<i, kind, j, auth>>[4] = auth
         /\ <<i, kind, j, auth>>[1] = i /\ <<i, kind, j, auth>>[2] = kind /\ <<i, kind, j, auth>>[3] = j
<1>1. PICK was, now : was = <<i, kind, j, bare>> /\ now = <<i, kind, j, auth>>
  OBVIOUS
<1>2. /\ now[1] = i /\ now[2] = kind /\ now[3] = j /\ now[4] = auth
      /\ was[1] = i /\ was[2] = kind /\ was[3] = j
  BY <1>1
<1>3. PICK S : S = {i, kind, j}
  OBVIOUS
<1>4. \A n \in 1 .. 3 : was[n] \in S /\ now[n] \in S /\ was[n] = now[n]
  BY <1>2, <1>3
<1>5. /\ SubSeq(was, 1, 3) \in Seq(S) /\ Len(SubSeq(was, 1, 3)) = 3
      /\ \A n \in 1 .. 3 : SubSeq(was, 1, 3)[n] = was[n]
  BY <1>4, SubSeqProperties
<1>6. /\ SubSeq(now, 1, 3) \in Seq(S) /\ Len(SubSeq(now, 1, 3)) = 3
      /\ \A n \in 1 .. 3 : SubSeq(now, 1, 3)[n] = now[n]
  BY <1>4, SubSeqProperties
<1>7. SubSeq(was, 1, 3) = SubSeq(now, 1, 3)
  BY <1>4, <1>5, <1>6, SeqEqual
<1>8. QED
  BY <1>1, <1>2, <1>7

LEMMA KindsAreCalledApart ==
  ASSUME NEW kind \in Kinds3, NEW kind2 \in Kinds3, CalledKind(kind) = CalledKind(kind2)
  PROVE  kind = kind2
<1>1. /\ CalledKind("registry") = "schema registry" /\ CalledKind("cluster") = "cluster"
      /\ CalledKind("connect") = "Connect cluster"
  BY DEF CalledKind
<1>2. QED
  BY <1>1 DEF Kinds3

LEMMA ReadIsPlaced ==
  ASSUME NEW envs, NEW i, NEW kind \in Kinds3, NEW j,
         NEW a \in ReadsAt(envs[i], kind, EntriesOf(envs[i], kind)[j])
  PROVE  a.kind = CalledKind(kind) /\ a.id = EntriesOf(envs[i], kind)[j].id
<1>1. PICK env, entry : env = envs[i] /\ entry = EntriesOf(envs[i], kind)[j]
  OBVIOUS
<1>2. a \in ReadsAt(env, kind, entry)
  BY <1>1
<1>3. a.kind = CalledKind(kind) /\ a.id = entry.id
  BY <1>2, ReadsAreOnes
<1>4. QED
  BY <1>1, <1>3

LEMMA ReadOnce ==
  ASSUME NEW env, NEW kind \in Kinds3, NEW kind2 \in Kinds3,
         NEW j \in DOMAIN EntriesOf(env, kind), NEW j2 \in DOMAIN EntriesOf(env, kind2), NEW a,
         a \in ReadsAt(env, kind, EntriesOf(env, kind)[j]), a \in ReadsAt(env, kind2, EntriesOf(env, kind2)[j2]),
         Distinct(EntriesOf(env, kind))
  PROVE  kind = kind2 /\ j = j2
<1>1. PICK entry, entry2 : entry = EntriesOf(env, kind)[j] /\ entry2 = EntriesOf(env, kind2)[j2]
  OBVIOUS
<1>2. a.kind = CalledKind(kind) /\ a.id = entry.id
  BY <1>1, ReadsAreOnes
<1>3. a.kind = CalledKind(kind2) /\ a.id = entry2.id
  BY <1>1, ReadsAreOnes
<1>4. kind = kind2
  BY <1>2, <1>3, KindsAreCalledApart
<1>5. EntriesOf(env, kind)[j].id = EntriesOf(env, kind)[j2].id
  BY <1>1, <1>2, <1>3, <1>4
<1>6. QED
  BY <1>4, <1>5 DEF Distinct

\* A configuration of which the premises of the rules hold.
Accepted(config) == TypedConfig(config) /\ Valid(config) /\ FlattenedApart(config.environments)

TypedEnvs(envs) == \A k \in DOMAIN envs : TypedEnvironment(envs[k])

\* The entry at a place reads a variable.
PlaceReads(envs, i, kind, j, variable) ==
  \E a \in ReadsAt(envs[i], kind, EntriesOf(envs[i], kind)[j]) : VarOf(a) = variable

LEMMA PlaceFollows ==
  ASSUME NEW envs, TypedEnvs(envs), NEW i, NEW kind, NEW j, Place(envs, i, kind, j), NEW given,
         NEW entry, entry = EntriesOf(envs[i], kind)[j]
  PROVE  FollowsReads(ReadsAt(envs[i], kind, entry), AuthAt(envs[i], kind, entry, given),
                 AuthAt(envs[i], kind, entry, {}), given, BothWays(kind, entry))
<1>1. i \in DOMAIN envs /\ TypedEnvironment(envs[i]) /\ kind \in Kinds3 /\ j \in DOMAIN EntriesOf(envs[i], kind)
  BY DEF Place, TypedEnvs
<1>2. QED
  BY <1>1, PlacedFollows

HasPlace(envs, given, client) == \E i, kind, j : Place(envs, i, kind, j) /\ client = ClientAt(envs, i, kind, j, given)

LEMMA ClientsAreAuths ==
  ASSUME NEW config, NEW envs, envs = config.environments, NEW given, NEW client
  PROVE  client \in Auths(config, given) <=> HasPlace(envs, given, client)
<1>1. client \in Auths(config, given) <=> IsClient(envs, given, client)
  BY AuthsOneByOne
<1>2. ASSUME client \in Auths(config, given)
      PROVE  HasPlace(envs, given, client)
  <2>1. PICK i \in DOMAIN envs, kind \in Kinds3 : \E j \in DOMAIN EntriesOf(envs[i], kind) :
               client = ClientAt(envs, i, kind, j, given)
    BY <1>1, <1>2 DEF IsClient
  <2>2. PICK j \in DOMAIN EntriesOf(envs[i], kind) : client = ClientAt(envs, i, kind, j, given)
    BY <2>1
  <2>3. Place(envs, i, kind, j)
    BY DEF Place
  <2>4. QED
    BY <2>2, <2>3 DEF HasPlace
<1>3. ASSUME NEW i, NEW kind, NEW j, Place(envs, i, kind, j), client = ClientAt(envs, i, kind, j, given)
      PROVE  client \in Auths(config, given)
  BY <1>1, <1>3 DEF Place, IsClient
<1>4. QED
  BY <1>2, <1>3 DEF HasPlace

\* A client whose entry does not read the variable is built as without it.
LEMMA OthersAreNotTold ==
  ASSUME NEW envs, TypedEnvs(envs), NEW i, NEW kind, NEW j, Place(envs, i, kind, j), NEW variable,
         ~PlaceReads(envs, i, kind, j, variable)
  PROVE  ClientAt(envs, i, kind, j, {variable}) = ClientAt(envs, i, kind, j, {})
<1>1. PICK entry : entry = EntriesOf(envs[i], kind)[j]
  OBVIOUS
<1>2. PICK reads, auth, bare, both :
           /\ reads = ReadsAt(envs[i], kind, entry) /\ auth = AuthAt(envs[i], kind, entry, {variable})
           /\ bare = AuthAt(envs[i], kind, entry, {}) /\ both = BothWays(kind, entry)
  OBVIOUS
<1>3. FollowsReads(reads, auth, bare, {variable}, both)
  BY <1>1, <1>2, PlaceFollows
<1>4. \A a \in reads : VarOf(a) \notin {variable}
  BY <1>1, <1>2 DEF PlaceReads
<1>5. auth = bare
  BY <1>3, <1>4 DEF FollowsReads
<1>6. QED
  BY <1>1, <1>2, <1>5 DEF ClientAt

\* What the reader of a variable is built with.
ToldVariable(auth, bare, variable) ==
  /\ auth.secret = variable /\ bare.secret # variable
  /\ bare = Unbuilt \/ (bare = Unsigned /\ auth.mode = "bearer")

LEMMA ReaderIsTold ==
  ASSUME NEW envs, TypedEnvs(envs), NEW i, NEW kind, NEW j, Place(envs, i, kind, j), NEW variable,
         PlaceReads(envs, i, kind, j, variable), NEW entry, entry = EntriesOf(envs[i], kind)[j]
  PROVE  ToldVariable(AuthAt(envs[i], kind, entry, {variable}), AuthAt(envs[i], kind, entry, {}), variable)
<1>1. PICK env : env = envs[i]
  OBVIOUS
<1>2. PICK reads, auth, bare, both :
           /\ reads = ReadsAt(env, kind, entry) /\ auth = AuthAt(env, kind, entry, {variable})
           /\ bare = AuthAt(env, kind, entry, {}) /\ both = BothWays(kind, entry)
  OBVIOUS
<1>3. FollowsReads(reads, auth, bare, {variable}, both)
  BY <1>1, <1>2, PlaceFollows
<1>4. PICK a \in reads : VarOf(a) = variable
  BY <1>1, <1>2 DEF PlaceReads
<1>5. /\ auth.secret = variable /\ bare.secret = <<>>
      /\ bare = Unbuilt \/ (bare = Unsigned /\ auth.mode = "bearer")
  BY <1>3, <1>4 DEF FollowsReads
<1>6. variable # <<>>
  <2>1. i \in DOMAIN envs /\ kind \in Kinds3 /\ j \in DOMAIN EntriesOf(env, kind) /\ TypedEnvironment(env)
    BY <1>1 DEF Place, TypedEnvs
  <2>2. IsText(env.id) /\ IsText(entry.id)
    BY <1>1, <2>1 DEF TypedEnvironment, TypedEntries, EntriesOf, Kinds3
  <2>3. Nameable(env, entry)
    BY <2>2, TextIsNameable
  <2>4. PICK credential : a = Claim(credential, env.id, CalledKind(kind), entry.id)
    BY <1>2, <1>4, <2>1, ReadIsAClaim
  <2>5. QED
    BY <1>4, <2>3, <2>4 DEF Nameable
<1>7. QED
  BY <1>1, <1>2, <1>5, <1>6 DEF ToldVariable

LEMMA UnreadIsUntold ==
  ASSUME NEW config, TypedConfig(config), NEW variable,
         \A i, kind, j : Place(config.environments, i, kind, j) => ~PlaceReads(config.environments, i, kind, j, variable)
  PROVE  Auths(config, {variable}) \ Auths(config, {}) = {}
<1> SUFFICES ASSUME NEW client \in Auths(config, {variable})
             PROVE  client \in Auths(config, {})
  OBVIOUS
<1>1. PICK envs : envs = config.environments
  OBVIOUS
<1> TypedEnvs(envs)
  BY <1>1 DEF TypedEnvs, TypedConfig
<1>2. PICK i, kind, j : Place(envs, i, kind, j) /\ client = ClientAt(envs, i, kind, j, {variable})
  BY <1>1, ClientsAreAuths DEF HasPlace
<1>3. client = ClientAt(envs, i, kind, j, {})
  BY <1>1, <1>2, OthersAreNotTold
<1>4. QED
  BY <1>1, <1>2, <1>3, ClientsAreAuths DEF HasPlace

\* A variable is read by one entry.
LEMMA ReaderIsAlone ==
  ASSUME NEW config, Accepted(config), NEW envs, envs = config.environments, NEW variable,
         NEW i, NEW kind, NEW j, Place(envs, i, kind, j), PlaceReads(envs, i, kind, j, variable),
         NEW i2, NEW kind2, NEW j2, Place(envs, i2, kind2, j2), PlaceReads(envs, i2, kind2, j2, variable)
  PROVE  i = i2 /\ kind = kind2 /\ j = j2
<1>1. PICK env, env2 : env = envs[i] /\ env2 = envs[i2]
  OBVIOUS
<1>2. PICK a \in ReadsAt(env, kind, EntriesOf(env, kind)[j]) : VarOf(a) = variable
  BY <1>1 DEF PlaceReads
<1>3. PICK b \in ReadsAt(env2, kind2, EntriesOf(env2, kind2)[j2]) : VarOf(b) = variable
  BY <1>1 DEF PlaceReads
<1>4. /\ i \in DOMAIN envs /\ kind \in Kinds3 /\ j \in DOMAIN EntriesOf(env, kind)
      /\ i2 \in DOMAIN envs /\ kind2 \in Kinds3 /\ j2 \in DOMAIN EntriesOf(env2, kind2)
  BY <1>1 DEF Place
<1>5. a \in Claims(env) /\ b \in Claims(env2)
  <2>1. a \in ReadsOf(env)
    BY <1>2, <1>4, ReadsByEntry
  <2>2. b \in ReadsOf(env2)
    BY <1>3, <1>4, ReadsByEntry
  <2>3. QED
    BY <2>1, <2>2, ReadsAreClaimed
<1>6. i = i2 /\ a = b
  <2>1. /\ \A k \in DOMAIN envs : TypedEnvironment(envs[k])
        /\ ClaimsAgree(envs) /\ FlattenedApart(envs)
    BY DEF Accepted, TypedConfig, Valid
  <2>2. VarOf(a) = VarOf(b)
    BY <1>2, <1>3
  <2>3. QED
    BY <1>1, <1>4, <1>5, <2>1, <2>2, ClaimsAreApart
<1>7. env = env2
  BY <1>1, <1>6
<1>8. Distinct(EntriesOf(env, kind))
  <2>1. EnvironmentValid(env, config.auth)
    BY <1>1, <1>4 DEF Accepted, Valid, ToSet
  <2>2. QED
    BY <1>4, <2>1 DEF EnvironmentValid, EntriesOf, Kinds3
<1>9. kind = kind2 /\ j = j2
  BY <1>2, <1>3, <1>4, <1>6, <1>7, <1>8, ReadOnce
<1>10. QED
  BY <1>6, <1>9

LEMMA ReadIsToldToOne ==
  ASSUME NEW config, Accepted(config), NEW variable,
         NEW i, NEW kind, NEW j, Place(config.environments, i, kind, j), PlaceReads(config.environments, i, kind, j, variable)
  PROVE  Auths(config, {variable}) \ Auths(config, {}) = {ClientAt(config.environments, i, kind, j, {variable})}
<1>1. PICK envs : envs = config.environments
  OBVIOUS
<1> TypedEnvs(envs)
  BY <1>1 DEF TypedEnvs, Accepted, TypedConfig
<1>2. PICK reader : reader = ClientAt(envs, i, kind, j, {variable})
  OBVIOUS
<1>3. reader \in Auths(config, {variable})
  BY <1>1, <1>2, ClientsAreAuths DEF HasPlace
<1>4. ASSUME reader \in Auths(config, {})
      PROVE  FALSE
  <2>1. PICK i2, kind2, j2 : Place(envs, i2, kind2, j2) /\ reader = ClientAt(envs, i2, kind2, j2, {})
    BY <1>1, <1>4, ClientsAreAuths DEF HasPlace
  <2>2. PICK auth, bare : /\ auth = AuthAt(envs[i], kind, EntriesOf(envs[i], kind)[j], {variable})
                          /\ bare = AuthAt(envs[i2], kind2, EntriesOf(envs[i2], kind2)[j2], {})
    OBVIOUS
  <2>3. i = i2 /\ kind = kind2 /\ j = j2 /\ auth = bare
    BY <1>2, <2>1, <2>2, PlacesAreApart DEF ClientAt
  <2>4. bare = AuthAt(envs[i], kind, EntriesOf(envs[i], kind)[j], {})
    BY <2>2, <2>3
  <2>5. auth.secret = variable /\ bare.secret # variable
    BY <1>1, <2>2, <2>4, ReaderIsTold DEF ToldVariable
  <2>6. QED
    BY <2>3, <2>5
<1>5. ASSUME NEW client \in Auths(config, {variable}), client \notin Auths(config, {})
      PROVE  client = reader
  <2>1. PICK i2, kind2, j2 : Place(envs, i2, kind2, j2) /\ client = ClientAt(envs, i2, kind2, j2, {variable})
    BY <1>1, <1>5, ClientsAreAuths DEF HasPlace
  <2>2. PlaceReads(envs, i2, kind2, j2, variable)
    <3> SUFFICES ASSUME ~PlaceReads(envs, i2, kind2, j2, variable)
                 PROVE  FALSE
      OBVIOUS
    <3>1. client = ClientAt(envs, i2, kind2, j2, {})
      BY <1>1, <2>1, OthersAreNotTold
    <3>2. QED
      BY <1>1, <1>5, <2>1, <3>1, ClientsAreAuths DEF HasPlace
  <2>3. i = i2 /\ kind = kind2 /\ j = j2
    BY <1>1, <2>1, <2>2, ReaderIsAlone
  <2>4. QED
    BY <1>2, <2>1, <2>3
<1>6. QED
  BY <1>1, <1>2, <1>3, <1>4, <1>5

LEMMA ReaderIsChanged ==
  ASSUME NEW config, TypedConfig(config), NEW variable,
         NEW i, NEW kind, NEW j, Place(config.environments, i, kind, j), PlaceReads(config.environments, i, kind, j, variable)
  PROVE  Became(ClientAt(config.environments, i, kind, j, {variable}), Auths(config, {}), variable)
<1>1. PICK envs : envs = config.environments
  OBVIOUS
<1> TypedEnvs(envs)
  BY <1>1 DEF TypedEnvs, TypedConfig
<1>2. PICK auth, bare : /\ auth = AuthAt(envs[i], kind, EntriesOf(envs[i], kind)[j], {variable})
                        /\ bare = AuthAt(envs[i], kind, EntriesOf(envs[i], kind)[j], {})
  OBVIOUS
<1>3. auth.secret = variable /\ (bare = Unbuilt \/ (bare = Unsigned /\ auth.mode = "bearer"))
  BY <1>1, <1>2, ReaderIsTold DEF ToldVariable
<1>4. PICK client, was : client = <<i, kind, j, auth>> /\ was = <<i, kind, j, bare>>
  OBVIOUS
<1>5. client[4] = auth /\ was[4] = bare /\ SubSeq(was, 1, 3) = SubSeq(client, 1, 3)
  BY <1>4, PlaceIsKept
<1>6. client = ClientAt(envs, i, kind, j, {variable}) /\ was = ClientAt(envs, i, kind, j, {})
  BY <1>2, <1>4 DEF ClientAt
<1>7. was \in Auths(config, {})
  BY <1>1, <1>6, ClientsAreAuths DEF HasPlace
<1>8. QED
  BY <1>1, <1>3, <1>5, <1>6, <1>7 DEF Became

\* A variable that an entry reads is read at its place, and is one that entries
\* are given.
LEMMA ReadIsPlacedSomewhere ==
  ASSUME NEW envs, NEW variable,
         variable \in ReadVars(envs)
  PROVE  \E i, kind, j : Place(envs, i, kind, j) /\ PlaceReads(envs, i, kind, j, variable)
<1>1. PICK env, a : env \in ToSet(envs) /\ a \in ReadsOf(env) /\ variable = VarOf(a)
  BY DEF ReadVars
<1>2. PICK i \in DOMAIN envs : env = envs[i]
  BY <1>1 DEF ToSet
<1>3. PICK kind \in Kinds3 : \E j \in DOMAIN EntriesOf(env, kind) : a \in ReadsAt(env, kind, EntriesOf(env, kind)[j])
  BY <1>1, ReadsByEntry
<1>4. PICK j \in DOMAIN EntriesOf(env, kind) : a \in ReadsAt(env, kind, EntriesOf(env, kind)[j])
  BY <1>3
<1>5. Place(envs, i, kind, j) /\ PlaceReads(envs, i, kind, j, variable)
  BY <1>1, <1>2, <1>4 DEF Place, PlaceReads
<1>6. QED
  BY <1>5

LEMMA PlacedIsRead ==
  ASSUME NEW envs, NEW i, NEW kind, NEW j, Place(envs, i, kind, j),
         NEW a \in ReadsAt(envs[i], kind, EntriesOf(envs[i], kind)[j])
  PROVE  /\ VarOf(a) \in ReadVars(envs)
         /\ VarOf(a) \in ClaimedVars(envs)
<1>1. PICK env : env = envs[i]
  OBVIOUS
<1>2. env \in ToSet(envs) /\ kind \in Kinds3 /\ j \in DOMAIN EntriesOf(env, kind)
  BY <1>1 DEF Place, ToSet
<1>3. a \in ReadsAt(env, kind, EntriesOf(env, kind)[j])
  BY <1>1
<1>4. a \in ReadsOf(env)
  BY <1>2, <1>3, ReadsByEntry
<1>5. a \in Claims(env)
  BY <1>4, ReadsAreClaimed
<1>6. QED
  BY <1>2, <1>4, <1>5 DEF ReadVars, ClaimedVars

LEMMA OauthIsOfThePlace ==
  ASSUME NEW envs, NEW i, NEW kind, NEW j, Place(envs, i, kind, j), NEW auth
  PROVE  NamesBoth(OauthOf(envs, <<i, kind, j, auth>>)) <=> BothWays(kind, EntriesOf(envs[i], kind)[j])
<1>1. PICK client, entry : client = <<i, kind, j, auth>> /\ entry = EntriesOf(envs[i], kind)[j]
  OBVIOUS
<1>2. client[1] = i /\ client[2] = kind /\ client[3] = j /\ kind \in Kinds3
  BY <1>1, PlaceIsKept DEF Place
<1>3. CASE kind = "registry"
  <2>1. OauthOf(envs, client) = entry.oauth
    BY <1>1, <1>2, <1>3 DEF OauthOf, EntriesOf
  <2>2. QED
    BY <1>1, <1>3, <2>1 DEF BothWays, NamesBoth
<1>4. CASE kind = "cluster"
  <2>1. OauthOf(envs, client) = entry.oauth
    BY <1>1, <1>2, <1>4 DEF OauthOf, EntriesOf
  <2>2. QED
    BY <1>1, <1>4, <2>1 DEF BothWays, NamesBoth
<1>5. CASE kind = "connect"
  <2>1. OauthOf(envs, client) = Absent
    BY <1>1, <1>2, <1>5 DEF OauthOf
  <2>2. QED
    BY <1>1, <1>5, <2>1 DEF BothWays, NamesBoth
<1>6. QED
  BY <1>2, <1>3, <1>4, <1>5 DEF Kinds3

\* With the whole environment set, what is not built names two ways to buy a token.
LEMMA FullIsBuilt ==
  ASSUME NEW config, TypedConfig(config), NEW envs, envs = config.environments, NEW all,
         all = ClaimedVars(envs),
         NEW client, client \in Auths(config, all)
  PROVE  client[4] = Unbuilt <=> NamesBoth(OauthOf(envs, client))
<1>1. PICK i, kind, j : Place(envs, i, kind, j) /\ client = ClientAt(envs, i, kind, j, all)
  BY ClientsAreAuths DEF HasPlace
<1>2. PICK env, entry : env = envs[i] /\ entry = EntriesOf(envs[i], kind)[j]
  OBVIOUS
<1>3. PICK reads, auth, bare, both :
           /\ reads = ReadsAt(env, kind, entry) /\ auth = AuthAt(env, kind, entry, all)
           /\ bare = AuthAt(env, kind, entry, {}) /\ both = BothWays(kind, entry)
  OBVIOUS
<1>4. FollowsReads(reads, auth, bare, all, both)
  <2>1. TypedEnvs(envs)
    BY DEF TypedEnvs, TypedConfig
  <2>2. QED
    BY <1>1, <1>2, <1>3, <2>1, PlaceFollows
<1>5. \A a \in reads : VarOf(a) \in all
  BY <1>1, <1>2, <1>3, PlacedIsRead
<1>6. auth = Unbuilt <=> both
  BY <1>4, <1>5 DEF FollowsReads
<1>7. client = <<i, kind, j, auth>>
  BY <1>1, <1>2, <1>3 DEF ClientAt
<1>8. client[4] = auth
  BY <1>7, PlaceIsKept
<1>9. NamesBoth(OauthOf(envs, client)) <=> both
  <2>1. NamesBoth(OauthOf(envs, <<i, kind, j, auth>>)) <=> BothWays(kind, EntriesOf(envs[i], kind)[j])
    BY <1>1, OauthIsOfThePlace
  <2>2. QED
    BY <1>2, <1>3, <1>7, <2>1
<1>10. QED
  BY <1>6, <1>8, <1>9

\* Every variable that an accepted configuration names is told to one client, at
\* most.
LEMMA VariableIsOnesOwn ==
  ASSUME NEW config, Accepted(config), NEW envs, envs = config.environments, NEW variable, NEW read,
         read = ReadVars(envs),
         NEW told, told = Auths(config, {variable}) \ Auths(config, {})
  PROVE  /\ Cardinality(told) = IF variable \in read THEN 1 ELSE 0
         /\ \A client \in told : Became(client, Auths(config, {}), variable)
<1> TypedConfig(config)
  BY DEF Accepted
<1>1. CASE variable \notin read
  <2>1. ASSUME NEW i, NEW kind, NEW j, Place(envs, i, kind, j)
        PROVE  ~PlaceReads(envs, i, kind, j, variable)
    BY <1>1, <2>1, PlacedIsRead DEF PlaceReads
  <2>2. told = {}
    BY <2>1, UnreadIsUntold
  <2>3. QED
    BY <1>1, <2>2, FS_EmptySet
<1>2. CASE variable \in read
  <2>1. PICK i, kind, j : Place(envs, i, kind, j) /\ PlaceReads(envs, i, kind, j, variable)
    BY <1>2, ReadIsPlacedSomewhere
  <2>2. PICK one : one = ClientAt(envs, i, kind, j, {variable})
    OBVIOUS
  <2>3. told = {one}
    BY <2>1, <2>2, ReadIsToldToOne
  <2>4. Became(one, Auths(config, {}), variable)
    BY <2>1, <2>2, ReaderIsChanged
  <2>5. Cardinality(told) = 1
    BY <2>3, FS_Singleton
  <2>6. QED
    BY <1>2, <2>3, <2>4, <2>5
<1>3. QED
  BY <1>1, <1>2

\* A variable that an accepted configuration claims is told to the one client
\* whose entry reads it, or to none when the file has the secret; that client
\* was unbuilt, or unsigned, without it.  With all of them set a client stays
\* unbuilt only when its entry names two ways to buy a token: config.rs's claims
\* and the readers of secrets in the clients agree, credential by credential.
THEOREM CredentialsAreOnesOwn ==
  ASSUME NEW config, TypedConfig(config)
  PROVE  AuthIsOnesOwn(config)
<1>1. CASE Accepted(config)
  <2>1. PICK envs, bare, all : /\ envs = config.environments /\ bare = Auths(config, {}) /\ all = ClaimedVars(envs)
    OBVIOUS
  <2>2. ASSUME NEW variable \in all, NEW told, told = Auths(config, {variable}) \ bare
        PROVE  /\ Cardinality(told) = IF variable \in ReadVars(envs) THEN 1 ELSE 0
               /\ \A client \in told : Became(client, bare, variable)
    BY <1>1, <2>1, <2>2, VariableIsOnesOwn
  <2>3. ASSUME NEW client \in Auths(config, all)
        PROVE  client[4] = Unbuilt <=> NamesBoth(OauthOf(envs, client))
    BY <2>1, <2>3, FullIsBuilt
  <2>4. QED
    BY <2>1, <2>2, <2>3 DEF AuthIsOnesOwn
<1>2. CASE ~Accepted(config)
  BY <1>2 DEF AuthIsOnesOwn, Accepted
<1>3. QED
  BY <1>1, <1>2

LEMMA Least ==
  ASSUME NEW S \in SUBSET Nat, S # {}
  PROVE  \E x \in S : \A y \in S : x <= y
<1> DEFINE R == OpToRel(<, Nat)
<1>1. IsWellFoundedOn(R, Nat)
  BY NatLessThanWellFounded
<1>2. \A x, y \in Nat : x < y => <<x, y>> \in R
  BY DEF OpToRel
<1> HIDE DEF R
<1>3. PICK x \in S : \A y \in S : ~ (<<y, x>> \in R)
  BY <1>1, WFMin
<1>4. \A y \in S : ~ (y < x)
  BY <1>2, <1>3
<1> QED BY <1>4

LEMMA MinIs ==
  ASSUME NEW S \in SUBSET Nat, S # {}
  PROVE  Min(S) \in S /\ \A y \in S : Min(S) <= y
BY Least DEF Min

LEMMA MaxIs ==
  ASSUME NEW n \in Nat, NEW S \in SUBSET (0 .. n), S # {}
  PROVE  Max(S) \in S /\ \A y \in S : y <= Max(S)
<1> DEFINE D == {n - x : x \in S}
<1>1. D \in SUBSET Nat /\ D # {}
  <2>1. \A x \in S : n - x \in Nat
    OBVIOUS
  <2>2. D # {}
    OBVIOUS
  <2> QED BY <2>1, <2>2
<1>2. PICK d \in D : \A y \in D : d <= y
  BY <1>1, Least
<1>3. PICK m \in S : d = n - m
  BY <1>2
<1>4. \A y \in S : y <= m
  BY <1>2, <1>3
<1>5. \A y \in S : m >= y
  BY <1>4
<1> QED BY <1>3, <1>5 DEF Max

(***************************************************************************)
(* Connectors: a key and those that end in it                              *)
(***************************************************************************)
LEMMA SuffixKept ==
  ASSUME NEW S, NEW prefix \in Seq(S), NEW key \in Seq(S), NEW i \in 1 .. Len(key)
  PROVE  /\ Len(prefix \o key) = Len(prefix) + Len(key) /\ Len(prefix) \in Nat /\ Len(key) \in Nat
         /\ DOMAIN (prefix \o key) = 1 .. Len(prefix \o key)
         /\ (prefix \o key)[Len(prefix) + i] = key[i]
         /\ SubSeq(prefix \o key, Len(prefix) + i, Len(prefix \o key)) = SubSeq(key, i, Len(key))
<1>1. PICK whole, m, n : whole = prefix \o key /\ m = Len(prefix) /\ n = Len(key)
  OBVIOUS
<1>2. m \in Nat /\ n \in Nat /\ i \in 1 .. n
  BY <1>1, LenProperties
<1>3. /\ whole \in Seq(S) /\ Len(whole) = m + n
      /\ \A k \in 1 .. m + n : whole[k] = IF k <= m THEN prefix[k] ELSE key[k - m]
  BY <1>1, ConcatProperties
<1>4. \A k \in 1 .. n : whole[m + k] = key[k]
  BY <1>2, <1>3
<1>5. \A k \in 1 .. n : key[k] \in S
  BY <1>1, LenProperties
<1>6. PICK a, b : a = SubSeq(whole, m + i, m + n) /\ b = SubSeq(key, i, n)
  OBVIOUS
<1>7. /\ a \in Seq(S) /\ Len(a) = n - i + 1
      /\ \A k \in 1 .. n - i + 1 : a[k] = whole[m + i + k - 1]
  <2>1. \A k \in m + i .. m + n : whole[k] \in S
    BY <1>2, <1>3, <1>5
  <2>2. m + i \in Int /\ m + n \in Int /\ m + i <= m + n
    BY <1>2
  <2>3. /\ a \in Seq(S) /\ Len(a) = (m + n) - (m + i) + 1
        /\ \A k \in 1 .. (m + n) - (m + i) + 1 : a[k] = whole[(m + i) + k - 1]
    BY <1>6, <2>1, <2>2, SubSeqProperties
  <2>4. QED
    BY <1>2, <2>3
<1>8. /\ b \in Seq(S) /\ Len(b) = n - i + 1
      /\ \A k \in 1 .. n - i + 1 : b[k] = key[i + k - 1]
  <2>1. \A k \in i .. n : key[k] \in S
    BY <1>2, <1>5
  <2>2. i \in Int /\ n \in Int /\ i <= n
    BY <1>2
  <2>3. QED
    BY <1>6, <2>1, <2>2, SubSeqProperties
<1>9. \A k \in 1 .. n - i + 1 : a[k] = b[k]
  <2> SUFFICES ASSUME NEW k \in 1 .. n - i + 1
               PROVE  a[k] = b[k]
    OBVIOUS
  <2>1. a[k] = whole[m + i + k - 1] /\ b[k] = key[i + k - 1]
    BY <1>7, <1>8
  <2>2. i + k - 1 \in 1 .. n /\ m + (i + k - 1) = m + i + k - 1
    BY <1>2
  <2>3. whole[m + (i + k - 1)] = key[i + k - 1]
    BY <1>4, <2>2
  <2>4. QED
    BY <2>1, <2>2, <2>3
<1>10. a = b
  BY <1>7, <1>8, <1>9, SeqEqual
<1>11. DOMAIN whole = 1 .. Len(whole)
  BY <1>3, LenProperties
<1>12. QED
  BY <1>1, <1>2, <1>3, <1>4, <1>6, <1>10, <1>11

LEMMA EndsInSecret ==
  ASSUME NEW S, NEW prefix \in Seq(S), NEW key \in Seq(S), key # <<>>, EndsSecret(key)
  PROVE  EndsSecret(prefix \o key)
<1>1. PICK whole, m, n : whole = prefix \o key /\ m = Len(prefix) /\ n = Len(key)
  OBVIOUS
<1>2. m \in Nat /\ n \in Nat /\ n # 0
  BY <1>1, LenProperties, EmptySeq
<1>3. n \in 1 .. n
  BY <1>2
<1>4. Len(whole) = m + n /\ whole[m + n] = key[n]
  BY <1>1, <1>3, SuffixKept
<1>5. CASE \E word \in SecretWords : key[n] \in EndingIn[word]
  BY <1>1, <1>4, <1>5 DEF EndsSecret
<1>6. CASE n > 1 /\ SubSeq(key, n - 1, n) \in SecretPairs
  <2>1. n - 1 \in 1 .. n
    BY <1>2, <1>6
  <2>2. SubSeq(whole, m + (n - 1), m + n) = SubSeq(key, n - 1, n)
    BY <1>1, <1>4, <2>1, SuffixKept
  <2>3. m + (n - 1) = Len(whole) - 1 /\ Len(whole) > 1
    BY <1>2, <1>4, <1>6
  <2>4. SubSeq(whole, Len(whole) - 1, Len(whole)) \in SecretPairs
    BY <1>4, <1>6, <2>2, <2>3
  <2>5. QED
    BY <1>1, <2>3, <2>4 DEF EndsSecret
<1>7. QED
  BY <1>1, <1>5, <1>6 DEF EndsSecret

LEMMA DeclaredIsDeclared ==
  ASSUME NEW S, NEW prefix \in Seq(S), NEW key \in Seq(S), NEW secrets, DeclaresSecret(secrets, key)
  PROVE  DeclaresSecret(secrets, prefix \o key)
<1>1. PICK i \in DOMAIN key : SubSeq(key, i, Len(key)) \in secrets
  BY DEF DeclaresSecret
<1>2. i \in 1 .. Len(key)
  BY LenProperties
<1>3. PICK whole, m, n : whole = prefix \o key /\ m = Len(prefix) /\ n = Len(key)
  OBVIOUS
<1>4. /\ Len(whole) = m + n /\ m \in Nat /\ n \in Nat /\ DOMAIN whole = 1 .. Len(whole)
      /\ SubSeq(whole, m + i, Len(whole)) = SubSeq(key, i, n)
  BY <1>2, <1>3, SuffixKept
<1>5. m + i \in DOMAIN whole
  BY <1>2, <1>3, <1>4
<1>6. SubSeq(whole, m + i, Len(whole)) \in secrets
  BY <1>1, <1>3, <1>4
<1>7. DeclaresSecret(secrets, whole)
  BY <1>5, <1>6 DEF DeclaresSecret
<1>8. QED
  BY <1>3, <1>7

\* What is shown as a pointer is one pointer: it closes once.
LEMMA ReferenceClosesOnce ==
  ASSUME NEW S, NEW value \in Seq(S), IsReference(value)
  PROVE  Cardinality({i \in DOMAIN value : value[i] = Brace}) = 1
<1>1. PICK n, solid : n = Len(value) /\ solid = {i \in DOMAIN value : value[i] # Space}
  OBVIOUS
<1>2. n \in Nat /\ DOMAIN value = 1 .. n /\ \A i \in 1 .. n : value[i] \in S
  BY <1>1, LenProperties
<1>3. PICK text, size : text = Trimmed(value) /\ size = Len(text)
  OBVIOUS
<1>4. size > 2 /\ text[1] = Dollar /\ text[size] = Brace
  BY <1>3 DEF IsReference
<1>5. solid # {}
  <2>1. solid = {} => text = <<>>
    BY <1>1, <1>3 DEF Trimmed
  <2>2. QED
    BY <1>3, <1>4, <2>1, EmptySeq
<1>6. PICK lo, hi : lo = Min(solid) /\ hi = Max(solid)
  OBVIOUS
<1>7. /\ lo \in solid /\ hi \in solid /\ lo \in 1 .. n /\ hi \in 1 .. n /\ lo <= hi
      /\ \A i \in solid : lo <= i /\ i <= hi
  <2>1. solid \in SUBSET Nat /\ solid \in SUBSET (0 .. n) /\ solid \in SUBSET (1 .. n)
    BY <1>1, <1>2
  <2>2. lo \in solid /\ \A i \in solid : lo <= i
    BY <1>5, <1>6, <2>1, MinIs
  <2>3. hi \in solid /\ \A i \in solid : i <= hi
    BY <1>2, <1>5, <1>6, <2>1, MaxIs
  <2>4. QED
    BY <2>1, <2>2, <2>3
<1>8. text \in Seq(S) /\ size = hi - lo + 1 /\ \A k \in 1 .. size : text[k] = value[lo + k - 1]
  <2>1. text = SubSeq(value, lo, hi)
    BY <1>1, <1>3, <1>5, <1>6 DEF Trimmed
  <2>2. lo \in Int /\ hi \in Int /\ \A i \in lo .. hi : value[i] \in S
    BY <1>2, <1>7
  <2>3. /\ text \in Seq(S) /\ Len(text) = hi - lo + 1
        /\ \A k \in 1 .. hi - lo + 1 : text[k] = value[lo + k - 1]
    BY <1>7, <2>1, <2>2, SubSeqProperties
  <2>4. QED
    BY <1>3, <2>3
<1>9. PICK inner : inner = SubSeq(text, 2, size - 1)
  OBVIOUS
<1>10. /\ DOMAIN inner = 1 .. size - 2
       /\ \A k \in 1 .. size - 2 : inner[k] = text[k + 1]
  <2>1. size \in Int /\ \A k \in 1 .. size : text[k] \in S
    BY <1>2, <1>7, <1>8
  <2>2. 2 \in Int /\ size - 1 \in Int /\ 2 <= size - 1 /\ \A k \in 2 .. size - 1 : text[k] \in S
    BY <1>4, <2>1
  <2>3. /\ inner \in Seq(S) /\ Len(inner) = (size - 1) - 2 + 1
        /\ \A k \in 1 .. (size - 1) - 2 + 1 : inner[k] = text[2 + k - 1]
    BY <1>9, <2>2, SubSeqProperties
  <2>4. DOMAIN inner = 1 .. Len(inner)
    BY <2>3, LenProperties
  <2>5. (size - 1) - 2 + 1 = size - 2
    BY <2>1
  <2>6. ASSUME NEW k \in 1 .. size - 2
        PROVE  inner[k] = text[k + 1]
    <3>1. inner[k] = text[2 + k - 1]
      BY <2>3, <2>5, <2>6
    <3>2. 2 + k - 1 = k + 1
      BY <2>6
    <3>3. QED
      BY <3>1, <3>2
  <2>7. QED
    BY <2>3, <2>4, <2>5, <2>6
<1>11. \A k \in 1 .. size - 2 : text[k + 1] # Brace
  <2>1. \A k \in DOMAIN inner : inner[k] # Brace
    BY <1>3, <1>9 DEF IsReference
  <2>2. QED
    BY <1>10, <2>1
<1>12. value[hi] = Brace
  <2>1. size \in 1 .. size /\ lo + size - 1 = hi
    BY <1>2, <1>4, <1>7, <1>8
  <2>2. QED
    BY <1>4, <1>8, <2>1
<1>13. ASSUME NEW i \in 1 .. n, i # hi
       PROVE  value[i] # Brace
  <2>1. CASE i \notin solid
    BY <1>1, <1>2, <2>1 DEF Space, Brace
  <2>2. CASE i \in solid
    <3>1. lo <= i /\ i < hi
      BY <1>2, <1>7, <1>13, <2>2
    <3>2. PICK k : k = i - lo
      OBVIOUS
    <3>3. k + 1 \in 1 .. size /\ lo + (k + 1) - 1 = i
      BY <1>2, <1>7, <1>8, <3>1, <3>2
    <3>4. value[i] = text[k + 1]
      BY <1>8, <3>3
    <3>5. CASE k = 0
      <4>1. value[i] = text[1]
        BY <3>4, <3>5
      <4>2. QED
        BY <1>4, <4>1 DEF Dollar, Brace
    <3>6. CASE k # 0
      <4>1. k \in 1 .. size - 2
        BY <1>2, <1>7, <1>8, <3>1, <3>2, <3>6
      <4>2. QED
        BY <1>11, <3>4, <4>1
    <3>7. QED
      BY <3>5, <3>6
  <2>3. QED
    BY <2>1, <2>2
<1>14. {i \in DOMAIN value : value[i] = Brace} = {hi}
  BY <1>2, <1>7, <1>12, <1>13
<1>15. QED
  BY <1>14, FS_Singleton

\* Whatever prefixes a connector's key is written under, a value withheld under
\* the key is withheld under them, knowing the plugin only withholds more, and a
\* value shown as a reference is one reference: redact.rs reads keys from their
\* end, for keys and values of any length.
THEOREM PrefixesHideNothing ==
  ASSUME NEW S, NEW prefix \in Seq(S), NEW key \in Seq(S), key # <<>>, NEW T, NEW value \in Seq(T), NEW secrets
  PROVE  PrefixHidesNothing(secrets, prefix, key, value)
<1>1. ASSUME Withheld(secrets, key, value)
      PROVE  (BeginsSecret(key) /\ ~EndsSecret(key)) \/ Withheld(secrets, prefix \o key, value)
  <2>1. CASE EndsSecret(key)
    <3>1. EndsSecret(prefix \o key)
      BY <2>1, EndsInSecret
    <3>2. QED
      BY <1>1, <3>1 DEF Withheld, NamedSecret
  <2>2. CASE secrets # Absent /\ DeclaresSecret(secrets, key)
    <3>1. DeclaresSecret(secrets, prefix \o key)
      BY <2>2, DeclaredIsDeclared
    <3>2. QED
      BY <1>1, <2>2, <3>1 DEF Withheld
  <2>3. QED
    BY <1>1, <2>1, <2>2 DEF Withheld, NamedSecret
<1>2. ASSUME Withheld(secrets, key, value), secrets = Absent, NEW more \in SUBSET {key, prefix}
      PROVE  Withheld(more, key, value)
  BY <1>2 DEF Withheld
<1>3. ASSUME NamedSecret(key), ~Withheld(secrets, key, value)
      PROVE  Cardinality({i \in DOMAIN value : value[i] = Brace}) = 1
  <2>1. IsReference(value)
    BY <1>3 DEF Withheld
  <2>2. QED
    BY <2>1, ReferenceClosesOnce
<1>4. QED
  BY <1>1, <1>2, <1>3 DEF PrefixHidesNothing

\* A page shows of a task's config what it shows of the connector's under the
\* same key, and withholds a task's own value where it withholds the
\* connector's, whatever the two hold, and although a task names no class: the
\* connector's plugin is handed to redact.rs for both.
THEOREM TasksShowNoMore ==
  ASSUME NEW definitions, NEW config, NEW own
  PROVE  TasksHideNoLess(definitions, config, own)
<1>1. PICK secrets, handed, page, bare :
           /\ secrets = SecretsFor(definitions, config)
           /\ handed = [key \in DOMAIN config \ {ClassKey} |-> config[key]]
           /\ page = ConnectorPage(definitions, config, Answer(<<handed, own>>))
           /\ bare = ConnectorPage(definitions, config, Fault("unreachable"))
  OBVIOUS
<1>2. page.config = Redacted(definitions, config) /\ bare.config = Redacted(definitions, config)
  BY <1>1 DEF ConnectorPage
<1>3. \A key \in DOMAIN config :
        page.config[key] = IF Withheld(secrets, key, config[key]) THEN Stars ELSE config[key]
  BY <1>1, <1>2 DEF Redacted
<1>4. /\ \A key \in DOMAIN handed :
           page.tasks[1][key] = IF Withheld(secrets, key, handed[key]) THEN Stars ELSE handed[key]
      /\ \A key \in DOMAIN own :
           page.tasks[2][key] = IF Withheld(secrets, key, own[key]) THEN Stars ELSE own[key]
  <2>1. page.tasks = [id \in DOMAIN <<handed, own>> |->
                        [key \in DOMAIN <<handed, own>>[id] |->
                           IF Withheld(secrets, key, <<handed, own>>[id][key]) THEN Stars ELSE <<handed, own>>[id][key]]]
    BY <1>1 DEF ConnectorPage, Answer
  <2>2. /\ page.tasks[1] = [key \in DOMAIN handed |-> IF Withheld(secrets, key, handed[key]) THEN Stars ELSE handed[key]]
        /\ page.tasks[2] = [key \in DOMAIN own |-> IF Withheld(secrets, key, own[key]) THEN Stars ELSE own[key]]
    BY <2>1
  <2>3. QED
    BY <2>2
<1>5. \A key \in DOMAIN handed : page.tasks[1][key] = page.config[key]
  BY <1>1, <1>3, <1>4
<1>6. ASSUME NEW key \in DOMAIN config \cap DOMAIN own, page.config[key] = Stars, config[key] # Stars
      PROVE  page.tasks[2][key] = Stars \/ IsReference(own[key])
  <2>1. Withheld(secrets, key, config[key])
    BY <1>3, <1>6
  <2>2. Withheld(secrets, key, own[key]) \/ IsReference(own[key])
    BY <2>1 DEF Withheld
  <2>3. QED
    BY <1>4, <1>6, <2>2
<1>7. QED
  BY <1>1, <1>2, <1>5, <1>6 DEF TasksHideNoLess

LEMMA ClassKeyParts ==
  /\ Len(ClassKey) = 2 /\ DOMAIN ClassKey = 1 .. 2 /\ ClassKey[2] = "class"
  /\ SubSeq(ClassKey, 1, 2) = ClassKey /\ SubSeq(ClassKey, 2, 2) = <<"class">>
<1>1. PICK key, S, tail : key = <<"connector", "class">> /\ S = {"connector", "class"} /\ tail = <<"class">>
  OBVIOUS
<1>2. /\ key \in Seq(S) /\ Len(key) = 2 /\ DOMAIN key = 1 .. 2 /\ key[1] = "connector" /\ key[2] = "class"
      /\ tail \in Seq(S) /\ Len(tail) = 1 /\ tail[1] = "class"
  BY <1>1
<1>3. \A i \in 1 .. 2 : key[i] \in S
  BY <1>1, <1>2
<1>4. SubSeq(key, 1, 2) = key
  <2>1. /\ SubSeq(key, 1, 2) \in Seq(S) /\ Len(SubSeq(key, 1, 2)) = 2
        /\ \A i \in 1 .. 2 : SubSeq(key, 1, 2)[i] = key[i]
    BY <1>3, SubSeqProperties
  <2>2. QED
    BY <1>2, <2>1, SeqEqual
<1>5. SubSeq(key, 2, 2) = tail
  <2>1. /\ SubSeq(key, 2, 2) \in Seq(S) /\ Len(SubSeq(key, 2, 2)) = 1
        /\ \A i \in 1 .. 1 : SubSeq(key, 2, 2)[i] = key[i + 1]
    BY <1>3, SubSeqProperties
  <2>2. \A i \in 1 .. 1 : SubSeq(key, 2, 2)[i] = tail[i]
    BY <1>2, <2>1
  <2>3. QED
    BY <1>2, <2>1, <2>2, SeqEqual
<1>6. QED
  BY <1>1, <1>2, <1>4, <1>5 DEF ClassKey

\* The class is read by everybody: it is named like no secret, and no plugin
\* declares it one.
ClassIsOpen(secrets) == secrets = Absent \/ (ClassKey \notin secrets /\ <<"class">> \notin secrets)

LEMMA ClassIsNotWithheld ==
  ASSUME NEW secrets, NEW value, ClassIsOpen(secrets)
  PROVE  ~Withheld(secrets, ClassKey, value)
<1>1. ~BeginsSecret(ClassKey)
  BY ClassKeyParts DEF BeginsSecret
<1>2. ~EndsSecret(ClassKey)
  <2>1. \A word \in SecretWords : ClassKey[Len(ClassKey)] \notin EndingIn[word]
    BY ClassKeyParts, ClassIsShown
  <2>2. SubSeq(ClassKey, Len(ClassKey) - 1, Len(ClassKey)) = ClassKey
    BY ClassKeyParts
  <2>3. ClassKey \notin SecretPairs
    BY DEF ClassKey, SecretPairs
  <2>4. QED
    BY <2>1, <2>2, <2>3 DEF EndsSecret
<1>3. secrets = Absent \/ ~DeclaresSecret(secrets, ClassKey)
  <2>1. SUFFICES ASSUME ClassKey \notin secrets, <<"class">> \notin secrets
                 PROVE  ~DeclaresSecret(secrets, ClassKey)
    BY DEF ClassIsOpen
  <2>2. \A i \in DOMAIN ClassKey : SubSeq(ClassKey, i, Len(ClassKey)) \notin secrets
    <3> SUFFICES ASSUME NEW i \in DOMAIN ClassKey
                 PROVE  SubSeq(ClassKey, i, Len(ClassKey)) \notin secrets
      OBVIOUS
    <3>1. i = 1 \/ i = 2
      BY ClassKeyParts
    <3>2. QED
      BY <2>1, <3>1, ClassKeyParts
  <2>3. QED
    BY <2>2 DEF DeclaresSecret
<1>4. QED
  BY <1>1, <1>2, <1>3 DEF Withheld, NamedSecret

\* What an edit starts from: configs that name the connector they are of, of a
\* class that is a class, and plugins whose class is open to read.
Editable(definitions, name, read, current) ==
  /\ NameKey \in DOMAIN read => read[NameKey] = name
  /\ NameKey \in DOMAIN current => current[NameKey] = name
  /\ ClassKey \in DOMAIN read => read[ClassKey] # Stars
  /\ \A class \in DOMAIN definitions : ClassIsOpen(definitions[class])

\* What write.rs sends of a form is what was edited, the worker's own value for
\* what was withheld and untouched, and as read otherwise; it declines only what
\* the promise says, and a preview gives away nothing the read withheld.  Any
\* configs, edits and removals, of a connector whose configs name it.
THEOREM EditsAreExact ==
  ASSUME NEW definitions, NEW name, NEW read, NEW current, NEW edits, NEW removed,
         Editable(definitions, name, read, current)
  PROVE  EditIsExact(definitions, name, read, current, edits, removed)
<1>1. PICK form, submitted, edit, copied, secrets :
           /\ form = Redacted(definitions, read) /\ submitted = Edited(form, edits, removed)
           /\ edit = PrepareEdit(name, current, submitted) /\ copied = PrepareCreate(name, submitted)
           /\ secrets = SecretsFor(definitions, read)
  OBVIOUS
<1>2. PICK sent, untouched, preview :
           /\ sent = edit.value /\ untouched = DOMAIN form \ (DOMAIN edits \cup removed)
           /\ preview = Redacted(definitions, sent)
  OBVIOUS
<1>3. PICK kept, config :
           /\ kept = {key \in DOMAIN submitted : submitted[key] = Stars}
           /\ config = [key \in DOMAIN submitted |-> IF key \in kept THEN current[key] ELSE submitted[key]]
  OBVIOUS
<1>4. edit = IF ~(kept \subseteq DOMAIN current) \/ NamesAnother(name, config) THEN Fault("invalid") ELSE Answer(config)
  BY <1>1, <1>3 DEF PrepareEdit
<1>5. /\ edit.ok <=> kept \subseteq DOMAIN current /\ ~NamesAnother(name, config)
      /\ edit.ok => sent = config
  BY <1>2, <1>4 DEF Fault, Answer
<1>6. /\ DOMAIN form = DOMAIN read
      /\ \A key \in DOMAIN read : form[key] = IF Withheld(secrets, key, read[key]) THEN Stars ELSE read[key]
  BY <1>1 DEF Redacted
<1>7. /\ DOMAIN submitted = (DOMAIN read \cup DOMAIN edits) \ removed
      /\ submitted = [key \in DOMAIN submitted |-> submitted[key]]
      /\ \A key \in DOMAIN submitted : submitted[key] = IF key \in DOMAIN edits THEN edits[key] ELSE form[key]
  BY <1>1, <1>6 DEF Edited
<1>8. /\ DOMAIN config = DOMAIN submitted
      /\ \A key \in DOMAIN submitted : config[key] = IF submitted[key] = Stars THEN current[key] ELSE submitted[key]
  BY <1>3
<1>9. untouched \subseteq DOMAIN read /\ untouched \subseteq DOMAIN submitted
      /\ \A key \in untouched : submitted[key] = form[key]
  BY <1>2, <1>6, <1>7
<1>10. kept = {} => config = submitted
  BY <1>3, <1>7
<1>11. copied = IF kept # {} \/ ClassKey \notin DOMAIN submitted \/ NamesAnother(name, submitted)
                THEN Fault("invalid") ELSE Answer(submitted)
  BY <1>1, <1>3 DEF PrepareCreate
<1>12. copied.ok => copied = edit
  BY <1>4, <1>10, <1>11 DEF Fault, Answer
<1>13. ~copied.ok => ~edit.ok \/ ClassKey \notin DOMAIN submitted \/ \E key \in DOMAIN submitted : submitted[key] = Stars
  <2>1. ~copied.ok => kept # {} \/ ClassKey \notin DOMAIN submitted \/ NamesAnother(name, submitted)
    BY <1>11 DEF Fault, Answer
  <2>2. QED
    BY <1>3, <1>5, <1>10, <2>1
<1>14. ASSUME ~edit.ok
       PROVE  \/ \E key \in DOMAIN submitted : submitted[key] = Stars /\ key \notin DOMAIN current
              \/ NameKey \in DOMAIN edits /\ edits[NameKey] # name
  <2>1. CASE ~(kept \subseteq DOMAIN current)
    BY <1>3, <2>1
  <2>2. CASE kept \subseteq DOMAIN current /\ NamesAnother(name, config)
    <3>1. NameKey \in DOMAIN submitted /\ config[NameKey] # name
      BY <1>8, <2>2 DEF NamesAnother
    <3>2. submitted[NameKey] # Stars
      <4>1. submitted[NameKey] = Stars => NameKey \in DOMAIN current /\ config[NameKey] = current[NameKey]
        BY <1>3, <1>8, <2>2, <3>1
      <4>2. QED
        BY <3>1, <4>1 DEF Editable
    <3>3. submitted[NameKey] # name
      BY <1>8, <3>1, <3>2
    <3>4. NameKey \notin DOMAIN edits => NameKey \in DOMAIN read /\ submitted[NameKey] = form[NameKey]
      BY <1>7, <3>1
    <3>5. NameKey \in DOMAIN edits
      BY <1>6, <3>2, <3>3, <3>4 DEF Editable
    <3>6. QED
      BY <1>7, <3>1, <3>3, <3>5
  <2>3. QED
    BY <1>5, <1>14, <2>1, <2>2
<1>15. ASSUME edit.ok
       PROVE  /\ DOMAIN sent = (DOMAIN read \cup DOMAIN edits) \ removed
              /\ \A key \in untouched : sent[key] = IF form[key] = Stars THEN current[key] ELSE read[key]
              /\ \A key \in DOMAIN sent :
                   /\ sent[key] = Stars => key \in DOMAIN current /\ current[key] = Stars
                   /\ key \in DOMAIN edits /\ edits[key] # Stars => sent[key] = edits[key]
  <2>1. sent = config /\ kept \subseteq DOMAIN current
    BY <1>5, <1>15
  <2>2. \A key \in untouched : form[key] # Stars => form[key] = read[key]
    BY <1>6, <1>9
  <2>3. \A key \in DOMAIN submitted : submitted[key] = Stars => key \in DOMAIN current
    BY <1>3, <2>1
  <2>4. DOMAIN sent = (DOMAIN read \cup DOMAIN edits) \ removed
    BY <1>7, <1>8, <2>1
  <2>5. \A key \in untouched : sent[key] = IF form[key] = Stars THEN current[key] ELSE read[key]
    BY <1>8, <1>9, <2>1, <2>2
  <2>6. \A key \in DOMAIN sent : sent[key] = Stars => key \in DOMAIN current /\ current[key] = Stars
    BY <1>8, <2>1, <2>3
  <2>7. \A key \in DOMAIN sent : key \in DOMAIN edits /\ edits[key] # Stars => sent[key] = edits[key]
    BY <1>7, <1>8, <2>1
  <2>8. QED
    BY <2>4, <2>5, <2>6, <2>7
<1>16. ASSUME edit.ok, ClassKey \in untouched, NEW key \in untouched, form[key] = Stars, read[key] # Stars,
              ~IsReference(current[key])
       PROVE  preview[key] = Stars
  <2>1. /\ sent[key] = current[key] /\ key \in DOMAIN sent /\ ClassKey \in DOMAIN sent
        /\ key \in DOMAIN read /\ ClassKey \in DOMAIN read
    BY <1>5, <1>8, <1>9, <1>15, <1>16
  <2>2. Withheld(secrets, key, read[key])
    BY <1>6, <1>16, <2>1
  <2>3. sent[ClassKey] = read[ClassKey]
    <3>1. ClassIsOpen(secrets)
      <4>1. \A class \in DOMAIN definitions : ClassIsOpen(definitions[class])
        BY DEF Editable
      <4>2. ClassIsOpen(Absent)
        BY DEF ClassIsOpen
      <4>3. QED
        BY <1>1, <4>1, <4>2 DEF SecretsFor
    <3>2. ~Withheld(secrets, ClassKey, read[ClassKey])
      BY <3>1, ClassIsNotWithheld
    <3>3. form[ClassKey] = read[ClassKey] /\ read[ClassKey] # Stars
      BY <1>6, <2>1, <3>2 DEF Editable
    <3>4. QED
      BY <1>15, <1>16, <3>3
  <2>4. SecretsFor(definitions, sent) = secrets
    BY <1>1, <2>1, <2>3 DEF SecretsFor
  <2>5. Withheld(secrets, key, sent[key])
    BY <1>16, <2>1, <2>2 DEF Withheld
  <2>6. QED
    BY <1>2, <2>1, <2>4, <2>5 DEF Redacted
<1>17. QED
  <2>1. edit.ok /\ ClassKey \in untouched =>
          \A key \in untouched :
            form[key] = Stars => Stars \in {preview[key], read[key]} \/ IsReference(current[key])
    BY <1>16
  <2>2. QED
    BY <1>1, <1>2, <1>12, <1>13, <1>14, <1>15, <2>1 DEF EditIsExact

(***************************************************************************)
(* What the questions are asked with                                       *)
(***************************************************************************)
LEMMA SeqIsText ==
  ASSUME NEW S, NEW s \in Seq(S)
  PROVE  IsText(s)
<1>1. PICK n \in Nat : s \in [1 .. n -> S]
  BY SeqDef
<1>2. s \in [1 .. n -> ToSet(s)]
  BY <1>1 DEF ToSet
<1>3. QED
  BY <1>2, SeqDef DEF IsText

LEMMA ThreeAreSeq ==
  ASSUME NEW S, NEW a \in S, NEW b \in S, NEW c \in S
  PROVE  <<a, b, c>> \in Seq(S)
OBVIOUS

LEMMA IdsAreText ==
  ASSUME NEW id \in Ids \cup {<<"a", "a", "a">>}
  PROVE  IsText(id)
<1>1. PICK S : S = {"a", "-", "_"}
  OBVIOUS
<1>2. /\ <<"a">> \in Seq(S) /\ <<"a", "-", "a">> \in Seq(S) /\ <<"a", "_", "a">> \in Seq(S)
      /\ <<"a", "a", "a">> \in Seq(S)
  <2>1. "a" \in S /\ "-" \in S /\ "_" \in S
    BY <1>1
  <2>2. QED
    BY <2>1, SingleIsSeq, ThreeAreSeq
<1>3. id \in Seq(S)
  BY <1>2 DEF Ids
<1>4. QED
  BY <1>3, SeqIsText

\* A cluster has the fields of OAuth when that is its SASL.
OauthIsItsSasl(cluster) == cluster.sasl = "oauth" <=> cluster.oauth # Absent

LEMMA PlainIsTyped ==
  ASSUME NEW id
  PROVE  Plain(id).id = id /\ OauthIsItsSasl(Plain(id))
<1>1. Plain(id).sasl = Absent /\ Plain(id).oauth = Absent /\ Plain(id).id = id
  BY DEF Plain
<1>2. Absent # "oauth"
  BY AbsentIsNoValue
<1>3. QED
  BY <1>1, <1>2 DEF OauthIsItsSasl

LEMMA ClusterEntriesAreTyped ==
  ASSUME NEW id, NEW cluster \in ClusterEntries(id)
  PROVE  cluster.id = id /\ OauthIsItsSasl(cluster)
<1>1. CASE \E p \in BOOLEAN : cluster = [Plain(id) EXCEPT !.sasl = "password", !.password = p]
  <2>1. cluster.id = id /\ cluster.sasl = "password" /\ cluster.oauth = Absent
    BY <1>1 DEF Plain
  <2>2. QED
    BY <2>1 DEF OauthIsItsSasl
<1>2. CASE \E a \in BOOLEAN : cluster = [Plain(id) EXCEPT !.sasl = "oauth", !.oauth = Oauth(FALSE, a)]
  <2>1. PICK a \in BOOLEAN : cluster = [Plain(id) EXCEPT !.sasl = "oauth", !.oauth = Oauth(FALSE, a)]
    BY <1>2
  <2>2. PICK oauth : oauth = Oauth(FALSE, a)
    OBVIOUS
  <2>3. cluster.id = id /\ cluster.sasl = "oauth" /\ cluster.oauth = oauth
    BY <2>1, <2>2 DEF Plain
  <2>4. oauth \in [plaintext : BOOLEAN, secret : BOOLEAN, assertion : BOOLEAN]
    BY <2>2 DEF Oauth
  <2>5. oauth # Absent
    BY <2>4, AbsentIsNoValue
  <2>6. QED
    BY <2>3, <2>5 DEF OauthIsItsSasl
<1>3. QED
  BY <1>1, <1>2 DEF ClusterEntries

LEMMA WebIsTyped ==
  ASSUME NEW id, NEW entry \in Web(id) \cup RegistryEntries(id)
  PROVE  entry.id = id
<1>1. Entry(id).id = id
  BY DEF Entry
<1>2. ASSUME NEW web \in Web(id)
      PROVE  web.id = id
  BY <1>1, <1>2 DEF Web, Entry
<1>3. ASSUME NEW oauth, entry = [Entry(id) EXCEPT !.oauth = oauth]
      PROVE  entry.id = id
  BY <1>1, <1>3 DEF Entry
<1>4. entry \in Web(id) \/ \E oauth : entry = [Entry(id) EXCEPT !.oauth = oauth]
  BY DEF RegistryEntries
<1>5. QED
  BY <1>2, <1>3, <1>4

TypedDeclaration(d) ==
  /\ IsText(d.env) /\ IsText(d.entry.id)
  /\ d.kind = "cluster" => OauthIsItsSasl(d.entry)

LEMMA DeclarationsAreTyped ==
  ASSUME NEW d \in Declarations
  PROVE  TypedDeclaration(d)
<1>1. PICK id \in Ids : \/ d \in [env : Ids, kind : {"registry"}, entry : RegistryEntries(id)]
                        \/ d \in [env : Ids, kind : {"cluster"}, entry : ClusterEntries(id)]
                        \/ d \in [env : Ids, kind : {"connect"}, entry : Web(id)]
  BY DEF Declarations
<1>2. IsText(id) /\ \A e \in Ids : IsText(e)
  BY IdsAreText
<1>3. CASE d \in [env : Ids, kind : {"registry"}, entry : RegistryEntries(id)]
  <2>1. d.env \in Ids /\ d.kind = "registry" /\ d.entry \in RegistryEntries(id)
    BY <1>3
  <2>2. QED
    BY <1>2, <2>1, WebIsTyped DEF TypedDeclaration
<1>4. CASE d \in [env : Ids, kind : {"cluster"}, entry : ClusterEntries(id)]
  <2>1. d.env \in Ids /\ d.entry \in ClusterEntries(id)
    BY <1>4
  <2>2. QED
    BY <1>2, <2>1, ClusterEntriesAreTyped DEF TypedDeclaration
<1>5. CASE d \in [env : Ids, kind : {"connect"}, entry : Web(id)]
  <2>1. d.env \in Ids /\ d.kind = "connect" /\ d.entry \in Web(id)
    BY <1>5
  <2>2. QED
    BY <1>2, <2>1, WebIsTyped DEF TypedDeclaration
<1>6. QED
  BY <1>1, <1>3, <1>4, <1>5

\* The entries of a kind are those that were declared of it.
EntriesUnder(first, second, kind) ==
  {d.entry : d \in {e \in {first, second} : e.kind = kind}}

LEMMA UnderIsDeclared ==
  ASSUME NEW first, NEW second, NEW d \in {first, second}, NEW env, NEW kind, NEW S,
         EntriesUnder(first, second, kind) \subseteq S
  PROVE  Under(d, env, kind) \in Seq(S)
<1>1. PICK nothing : nothing = <<>> /\ nothing \in Seq(S)
  BY EmptySeq
<1>2. CASE d.env = env /\ d.kind = kind
  <2>1. PICK entry, one : entry = d.entry /\ one = <<entry>>
    OBVIOUS
  <2>2. entry \in S
    BY <1>2, <2>1 DEF EntriesUnder
  <2>3. one \in Seq(S)
    BY <2>1, <2>2, SingleIsSeq
  <2>4. QED
    BY <1>2, <2>1, <2>3 DEF Under
<1>3. CASE ~(d.env = env /\ d.kind = kind)
  BY <1>1, <1>3 DEF Under
<1>4. QED
  BY <1>2, <1>3

\* The entries of an environment of a declaration.
LEMMA EntriesAreDeclared ==
  ASSUME NEW first, NEW second, NEW env, NEW kind, NEW S, EntriesUnder(first, second, kind) \subseteq S
  PROVE  Under(first, env, kind) \o Under(second, env, kind) \in Seq(S)
<1>1. Under(first, env, kind) \in Seq(S) /\ Under(second, env, kind) \in Seq(S)
  BY UnderIsDeclared
<1>2. QED
  BY <1>1, ConcatProperties

LEMMA EntriesAreText ==
  ASSUME NEW S, NEW entries \in Seq(S), \A entry \in S : IsText(entry.id)
  PROVE  TypedEntries(entries)
<1>1. \A i \in DOMAIN entries : entries[i] \in S
  BY LenProperties
<1>2. QED
  BY <1>1 DEF TypedEntries

LEMMA EnvironmentIsTyped ==
  ASSUME NEW first \in Declarations, NEW second \in Declarations, NEW env \in Ids,
         NEW extra \in Seq({Plain(<<"a", "a", "a">>)})
  PROVE  TypedEnvironment(EnvironmentOf(env, first, second, extra))
<1>1. PICK environment, plain, registries, clusters, connects :
           /\ environment = EnvironmentOf(env, first, second, extra) /\ plain = Plain(<<"a", "a", "a">>)
           /\ registries = Under(first, env, "registry") \o Under(second, env, "registry")
           /\ clusters = Under(first, env, "cluster") \o Under(second, env, "cluster")
           /\ connects = Under(first, env, "connect") \o Under(second, env, "connect")
  OBVIOUS
<1>2. /\ environment.id = env /\ environment.registries = registries
      /\ environment.clusters = extra \o clusters /\ environment.connects = connects
  BY <1>1 DEF EnvironmentOf
<1>3. PICK S, C : S = {first.entry, second.entry} /\ C = {plain} \cup EntriesUnder(first, second, "cluster")
  OBVIOUS
<1>4. TypedDeclaration(first) /\ TypedDeclaration(second)
  BY DeclarationsAreTyped
<1>5. \A entry \in S : IsText(entry.id)
  BY <1>3, <1>4 DEF TypedDeclaration
<1>6. registries \in Seq(S) /\ connects \in Seq(S)
  <2>1. EntriesUnder(first, second, "registry") \subseteq S /\ EntriesUnder(first, second, "connect") \subseteq S
    BY <1>3 DEF EntriesUnder
  <2>2. QED
    BY <1>1, <2>1, EntriesAreDeclared
<1>7. extra \o clusters \in Seq(C)
  <2>1. clusters \in Seq(C)
    BY <1>1, <1>3, EntriesAreDeclared
  <2>2. extra \in Seq(C)
    BY <1>1, <1>3
  <2>3. QED
    BY <2>1, <2>2, ConcatProperties
<1>8. \A cluster \in C : IsText(cluster.id) /\ OauthIsItsSasl(cluster)
  <2>1. IsText(plain.id) /\ OauthIsItsSasl(plain)
    BY <1>1, PlainIsTyped, IdsAreText
  <2>2. \A cluster \in EntriesUnder(first, second, "cluster") : IsText(cluster.id) /\ OauthIsItsSasl(cluster)
    BY <1>4 DEF EntriesUnder, TypedDeclaration
  <2>3. QED
    BY <1>3, <2>1, <2>2
<1>9. TypedEntries(environment.registries) /\ TypedEntries(environment.connects)
  BY <1>2, <1>5, <1>6, EntriesAreText
<1>10. TypedEntries(environment.clusters)
  BY <1>2, <1>7, <1>8, EntriesAreText
<1>11. \A i \in DOMAIN environment.clusters :
         environment.clusters[i].sasl = "oauth" <=> environment.clusters[i].oauth # Absent
  <2>1. PICK all : all = extra \o clusters
    OBVIOUS
  <2>2. \A i \in DOMAIN all : all[i] \in C
    BY <1>7, <2>1, LenProperties
  <2>3. QED
    BY <1>2, <1>8, <2>1, <2>2 DEF OauthIsItsSasl
<1>12. IsText(environment.id)
  BY <1>2, IdsAreText
<1>13. QED
  BY <1>1, <1>9, <1>10, <1>11, <1>12 DEF TypedEnvironment

LEMMA ConfigIsTyped ==
  ASSUME NEW first \in Declarations, NEW second \in Declarations
  PROVE  TypedConfig(Config(first, second))
<1>1. first.env \in Ids /\ second.env \in Ids
  BY DEF Declarations
<1>2. PICK plain, more, none : plain = Plain(<<"a", "a", "a">>) /\ more = <<plain>> /\ none = <<>>
  OBVIOUS
<1>3. more \in Seq({plain}) /\ none \in Seq({plain})
  BY <1>2, SingleIsSeq, EmptySeq
<1>4. PICK one, two : /\ one = EnvironmentOf(first.env, first, second, more)
                      /\ two = EnvironmentOf(second.env, first, second, none)
  OBVIOUS
<1>5. TypedEnvironment(one) /\ TypedEnvironment(two)
  BY <1>1, <1>2, <1>3, <1>4, EnvironmentIsTyped
<1>6. PICK envs : envs = Config(first, second).environments
  OBVIOUS
<1>7. envs = <<one>> \/ envs = <<one, two>>
  BY <1>2, <1>4, <1>6 DEF Config
<1>8. \A i \in DOMAIN envs : TypedEnvironment(envs[i])
  <2>1. CASE envs = <<one>>
    BY <1>5, <2>1
  <2>2. CASE envs = <<one, two>>
    BY <1>5, <2>2
  <2>3. QED
    BY <1>7, <2>1, <2>2
<1>9. QED
  BY <1>6, <1>8 DEF TypedConfig

(***************************************************************************)
(* Connectors                                                              *)
(***************************************************************************)
LEMMA UpToIsSeq ==
  ASSUME NEW n \in Nat, NEW S, NEW s \in UpTo(n, S)
  PROVE  s \in Seq(S)
<1>1. PICK k \in 0 .. n : s \in [1 .. k -> S]
  BY DEF UpTo
<1>2. QED
  BY <1>1, SeqDef

LEMMA ConfigsAreEditable ==
  ASSUME NEW definitions \in Definitions, NEW read \in Configs, NEW current \in Configs
  PROVE  Editable(definitions, <<"n">>, read, current)
<1>1. NameKey # ClassKey /\ <<"A">> # Stars
  BY DEF NameKey, ClassKey, Stars
<1>2. ASSUME NEW config \in Configs
      PROVE  config[NameKey] = <<"n">> /\ config[ClassKey] = <<"A">>
  <2>1. PICK own : config = [key \in DOMAIN own \cup {NameKey, ClassKey} |->
                               IF key = NameKey THEN <<"n">> ELSE IF key = ClassKey THEN <<"A">> ELSE own[key]]
    BY DEF Configs
  <2>2. QED
    BY <1>1, <2>1
<1>3. PICK known : definitions = [class \in known |-> {<<"sasl", "id">>}]
  BY DEF Definitions
<1>4. ClassIsOpen({<<"sasl", "id">>})
  BY DEF ClassIsOpen, ClassKey
<1>5. \A class \in DOMAIN definitions : ClassIsOpen(definitions[class])
  BY <1>3, <1>4
<1>6. QED
  BY <1>1, <1>2, <1>5 DEF Editable

LEMMA KeysAreSequences ==
  ASSUME NEW key \in UpTo(3, KeySegments) \ {<<>>}, NEW prefix \in {<<"override">>, <<"aws", "id">>}
  PROVE  key \in Seq(KeySegments) /\ prefix \in Seq(KeySegments) /\ key # <<>>
<1>1. key \in Seq(KeySegments) /\ key # <<>>
  BY UpToIsSeq
<1>2. "override" \in KeySegments /\ "aws" \in KeySegments /\ "id" \in KeySegments
  BY DEF KeySegments
<1>3. PICK S : S = KeySegments
  OBVIOUS
<1>4. <<"override">> \in Seq(S) /\ <<"aws", "id">> \in Seq(S)
  <2>1. \A a, b \in S : <<a>> \in Seq(S) /\ <<a, b>> \in Seq(S)
    OBVIOUS
  <2>2. QED
    BY <1>2, <1>3, <2>1
<1>5. QED
  BY <1>1, <1>3, <1>4

LEMMA ValuesAreSequences == \E T : \A value \in Values : value \in Seq(T)
<1> DEFINE T == {"x", Space, "******", Dollar, "f", Colon, "k", Brace}
<1>1. /\ "x" \in T /\ Space \in T /\ "******" \in T /\ Dollar \in T /\ "f" \in T /\ Colon \in T
      /\ "k" \in T /\ Brace \in T
  OBVIOUS
<1> HIDE DEF T
<1>2. /\ \A a \in T : <<a>> \in Seq(T)
      /\ \A a, b, c, d \in T : <<a, b, c, d>> \in Seq(T)
      /\ \A a, b, c, d, e \in T : <<a, b, c, d, e>> \in Seq(T)
  OBVIOUS
<1>3. PICK reference, space, x :
           reference = Reference /\ space = <<Space>> /\ x = <<"x">>
  OBVIOUS
<1>4. reference \in Seq(T) /\ space \in Seq(T) /\ x \in Seq(T) /\ Stars \in Seq(T)
  <2>1. reference \in Seq(T)
    BY <1>1, <1>2, <1>3 DEF Reference
  <2>2. space \in Seq(T) /\ x \in Seq(T) /\ Stars \in Seq(T)
    BY <1>1, <1>2, <1>3 DEF Stars
  <2>3. QED
    BY <2>1, <2>2
<1>5. space \o reference \in Seq(T)
  BY <1>4, ConcatProperties
<1>6. (reference \o x) \o reference \in Seq(T)
  <2>1. reference \o x \in Seq(T)
    BY <1>4, ConcatProperties
  <2>2. QED
    BY <1>4, <2>1, ConcatProperties
<1>7. <<Dollar, Colon, "k", Brace>> \in Seq(T) /\ <<Dollar, "f", "k", Brace>> \in Seq(T)
  BY <1>1, <1>2
<1>8. \A value \in Values : value \in Seq(T)
  BY <1>3, <1>4, <1>5, <1>6, <1>7 DEF Values
<1>9. QED
  BY <1>8

(***************************************************************************)
(* Asking                                                                  *)
(***************************************************************************)
OfSecrets == {"config", "key", "tasks", "edit"}

\* The questions that are not about secrets.
LEMMA OthersAskOtherwise ==
  ASSUME RulesNext
  PROVE  AskConfig \/ AskKey \/ AskTasks \/ AskEdit \/ question'.of \notin OfSecrets
<1>1. CASE AskGlob \/ AskSizes \/ AskRecords \/ AskAdvice \/ AskOffsets \/ AskDisks
  BY <1>1 DEF AskGlob, AskSizes, AskRecords, AskAdvice, AskOffsets, AskDisks, Ask, OfSecrets
<1>2. CASE AskTopics \/ AskPayload \/ AskCodec \/ AskNames \/ AskSubjects \/ AskSubjectList
  <2>1. CASE AskTopics
    BY <2>1 DEF AskTopics, Ask, OfSecrets
  <2>2. CASE AskPayload
    BY <2>2 DEF AskPayload, Ask, OfSecrets
  <2>3. CASE AskCodec
    BY <2>3 DEF AskCodec, Ask, OfSecrets
  <2>4. CASE AskNames
    BY <2>4 DEF AskNames, Ask, OfSecrets
  <2>5. CASE AskSubjects
    BY <2>5 DEF AskSubjects, Ask, OfSecrets
  <2>6. CASE AskSubjectList
    <3>1. PICK names, search, limit, global, known, readers :
               question' = [of |-> "subject list", names |-> names, search |-> search, limit |-> limit, global |-> global,
                            known |-> known, readers |-> readers]
      BY <2>6, Zenon DEF AskSubjectList, Ask
    <3>2. QED
      BY <3>1 DEF OfSecrets
  <2>7. QED
    BY <1>2, <2>1, <2>2, <2>3, <2>4, <2>5, <2>6
<1>3. CASE AskReadings \/ AskVersions \/ AskProtobuf \/ AskFleet \/ AskStatus \/ AskTable
  <2>1. CASE AskReadings
    BY <2>1 DEF AskReadings, Ask, OfSecrets
  <2>2. CASE AskVersions
    BY <2>2 DEF AskVersions, Ask, OfSecrets
  <2>3. CASE AskProtobuf
    BY <2>3 DEF AskProtobuf, Ask, OfSecrets
  <2>4. CASE AskFleet
    BY <2>4 DEF AskFleet, Ask, OfSecrets
  <2>5. CASE AskStatus
    BY <2>5 DEF AskStatus, Ask, OfSecrets
  <2>6. CASE AskTable
    BY <2>6 DEF AskTable, Ask, OfSecrets
  <2>7. QED
    BY <1>3, <2>1, <2>2, <2>3, <2>4, <2>5, <2>6
<1>4. CASE AskHeader \/ AskUsers \/ AskFailure \/ AskFeature \/ AskLists \/ AskDate
  BY <1>4 DEF AskHeader, AskUsers, AskFailure, AskFeature, AskLists, AskDate, Ask, OfSecrets
<1>5. CASE AskLink \/ AskTail \/ AskOne \/ AskSeek \/ AskProgress \/ AskScan
  BY <1>5 DEF AskLink, AskTail, AskOne, AskSeek, AskProgress, AskScan, Ask, OfSecrets
<1>6. CASE AskMeasure \/ AskCluster \/ AskDeployment \/ AskClaims \/ AskSignIn \/ AskMount
  BY <1>6 DEF AskMeasure, AskCluster, AskDeployment, AskClaims, AskSignIn, AskMount, Ask, OfSecrets
<1>7. CASE AskPath \/ AskFront \/ AskRequest \/ AskWrite \/ AskConnector \/ AskClient
  BY <1>7 DEF AskPath, AskFront, AskRequest, AskWrite, AskConnector, AskClient, Ask, OfSecrets
<1>8. CASE AskAddress \/ AskHealth \/ AskOffer \/ AskExchange \/ AskMessage
  <2>1. CASE AskAddress
    BY <2>1 DEF AskAddress, Ask, OfSecrets
  <2>2. CASE AskHealth
    BY <2>2 DEF AskHealth, Ask, OfSecrets
  <2>3. CASE AskOffer
    BY <2>3 DEF AskOffer, Ask, OfSecrets
  <2>4. CASE AskExchange
    <3>1. PICK provider, redirects, file, reply :
               question' = [of |-> "exchange", provider |-> provider, redirects |-> redirects, file |-> file, reply |-> reply]
      BY <2>4, Zenon DEF AskExchange, Ask
    <3>2. QED
      BY <3>1 DEF OfSecrets
  <2>5. CASE AskMessage
    BY <2>5 DEF AskMessage, Ask, OfSecrets
  <2>6. QED
    BY <1>8, <2>1, <2>2, <2>3, <2>4, <2>5
<1>9. QED
  BY <1>1, <1>2, <1>3, <1>4, <1>5, <1>6, <1>7, <1>8 DEF RulesNext

LEMMA SecretsInit ==
  ASSUME RulesInit
  PROVE  SecretsStayPut
BY DEF RulesInit, SecretsStayPut

LEMMA SecretsNext ==
  ASSUME SecretsStayPut, [RulesNext]_question
  PROVE  SecretsStayPut'
<1>1. CASE AskConfig
  <2>1. PICK first \in Declarations, second \in Declarations :
             question' = [of |-> "config", config |-> Config(first, second)]
    BY <1>1 DEF AskConfig, Ask
  <2>2. PICK config : config = Config(first, second)
    OBVIOUS
  <2>3. question'.of = "config" /\ question'.config = config
    BY <2>1, <2>2
  <2>4. SecretsAreApart(config) /\ AuthIsOnesOwn(config)
    <3>1. TypedConfig(config)
      BY <2>2, ConfigIsTyped
    <3>2. SecretsAreApart(config)
      BY <3>1, CredentialsAreApart
    <3>3. AuthIsOnesOwn(config)
      BY <3>1, CredentialsAreOnesOwn
    <3>4. QED
      BY <3>2, <3>3
  <2>5. QED
    BY <2>3, <2>4 DEF SecretsStayPut
<1>2. CASE AskKey
  <2>1. PICK key \in UpTo(3, KeySegments) \ {<<>>}, prefix \in {<<"override">>, <<"aws", "id">>}, value \in Values :
             \E secrets : question' = [of |-> "key", key |-> key, prefix |-> prefix, value |-> value, secrets |-> secrets]
    BY <1>2 DEF AskKey, Ask
  <2>2. PICK secrets :
             question' = [of |-> "key", key |-> key, prefix |-> prefix, value |-> value, secrets |-> secrets]
    BY <2>1
  <2>3. /\ question'.of = "key" /\ question'.key = key /\ question'.prefix = prefix
        /\ question'.value = value /\ question'.secrets = secrets
    BY <2>2
  <2>4. PrefixHidesNothing(secrets, prefix, key, value)
    <3>1. key \in Seq(KeySegments) /\ prefix \in Seq(KeySegments) /\ key # <<>>
      BY KeysAreSequences
    <3>2. PICK T : value \in Seq(T)
      BY ValuesAreSequences
    <3>3. QED
      BY <3>1, <3>2, PrefixesHideNothing
  <2>5. QED
    BY <2>3, <2>4 DEF SecretsStayPut
<1>3. CASE AskTasks
  <2>1. PICK definitions, read, own :
             question' = [of |-> "tasks", definitions |-> definitions, read |-> read, own |-> own]
    BY <1>3 DEF AskTasks, Ask
  <2>2. /\ question'.of = "tasks" /\ question'.definitions = definitions
        /\ question'.read = read /\ question'.own = own
    BY <2>1
  <2>3. TasksHideNoLess(definitions, read, own)
    BY TasksShowNoMore
  <2>4. QED
    BY <2>2, <2>3 DEF SecretsStayPut
<1>4. CASE AskEdit
  <2>1. PICK definitions \in Definitions, read \in Configs, current \in Configs :
             \E edits, removed :
               question' = [of |-> "edit", definitions |-> definitions, read |-> read, current |-> current,
                            edits |-> edits, removed |-> removed]
    BY <1>4 DEF AskEdit, Ask
  <2>2. PICK edits, removed :
             question' = [of |-> "edit", definitions |-> definitions, read |-> read, current |-> current,
                          edits |-> edits, removed |-> removed]
    BY <2>1
  <2>3. /\ question'.of = "edit" /\ question'.definitions = definitions /\ question'.read = read
        /\ question'.current = current /\ question'.edits = edits /\ question'.removed = removed
    BY <2>2
  <2>4. EditIsExact(definitions, <<"n">>, read, current, edits, removed)
    BY ConfigsAreEditable, EditsAreExact
  <2>5. QED
    BY <2>3, <2>4 DEF SecretsStayPut
<1>5. CASE question'.of \notin OfSecrets
  BY <1>5 DEF SecretsStayPut, OfSecrets
<1>6. CASE UNCHANGED question
  BY <1>6 DEF SecretsStayPut
<1>7. QED
  BY <1>1, <1>2, <1>3, <1>4, <1>5, <1>6, OthersAskOtherwise

\* Every question about credentials and connectors' secrets that `rules` asks is
\* answered as promised, because every one that could be asked would be.
THEOREM SecretsKept == RulesSpec => []SecretsStayPut
<1>1. RulesInit => SecretsStayPut
  BY SecretsInit
<1>2. SecretsStayPut /\ [RulesNext]_question => SecretsStayPut'
  BY SecretsNext
<1>3. QED
  BY <1>1, <1>2, PTL DEF RulesSpec

(***************************************************************************)
(* Lags                                                                    *)
(***************************************************************************)
\* The ends of a log at the three instants: records are only ever added at one
\* end and retired at the other.
IsLog(log) ==
  /\ log.commit \in Int
  /\ log.high \in [1 .. 3 -> Int] /\ log.low \in [1 .. 3 -> Int]
  /\ log.high[1] <= log.high[2] /\ log.high[2] <= log.high[3]

\* The last conjuncts of LagIsHonest, of one row.
RowIsHonest(lost, log, row) ==
  CASE row.lag.state = "caughtUp"       -> row.committed >= log.high[1]
    [] row.lag.state = "emptyPartition" -> log.low[3] >= log.high[1]
    [] row.lag.state = "lagging"        -> /\ row.lag.records >= log.high[1] - log.commit
                                           /\ row.lag.records <= log.high[3] - log.commit
    [] row.lag.state = "noCommit"       -> log.commit < 0
    [] row.lag.state = "unknown"        -> "latest" \in lost \/ log.latest # "offset"

LEMMA RowsAreHonest ==
  ASSUME NEW lost, NEW log, IsLog(log), NEW row, row = GroupRow(lost, log)
  PROVE  RowIsHonest(lost, log, row)
<1>1. PICK latest, earliest, commit, high, low :
           /\ latest = LatestOf(lost, log) /\ earliest = EarliestOf(lost, log) /\ commit = Committed(log)
           /\ high = log.high /\ low = log.low
  OBVIOUS
<1>2. row.committed = commit /\ row.lag = Lag(commit, earliest, latest)
  BY <1>1 DEF GroupRow
<1>3. /\ log.commit \in Int /\ high[1] \in Int /\ high[2] \in Int /\ high[3] \in Int /\ low[3] \in Int
      /\ high[1] <= high[2] /\ high[2] <= high[3]
  BY <1>1 DEF IsLog
<1>4. /\ latest = NoAnswer => "latest" \in lost \/ log.latest # "offset"
      /\ latest # NoAnswer => latest = high[2]
      /\ earliest # NoAnswer => earliest = low[3]
  <2>1. high[2] # NoAnswer
    BY <1>3, NoAnswerIsNoNumber
  <2>2. QED
    BY <1>1, <2>1 DEF LatestOf, EarliestOf, ReadAt
<1>5. CASE commit = NoAnswer
  <2>1. log.commit < 0
    BY <1>1, <1>3, <1>5, NoAnswerIsNoNumber DEF Committed
  <2>2. row.lag.state = "noCommit"
    BY <1>2, <1>5 DEF Lag
  <2>3. QED
    BY <2>1, <2>2 DEF RowIsHonest
<1>6. CASE commit # NoAnswer /\ latest = NoAnswer
  <2>1. row.lag.state = "unknown"
    BY <1>2, <1>6 DEF Lag
  <2>2. QED
    BY <1>4, <1>6, <2>1 DEF RowIsHonest
<1>7. CASE commit # NoAnswer /\ latest # NoAnswer
  <2>1. commit = log.commit /\ latest = high[2]
    BY <1>1, <1>4, <1>7 DEF Committed
  <2>2. CASE earliest = latest
    <3>1. row.lag.state = "emptyPartition"
      BY <1>2, <1>7, <2>2 DEF Lag
    <3>2. low[3] >= high[1]
      BY <1>3, <1>4, <1>7, <2>1, <2>2
    <3>3. QED
      BY <1>1, <3>1, <3>2 DEF RowIsHonest
  <2>3. CASE earliest # latest /\ latest > commit
    <3>1. row.lag = [state |-> "lagging", records |-> latest - commit]
      BY <1>2, <1>3, <1>7, <2>1, <2>3 DEF Lag
    <3>2. row.lag.state = "lagging" /\ row.lag.records = high[2] - log.commit
      BY <2>1, <3>1
    <3>3. high[2] - log.commit >= high[1] - log.commit /\ high[2] - log.commit <= high[3] - log.commit
      BY <1>3
    <3>4. QED
      BY <1>1, <3>2, <3>3 DEF RowIsHonest
  <2>4. CASE earliest # latest /\ ~(latest > commit)
    <3>1. latest <= commit
      BY <1>3, <2>1, <2>4
    <3>2. row.lag.state = "caughtUp"
      BY <1>2, <1>7, <2>4, <3>1 DEF Lag
    <3>3. row.committed >= high[1]
      BY <1>2, <1>3, <2>1, <3>1
    <3>4. QED
      BY <1>1, <3>2, <3>3 DEF RowIsHonest
  <2>5. QED
    BY <2>2, <2>3, <2>4
<1>8. QED
  BY <1>5, <1>6, <1>7

\* Whatever happens to a group's partitions while its three offsets are read one
\* after the other, a row of topics.rs and dto.rs says nothing that was not true
\* at one of those instants: "caught up" was, a lag lies between what it was at
\* the first read and at the last, and every partition has a row or an error.
THEOREM LagsAreHonest ==
  ASSUME NEW lost, NEW logs, \A i \in DOMAIN logs : IsLog(logs[i])
  PROVE  LagIsHonest(lost, logs)
<1>1. PICK page : page = GroupPage(lost, logs)
  OBVIOUS
<1>2. PICK answered : answered = {i \in DOMAIN logs : logs[i].read = "offset"}
  OBVIOUS
<1>3. page.rows = [i \in answered |-> GroupRow(lost, logs[i])] /\ page.errors = DOMAIN logs \ answered
  BY <1>1, <1>2 DEF GroupPage
<1>4. DOMAIN page.rows = answered
  BY <1>3
<1>5. DOMAIN page.rows \cup page.errors = DOMAIN logs /\ DOMAIN page.rows \cap page.errors = {}
  BY <1>2, <1>3, <1>4
<1>6. \A i \in DOMAIN page.rows : RowIsHonest(lost, logs[i], page.rows[i])
  BY <1>2, <1>3, <1>4, RowsAreHonest
<1>7. ReadAt.committed = 1 /\ ReadAt.earliest = 3
  BY DEF ReadAt
<1>8. QED
  BY <1>1, <1>5, <1>6, <1>7 DEF LagIsHonest, RowIsHonest

(***************************************************************************)
(* What pages offer                                                        *)
(***************************************************************************)
\* Every pattern of a role's permissions matches one of the names at least.
MatchesSome(access, names) ==
  /\ names # {}
  /\ \A role \in access.roles : \A permission \in role.permissions :
       permission.value # Absent => permission.value \cap names # {}

LEMMA CoversSomeName ==
  ASSUME NEW permission, NEW names, names # {}, permission.value # Absent => permission.value \cap names # {},
         NEW resource, NEW action
  PROVE  Covers(permission, resource, action, Absent) <=> \E name \in names : Covers(permission, resource, action, name)
<1>1. ASSUME Covers(permission, resource, action, Absent)
      PROVE  \E name \in names : Covers(permission, resource, action, name)
  <2>1. PICK name \in names : permission.value # Absent => name \in permission.value
    OBVIOUS
  <2>2. QED
    BY <1>1, <2>1 DEF Covers
<1>2. ASSUME NEW name \in names, Covers(permission, resource, action, name)
      PROVE  Covers(permission, resource, action, Absent)
  BY <1>2 DEF Covers
<1>3. QED
  BY <1>1, <1>2

\* A cluster's card lists an action exactly when some name of the resource grants
\* it: dto.rs asks of no name where a page asks of one, for every policy whose
\* patterns match a name at least.
THEOREM CardsOfferWhatIsGranted ==
  ASSUME NEW access, NEW names, MatchesSome(access, names)
  PROVE  CardsAreExact(access, names)
<1>1. ASSUME NEW cluster, NEW resource, NEW action
      PROVE  May(access, cluster, resource, action, Absent)
               <=> \E name \in names : May(access, cluster, resource, action, name)
  <2>1. CASE access.administrator
    BY <2>1 DEF May, MatchesSome
  <2>2. CASE ~access.administrator
    <3>1. \A role \in access.roles : \A permission \in role.permissions :
            Covers(permission, resource, action, Absent)
              <=> \E name \in names : Covers(permission, resource, action, name)
      BY CoversSomeName DEF MatchesSome
    <3>2. QED
      BY <2>2, <3>1 DEF May, RolePermits
  <2>3. QED
    BY <2>1, <2>2
<1>2. QED
  BY <1>1 DEF CardsAreExact, Permissions

LEMMA TargetsAreAlike ==
  ASSUME NEW connect, NEW one, NEW other
  PROVE  /\ Target(connect, one).cluster = Target(connect, other).cluster
         /\ Target(connect, one).host = Target(connect, other).host
BY DEF Target

LEMMA CreateNamesNobody ==
  ASSUME NEW access, NEW connect, NEW name
  PROVE  Check(access, "create", Target(connect, name), connect.ceiling)
           = Check(access, "create", Target(connect, Absent), connect.ceiling)
<1>1. PermissionFor("create") = <<"connect", "create">>
  BY DEF PermissionFor
<1>2. PermissionFor("create")[1] = "connect"
  BY <1>1
<1>3. Named(Target(connect, name), "connect") = Named(Target(connect, Absent), "connect")
  BY TargetsAreAlike DEF Named
<1>4. QED
  BY <1>2, <1>3, TargetsAreAlike DEF Check

\* The operations a connector's page offers are those that the gate would grant
\* the reader who follows them: dto.rs asks "create" of no connector at all, and
\* connect_write.rs of a named one, for every policy and every ceiling.
THEOREM WritesOfferedAreGranted ==
  ASSUME NEW access, NEW who, NEW names
  PROVE  OffersAreKept(access, who, names)
<1> SUFFICES ASSUME IsAuthenticated(who), NEW env, NEW connect \in ConnectsIn(access, env), NEW name \in names
             PROVE  {operation \in Operations :
                       Authorize(access, who, operation, Target(connect, name), connect.ceiling) = "granted"}
                    = {offer[1] : offer \in {o \in Offers(access, connect, name) : o[2] = "granted"}}
  BY DEF OffersAreKept
<1>1. connect \in Connects
  BY DEF ConnectsIn, ConnectFor
<1>2. PICK ceiling : ceiling = connect.ceiling /\ ceiling \subseteq Operations
  BY <1>1, CeilingsAreOperations
<1> DEFINE says(operation) == Check(access, operation, Target(connect, name), ceiling)
<1>3. \A operation : Authorize(access, who, operation, Target(connect, name), connect.ceiling) = says(operation)
  BY <1>2 DEF Authorize
<1>4. ASSUME NEW operation, operation \notin ceiling
      PROVE  says(operation) # "granted"
  BY <1>4 DEF Check
<1>5. Offers(access, connect, name) = {<<operation, says(operation)>> : operation \in ceiling}
  <2>1. Check(access, "create", Target(connect, Absent), connect.ceiling) = says("create")
    BY <1>2, CreateNamesNobody
  <2>2. {<<operation, Check(access, operation, Target(connect, Absent), connect.ceiling)>>
          : operation \in connect.ceiling \cap {"create"}}
        = {<<operation, says(operation)>> : operation \in ceiling \cap {"create"}}
    BY <1>2, <2>1
  <2>3. {<<operation, Check(access, operation, Target(connect, name), connect.ceiling)>>
          : operation \in connect.ceiling \ {"create"}}
        = {<<operation, says(operation)>> : operation \in ceiling \ {"create"}}
    BY <1>2
  <2> HIDE DEF says
  <2>4. {<<operation, says(operation)>> : operation \in ceiling}
        = {<<operation, says(operation)>> : operation \in ceiling \ {"create"}}
          \cup {<<operation, says(operation)>> : operation \in ceiling \cap {"create"}}
    OBVIOUS
  <2>5. QED
    BY <2>2, <2>3, <2>4 DEF Offers
<1> HIDE DEF says
<1>6. {offer[1] : offer \in {o \in Offers(access, connect, name) : o[2] = "granted"}}
      = {operation \in ceiling : says(operation) = "granted"}
  <2>1. ASSUME NEW operation \in ceiling, says(operation) = "granted"
        PROVE  \E offer \in Offers(access, connect, name) : offer[2] = "granted" /\ operation = offer[1]
    <3>1. <<operation, says(operation)>> \in Offers(access, connect, name)
      BY <1>5
    <3>2. <<operation, says(operation)>>[1] = operation /\ <<operation, says(operation)>>[2] = says(operation)
      OBVIOUS
    <3>3. QED
      BY <2>1, <3>1, <3>2
  <2>2. ASSUME NEW offer \in Offers(access, connect, name), offer[2] = "granted"
        PROVE  offer[1] \in ceiling /\ says(offer[1]) = "granted"
    <3>1. PICK operation \in ceiling : offer = <<operation, says(operation)>>
      BY <1>5
    <3>2. offer[1] = operation /\ offer[2] = says(operation)
      BY <3>1
    <3>3. QED
      BY <2>2, <3>2
  <2>3. QED
    BY <2>1, <2>2
<1>7. QED
  BY <1>2, <1>3, <1>4, <1>6

(***************************************************************************)
(* Payloads                                                                *)
(***************************************************************************)
\* A needle that is in a rendering ends within it.
IsRendering(rendering) == rendering.length \in Nat /\ rendering.needle \in 0 .. rendering.length

IsPayload(payload) ==
  IsRendering(payload.text) /\ IsRendering(payload.hex) /\ IsRendering(payload.value)

IsRegistry(registry) ==
  /\ registry.state \in {"absent", "unreachable", "misconfigured", "ready"}
  /\ registry.body \in {"valid", "nonConforming", "invalid"}

\* What is shown of a rendering, and what is said of it; its form is "value" with
\* the bytes beside it, or "bytes".
ShownAs(whole, length, codec, encoding, note, form) ==
  [ codec |-> codec, encoding |-> encoding, whole |-> whole, length |-> length,
    truncated |-> length < whole.length, raw |-> form = "value", note |-> note,
    structured |-> form = "value" ]

\* As much of a rendering as a ceiling allows: all of it if it fits, and at most
\* a byte's second digit over it.
Keeps(length, whole, ceiling) ==
  /\ length \in Nat /\ length <= ceiling + 1 /\ length <= whole.length
  /\ whole.length <= ceiling => length = whole.length

\* Some of a rendering is shown, with this said of it.
Shows(shown, whole, ceiling, codec, encoding, note, form) ==
  \E length : Keeps(length, whole, ceiling) /\ shown = ShownAs(whole, length, codec, encoding, note, form)

LEMMA TextIsKept ==
  ASSUME NEW whole, IsRendering(whole), NEW ceiling \in Nat
  PROVE  Keeps(Smaller(whole.length, ceiling), whole, ceiling)
<1>1. PICK length : length = whole.length /\ length \in Nat
  BY DEF IsRendering
<1>2. PICK kept : kept = Smaller(length, ceiling)
  OBVIOUS
<1>3. kept \in Nat /\ kept <= ceiling + 1 /\ kept <= length /\ (length <= ceiling => kept = length)
  BY <1>1, <1>2 DEF Smaller
<1>4. QED
  BY <1>1, <1>2, <1>3 DEF Keeps

LEMMA HexIsKept ==
  ASSUME NEW whole, IsRendering(whole), NEW ceiling \in Nat
  PROVE  Keeps(Smaller(whole.length, ceiling + (ceiling % 2)), whole, ceiling)
<1>1. PICK length : length = whole.length /\ length \in Nat
  BY DEF IsRendering
<1>2. ceiling % 2 \in {0, 1}
  OBVIOUS
<1>3. PICK rest \in {0, 1} : rest = ceiling % 2
  BY <1>2
<1>4. PICK kept : kept = Smaller(length, ceiling + rest)
  OBVIOUS
<1>5. kept \in Nat /\ kept <= ceiling + 1 /\ kept <= length /\ (length <= ceiling => kept = length)
  BY <1>1, <1>3, <1>4 DEF Smaller
<1>6. QED
  BY <1>1, <1>3, <1>4, <1>5 DEF Keeps

LEMMA TextIsShown ==
  ASSUME NEW payload, IsPayload(payload), NEW codec, NEW encoding, NEW ceiling \in Nat
  PROVE  Shows(AsText(payload, codec, encoding, ceiling), payload.text, ceiling, codec, encoding, "none", "bytes")
<1>1. PICK whole, length : whole = payload.text /\ length = Smaller(whole.length, ceiling)
  OBVIOUS
<1>2. Keeps(length, whole, ceiling)
  BY <1>1, TextIsKept DEF IsPayload
<1>3. AsText(payload, codec, encoding, ceiling) = ShownAs(whole, length, codec, encoding, "none", "bytes")
  BY <1>1 DEF AsText, Rendered, ShownAs
<1>4. QED
  BY <1>1, <1>2, <1>3 DEF Shows

LEMMA HexIsShown ==
  ASSUME NEW payload, IsPayload(payload), NEW ceiling \in Nat
  PROVE  Shows(AsHex(payload, ceiling), payload.hex, ceiling, "hex", "hex", "none", "bytes")
<1>1. PICK whole, length : whole = payload.hex /\ length = Smaller(whole.length, ceiling + (ceiling % 2))
  OBVIOUS
<1>2. Keeps(length, whole, ceiling)
  BY <1>1, HexIsKept DEF IsPayload
<1>3. AsHex(payload, ceiling) = ShownAs(whole, length, "hex", "hex", "none", "bytes")
  BY <1>1 DEF AsHex, Rendered, ShownAs
<1>4. QED
  BY <1>1, <1>2, <1>3 DEF Shows

LEMMA ValueIsShown ==
  ASSUME NEW payload, IsPayload(payload), NEW codec, NEW ceiling \in Nat
  PROVE  Shows(AsValue(payload, codec, ceiling), payload.value, ceiling, codec, "json", "none", "value")
<1>1. PICK whole, length : whole = payload.value /\ length = Smaller(whole.length, ceiling)
  OBVIOUS
<1>2. Keeps(length, whole, ceiling)
  BY <1>1, TextIsKept DEF IsPayload
<1>3. AsValue(payload, codec, ceiling) = ShownAs(whole, length, codec, "json", "none", "value")
  <2>1. PICK bare, cut, yes, no :
             /\ bare = Rendered(codec, "json", whole, length) /\ cut = (length < whole.length)
             /\ yes = TRUE /\ no = FALSE
    OBVIOUS
  <2>2. AsValue(payload, codec, ceiling) = [bare EXCEPT !.raw = yes, !.structured = yes]
    BY <1>1, <2>1 DEF AsValue
  <2>3. bare = [ codec |-> codec, encoding |-> "json", whole |-> whole, length |-> length,
                 truncated |-> cut, raw |-> no, note |-> "none", structured |-> no ]
    BY <2>1 DEF Rendered
  <2>4. [bare EXCEPT !.raw = yes, !.structured = yes]
        = [ codec |-> codec, encoding |-> "json", whole |-> whole, length |-> length,
            truncated |-> cut, raw |-> yes, note |-> "none", structured |-> yes ]
    <3>1. PICK raw : raw = [bare EXCEPT !.raw = yes]
      OBVIOUS
    <3>2. raw = [ codec |-> codec, encoding |-> "json", whole |-> whole, length |-> length,
                  truncated |-> cut, raw |-> yes, note |-> "none", structured |-> no ]
      BY <2>3, <3>1
    <3>3. [raw EXCEPT !.structured = yes]
          = [ codec |-> codec, encoding |-> "json", whole |-> whole, length |-> length,
              truncated |-> cut, raw |-> yes, note |-> "none", structured |-> yes ]
      BY <3>2
    <3>4. [bare EXCEPT !.raw = yes, !.structured = yes] = [raw EXCEPT !.structured = yes]
      BY <3>1
    <3>5. QED
      BY <3>3, <3>4
  <2>5. QED
    BY <2>1, <2>2, <2>4 DEF ShownAs
<1>4. QED
  BY <1>1, <1>2, <1>3 DEF Shows

\* A note changes what is said, and a codec's name what it is called.
LEMMA NoteIsSaid ==
  ASSUME NEW shown, NEW whole, NEW ceiling, NEW codec, NEW encoding, NEW said, NEW form, NEW note,
         Shows(shown, whole, ceiling, codec, encoding, said, form)
  PROVE  Shows(Noted(shown, note), whole, ceiling, codec, encoding, note, form)
<1>1. PICK length : Keeps(length, whole, ceiling) /\ shown = ShownAs(whole, length, codec, encoding, said, form)
  BY DEF Shows
<1>2. Noted(shown, note) = ShownAs(whole, length, codec, encoding, note, form)
  BY <1>1 DEF Noted, ShownAs
<1>3. QED
  BY <1>1, <1>2 DEF Shows

LEMMA CodecIsSaid ==
  ASSUME NEW shown, NEW whole, NEW ceiling, NEW called, NEW encoding, NEW note, NEW form, NEW codec,
         Shows(shown, whole, ceiling, called, encoding, note, form)
  PROVE  Shows([shown EXCEPT !.codec = codec], whole, ceiling, codec, encoding, note, form)
<1>1. PICK length : Keeps(length, whole, ceiling) /\ shown = ShownAs(whole, length, called, encoding, note, form)
  BY DEF Shows
<1>2. [shown EXCEPT !.codec = codec] = ShownAs(whole, length, codec, encoding, note, form)
  BY <1>1 DEF ShownAs
<1>3. QED
  BY <1>1, <1>2 DEF Shows

\* Auto, of UTF-8 and of other bytes.
Rendering(payload) == IF payload.utf8 THEN payload.text ELSE payload.hex
Encoding(payload)  == IF payload.utf8 THEN "utf8" ELSE "hex"

LEMMA AutoIsShown ==
  ASSUME NEW payload, IsPayload(payload), NEW ceiling \in Nat
  PROVE  Shows(AsAuto(payload, ceiling), Rendering(payload), ceiling, "auto", Encoding(payload), "none", "bytes")
<1>1. CASE payload.utf8
  BY <1>1, TextIsShown DEF AsAuto, Rendering, Encoding
<1>2. CASE ~payload.utf8
  BY <1>2, HexIsShown, CodecIsSaid DEF AsAuto, Rendering, Encoding
<1>3. QED
  BY <1>1, <1>2

\* What a codec that needs no schema makes of a payload, whatever the ceiling.
Plainly(payload, want, whole, codec, encoding, note) ==
  \A ceiling \in Nat : Shows(AsPlain(payload, want, ceiling), whole, ceiling, codec, encoding, note, "bytes")

LEMMA RenderingIsOfBytes == ASSUME NEW payload PROVE Rendering(payload) \in {payload.text, payload.hex}
BY DEF Rendering

LEMMA PlainIsShown ==
  ASSUME NEW payload, IsPayload(payload), NEW want \in Codecs
  PROVE  \E whole \in {payload.text, payload.hex}, codec \in {"auto"} \cup Lowered :
           \E encoding, note : /\ Plainly(payload, want, whole, codec, encoding, note)
                               /\ want # "auto" /\ codec # want => note # "none"
<1>1. CASE want = "auto"
  <2>1. \A ceiling : AsPlain(payload, want, ceiling) = AsAuto(payload, ceiling)
    BY <1>1 DEF AsPlain, Formats
  <2>2. Plainly(payload, want, Rendering(payload), "auto", Encoding(payload), "none")
    BY <2>1, AutoIsShown DEF Plainly
  <2>3. QED
    BY <1>1, <2>2, RenderingIsOfBytes
<1>2. CASE want = "hex"
  <2>1. \A ceiling : AsPlain(payload, want, ceiling) = AsHex(payload, ceiling)
    BY <1>2 DEF AsPlain, Formats
  <2>2. Plainly(payload, want, payload.hex, "hex", "hex", "none")
    BY <2>1, HexIsShown DEF Plainly
  <2>3. QED
    BY <1>2, <2>2 DEF Lowered
<1>3. CASE want = "string"
  <2>1. \A ceiling : AsPlain(payload, want, ceiling) = AsText(payload, "string", "utf8", ceiling)
    BY <1>3 DEF AsPlain, Formats
  <2>2. Plainly(payload, want, payload.text, "string", "utf8", "none")
    BY <2>1, TextIsShown DEF Plainly
  <2>3. QED
    BY <1>3, <2>2 DEF Lowered
<1>4. CASE want = "json" /\ payload.utf8 /\ payload.json
  <2>1. \A ceiling : AsPlain(payload, want, ceiling) = AsText(payload, "json", "json", ceiling)
    BY <1>4 DEF AsPlain, AsJson, Formats
  <2>2. Plainly(payload, want, payload.text, "json", "json", "none")
    BY <2>1, TextIsShown DEF Plainly
  <2>3. QED
    BY <1>4, <2>2 DEF Lowered
<1>5. CASE want = "json" /\ ~(payload.utf8 /\ payload.json)
  <2>1. \A ceiling : AsPlain(payload, want, ceiling) = Noted(AsAuto(payload, ceiling), "decodeError")
    BY <1>5 DEF AsPlain, AsJson, Formats
  <2>2. Plainly(payload, want, Rendering(payload), "auto", Encoding(payload), "decodeError")
    BY <2>1, AutoIsShown, NoteIsSaid DEF Plainly
  <2>3. QED
    BY <2>2, RenderingIsOfBytes
<1>6. CASE want \in Formats
  <2>1. \A ceiling : AsPlain(payload, want, ceiling) = Noted(AsAuto(payload, ceiling), "overrideRefused")
    BY <1>6 DEF AsPlain, Formats
  <2>2. Plainly(payload, want, Rendering(payload), "auto", Encoding(payload), "overrideRefused")
    BY <2>1, AutoIsShown, NoteIsSaid DEF Plainly
  <2>3. QED
    BY <2>2, RenderingIsOfBytes
<1>7. QED
  BY <1>1, <1>2, <1>3, <1>4, <1>5, <1>6 DEF Codecs, Lowered

\* The two ways a registry leaves a framed payload: its value under a schema, or
\* its bytes and why.
Valued(registry, payload, whole, codec, note) ==
  /\ whole = payload.value /\ codec \in Formats
  /\ registry.body # "valid" => note # "none"

Bared(payload, whole, codec, encoding, note) ==
  whole = payload.hex /\ codec = "hex" /\ encoding = "hex" /\ note # "none"

Looked(registry, payload, whole, codec, encoding, note, form) ==
  \A ceiling \in Nat : Shows(RegistryDecode(registry, payload, ceiling), whole, ceiling, codec, encoding, note, form)

LEMMA DegradedIsShown ==
  ASSUME NEW payload, IsPayload(payload), NEW note, NEW ceiling \in Nat
  PROVE  Shows(Degraded(payload, note, ceiling), payload.hex, ceiling, "hex", "hex", note, "bytes")
BY HexIsShown, NoteIsSaid DEF Degraded

LEMMA LookedIsShown ==
  ASSUME NEW registry, IsRegistry(registry), registry.state # "absent", NEW payload, IsPayload(payload)
  PROVE  \E whole, codec, encoding, note, form :
           /\ Looked(registry, payload, whole, codec, encoding, note, form)
           /\ \/ form = "value" /\ Valued(registry, payload, whole, codec, note)
              \/ form = "bytes" /\ Bared(payload, whole, codec, encoding, note)
<1>1. ASSUME NEW note, note # "none",
             \A ceiling \in Nat : RegistryDecode(registry, payload, ceiling) = Degraded(payload, note, ceiling)
      PROVE  \E whole, codec, encoding :
               /\ Looked(registry, payload, whole, codec, encoding, note, "bytes")
               /\ Bared(payload, whole, codec, encoding, note)
  <2>1. Looked(registry, payload, payload.hex, "hex", "hex", note, "bytes")
    BY <1>1, DegradedIsShown DEF Looked
  <2>2. Bared(payload, payload.hex, "hex", "hex", note)
    BY <1>1 DEF Bared
  <2>3. QED
    BY <2>1, <2>2
<1>2. CASE registry.state = "unreachable"
  <2>1. \A ceiling \in Nat : RegistryDecode(registry, payload, ceiling) = Degraded(payload, "registryUnavailable", ceiling)
    BY <1>2 DEF RegistryDecode
  <2>2. QED
    BY <1>1, <2>1
<1>3. CASE registry.state = "misconfigured"
  <2>1. \A ceiling \in Nat :
          RegistryDecode(registry, payload, ceiling) = Degraded(payload, "registryMisconfigured", ceiling)
    BY <1>3 DEF RegistryDecode
  <2>2. QED
    BY <1>1, <2>1
<1>4. CASE registry.state = "ready" /\ (registry.schema \notin Formats \/ registry.body = "invalid")
  <2>1. \A ceiling \in Nat : RegistryDecode(registry, payload, ceiling) = Degraded(payload, "decodeError", ceiling)
    <3>1. CASE registry.schema \notin Formats
      BY <1>4, <3>1 DEF RegistryDecode
    <3>2. CASE registry.schema \in Formats /\ registry.body = "invalid"
      BY <1>4, <3>2 DEF RegistryDecode
    <3>3. QED
      BY <1>4, <3>1, <3>2
  <2>2. QED
    BY <1>1, <2>1
<1>5. CASE registry.state = "ready" /\ registry.schema \in Formats /\ registry.body = "valid"
  <2>1. \A ceiling \in Nat : RegistryDecode(registry, payload, ceiling) = AsValue(payload, registry.schema, ceiling)
    BY <1>5 DEF RegistryDecode
  <2>2. Looked(registry, payload, payload.value, registry.schema, "json", "none", "value")
    BY <2>1, ValueIsShown DEF Looked
  <2>3. Valued(registry, payload, payload.value, registry.schema, "none")
    BY <1>5 DEF Valued
  <2>4. QED
    BY <2>2, <2>3
<1>6. CASE registry.state = "ready" /\ registry.schema \in Formats /\ registry.body = "nonConforming"
  <2>1. \A ceiling \in Nat : RegistryDecode(registry, payload, ceiling)
                               = Noted(AsValue(payload, registry.schema, ceiling), "nonConforming")
    BY <1>6 DEF RegistryDecode
  <2>2. Looked(registry, payload, payload.value, registry.schema, "json", "nonConforming", "value")
    BY <2>1, ValueIsShown, NoteIsSaid DEF Looked
  <2>3. Valued(registry, payload, payload.value, registry.schema, "nonConforming")
    BY <1>6 DEF Valued
  <2>4. QED
    BY <2>2, <2>3
<1>7. QED
  BY <1>2, <1>3, <1>4, <1>5, <1>6 DEF IsRegistry

\* What a decode comes to, whatever the ceiling.
Decoded(registry, payload, want, whole, codec, encoding, note, form) ==
  \A ceiling \in Nat : Shows(Decode(registry, payload, want, ceiling), whole, ceiling, codec, encoding, note, form)

\* What may be said of it.
Sound(registry, payload, want, whole, codec, encoding, note, form) ==
  /\ want # "auto" /\ codec # want => note # "none"
  /\ \/ /\ form = "value" /\ Valued(registry, payload, whole, codec, note)
        /\ Framed(payload) /\ want \notin Lowered
     \/ /\ form = "bytes" /\ whole \in {payload.text, payload.hex} /\ codec \notin Formats
        /\ Framed(payload) /\ want \notin Lowered => Bared(payload, whole, codec, encoding, note)

LEMMA FormatsAreNotLowered == Formats \cap ({"auto"} \cup Lowered) = {}
BY DEF Formats, Lowered

LEMMA DecodedIsSound ==
  ASSUME NEW registry, IsRegistry(registry), NEW payload, IsPayload(payload), NEW want \in Codecs
  PROVE  \E whole, codec, encoding, note, form :
           /\ Decoded(registry, payload, want, whole, codec, encoding, note, form)
           /\ Sound(registry, payload, want, whole, codec, encoding, note, form)
<1>1. CASE ~Framed(payload) \/ want \in Lowered
  <2>1. PICK whole \in {payload.text, payload.hex}, codec \in {"auto"} \cup Lowered :
             \E encoding, note : /\ Plainly(payload, want, whole, codec, encoding, note)
                                 /\ want # "auto" /\ codec # want => note # "none"
    BY PlainIsShown
  <2>2. PICK encoding, note : /\ Plainly(payload, want, whole, codec, encoding, note)
                              /\ want # "auto" /\ codec # want => note # "none"
    BY <2>1
  <2>3. Decoded(registry, payload, want, whole, codec, encoding, note, "bytes")
    BY <1>1, <2>2 DEF Decoded, Plainly, Decode
  <2>4. Sound(registry, payload, want, whole, codec, encoding, note, "bytes")
    BY <1>1, <2>2, FormatsAreNotLowered DEF Sound
  <2>5. QED
    BY <2>3, <2>4
<1>2. CASE Framed(payload) /\ want \notin Lowered /\ registry.state = "absent"
  <2>1. Decoded(registry, payload, want, payload.hex, "hex", "hex", "registryAbsent", "bytes")
    BY <1>2, DegradedIsShown DEF Decoded, Decode
  <2>2. Sound(registry, payload, want, payload.hex, "hex", "hex", "registryAbsent", "bytes")
    BY <1>2 DEF Sound, Bared, Formats
  <2>3. QED
    BY <2>1, <2>2
<1>3. CASE Framed(payload) /\ want \notin Lowered /\ registry.state # "absent"
  <2>1. PICK whole, codec, encoding, note, form :
           /\ Looked(registry, payload, whole, codec, encoding, note, form)
           /\ \/ form = "value" /\ Valued(registry, payload, whole, codec, note)
              \/ form = "bytes" /\ Bared(payload, whole, codec, encoding, note)
    BY <1>3, LookedIsShown
  <2>2. \A ceiling : Decode(registry, payload, want, ceiling) = Checked(RegistryDecode(registry, payload, ceiling), want)
    BY <1>3 DEF Decode
  <2>3. \A ceiling \in Nat : RegistryDecode(registry, payload, ceiling).codec = codec
    BY <2>1 DEF Looked, Shows, ShownAs
  <2>4. CASE want \in Formats /\ codec \in Formats \ {want}
    <3>1. Decoded(registry, payload, want, whole, codec, encoding, "overrideRefused", form)
      BY <2>1, <2>2, <2>3, <2>4, NoteIsSaid DEF Decoded, Looked, Checked
    <3>2. form = "value"
      BY <2>1, <2>4 DEF Bared, Formats
    <3>3. Sound(registry, payload, want, whole, codec, encoding, "overrideRefused", form)
      BY <1>3, <2>1, <3>2 DEF Sound, Valued, Bared
    <3>4. QED
      BY <3>1, <3>3
  <2>5. CASE ~(want \in Formats /\ codec \in Formats \ {want})
    <3>1. Decoded(registry, payload, want, whole, codec, encoding, note, form)
      BY <2>1, <2>2, <2>3, <2>5 DEF Decoded, Looked, Checked
    <3>2. want # "auto" => want \in Formats
      BY <1>3 DEF Codecs
    <3>3. want # "auto" /\ codec # want => note # "none"
      BY <2>1, <2>5, <3>2 DEF Valued, Bared
    <3>4. form = "bytes" => codec \notin Formats /\ whole \in {payload.text, payload.hex}
      BY <2>1 DEF Bared, Formats
    <3>5. Sound(registry, payload, want, whole, codec, encoding, note, form)
      BY <1>3, <2>1, <3>3, <3>4 DEF Sound
    <3>6. QED
      BY <3>1, <3>5
  <2>6. QED
    BY <2>4, <2>5
<1>4. QED
  BY <1>1, <1>2, <1>3

\* What a whole rendering is called, and where it comes from.
IsWhole(payload, whole, form) ==
  /\ IsRendering(whole)
  /\ \/ form = "value" /\ whole = payload.value
     \/ form = "bytes" /\ whole \in {payload.text, payload.hex}

LEMMA SoundIsWhole ==
  ASSUME NEW registry, NEW payload, IsPayload(payload), NEW want, NEW whole, NEW codec, NEW encoding, NEW note,
         NEW form, Sound(registry, payload, want, whole, codec, encoding, note, form)
  PROVE  IsWhole(payload, whole, form)
<1>1. IsRendering(payload.text) /\ IsRendering(payload.hex) /\ IsRendering(payload.value)
  BY DEF IsPayload
<1>2. CASE form = "value" /\ Valued(registry, payload, whole, codec, note)
  <2>1. whole = payload.value
    BY <1>2 DEF Valued
  <2>2. IsRendering(whole)
    BY <1>1, <2>1
  <2>3. QED
    BY <1>2, <2>1, <2>2 DEF IsWhole
<1>3. CASE form = "bytes" /\ whole \in {payload.text, payload.hex}
  <2>1. IsRendering(whole)
    BY <1>1, <1>3
  <2>2. QED
    BY <1>3, <2>1 DEF IsWhole
<1>4. QED
  BY <1>2, <1>3 DEF Sound

LEMMA NeedleIsWithin ==
  ASSUME NEW whole, IsRendering(whole)
  PROVE  HasNeedle(whole, whole.length) <=> whole.needle # 0
<1>1. PICK length, needle : length = whole.length /\ needle = whole.needle /\ length \in Nat /\ needle \in 0 .. length
  BY DEF IsRendering
<1>2. needle # 0 /\ needle <= length <=> needle # 0
  BY <1>1
<1>3. QED
  BY <1>1, <1>2 DEF HasNeedle

\* The three renderings together are as long as any of them.
LEMMA AllIsEnough ==
  ASSUME NEW payload, IsPayload(payload), NEW whole, NEW form, IsWhole(payload, whole, form)
  PROVE  /\ payload.text.length + payload.hex.length + payload.value.length \in Nat
         /\ whole.length <= payload.text.length + payload.hex.length + payload.value.length
<1>1. PICK text, hex, value :
           /\ text = payload.text.length /\ hex = payload.hex.length /\ value = payload.value.length
           /\ text \in Nat /\ hex \in Nat /\ value \in Nat
  BY DEF IsPayload, IsRendering
<1>2. whole.length \in {text, hex, value}
  BY <1>1 DEF IsWhole
<1>3. PICK length \in {text, hex, value} : length = whole.length
  BY <1>2
<1>4. text + hex + value \in Nat /\ length <= text + hex + value
  BY <1>1, <1>3
<1>5. QED
  BY <1>1, <1>3, <1>4

\* What a filter searches is a whole: of what is shown, or of a second decode.
LEMMA WholeIsSearched ==
  ASSUME NEW first, IsRegistry(first), NEW second, IsRegistry(second), NEW payload, IsPayload(payload),
         NEW want \in Codecs, NEW ceiling \in Nat,
         NEW whole, NEW codec, NEW encoding, NEW note, NEW form,
         Decoded(first, payload, want, whole, codec, encoding, note, form), IsWhole(payload, whole, form),
         NEW other, NEW codec2, NEW encoding2, NEW note2, NEW form2,
         Decoded(second, payload, want, other, codec2, encoding2, note2, form2), IsWhole(payload, other, form2)
  PROVE  \/ FilterFinds(Decode(first, payload, want, ceiling), second, payload, want) <=> whole.needle # 0
         \/ FilterFinds(Decode(first, payload, want, ceiling), second, payload, want) <=> other.needle # 0
<1>1. PICK shown : shown = Decode(first, payload, want, ceiling)
  OBVIOUS
<1>2. PICK length : Keeps(length, whole, ceiling) /\ shown = ShownAs(whole, length, codec, encoding, note, form)
  BY <1>1 DEF Decoded, Shows
<1>3. /\ shown.truncated <=> length < whole.length
      /\ shown.structured <=> form = "value"
      /\ shown.whole = whole /\ shown.length = length
  BY <1>2 DEF ShownAs
<1>4. PICK all \in Nat : all = payload.text.length + payload.hex.length + payload.value.length
  BY AllIsEnough
<1>5. PICK again : again = Decode(second, payload, want, all)
  OBVIOUS
<1>6. PICK length2 : Keeps(length2, other, all) /\ again = ShownAs(other, length2, codec2, encoding2, note2, form2)
  BY <1>5 DEF Decoded, Shows
<1>7. again.whole = other /\ again.length = other.length
  <2>1. other.length <= all
    BY <1>4, AllIsEnough
  <2>2. length2 = other.length
    BY <1>6, <2>1 DEF Keeps
  <2>3. QED
    BY <1>6, <2>2 DEF ShownAs
<1>8. HasNeedle(whole, whole.length) <=> whole.needle # 0
  BY NeedleIsWithin DEF IsWhole
<1>9. HasNeedle(other, other.length) <=> other.needle # 0
  BY NeedleIsWithin DEF IsWhole
<1>10. CASE ~(length < whole.length)
  <2>1. length = whole.length
    <3>1. PICK full : full = whole.length /\ full \in Nat
      BY DEF IsWhole, IsRendering
    <3>2. length \in Nat /\ length <= full /\ ~(length < full)
      BY <1>2, <1>10, <3>1 DEF Keeps
    <3>3. length = full
      BY <3>1, <3>2
    <3>4. QED
      BY <3>1, <3>3
  <2>2. FilterFinds(shown, second, payload, want) <=> HasNeedle(whole, whole.length)
    BY <1>3, <1>10, <2>1 DEF FilterFinds
  <2>3. QED
    BY <1>1, <1>8, <2>2
<1>11. CASE length < whole.length /\ form = "value"
  <2>1. FilterFinds(shown, second, payload, want) <=> HasNeedle(whole, whole.length)
    BY <1>3, <1>11 DEF FilterFinds, IsWhole
  <2>2. QED
    BY <1>1, <1>8, <2>1
<1>12. CASE length < whole.length /\ form # "value"
  <2>1. FilterFinds(shown, second, payload, want) <=> HasNeedle(other, other.length)
    BY <1>3, <1>4, <1>5, <1>7, <1>12 DEF FilterFinds
  <2>2. QED
    BY <1>1, <1>9, <2>1
<1>13. QED
  BY <1>10, <1>11, <1>12

\* Of no filter, and of one of a character.
LEMMA FiltersAreRead == ParseFilter(0) = "none" /\ ParseFilter(1) = "filter"
BY FiltersHaveRoom DEF ParseFilter

\* The filter of a message page finds a record exactly when the needle is in the
\* whole of what is shown of it, however short the preview was cut; if the
\* registry changed its answer in between, in the whole of one of the two: for
\* every payload, codec and ceiling of decode.rs.
THEOREM FiltersSearchTheWhole ==
  ASSUME NEW first, IsRegistry(first), NEW second, IsRegistry(second), NEW payload, IsPayload(payload),
         NEW want \in Codecs, NEW ceiling \in Nat
  PROVE  FilterIsWhole(first, second, payload, want, ceiling)
<1>1. PICK whole, codec, encoding, note, form :
         /\ Decoded(first, payload, want, whole, codec, encoding, note, form)
         /\ IsWhole(payload, whole, form)
  BY DecodedIsSound, SoundIsWhole
<1>2. PICK other, codec2, encoding2, note2, form2 :
         /\ Decoded(second, payload, want, other, codec2, encoding2, note2, form2)
         /\ IsWhole(payload, other, form2)
         /\ first = second => other = whole
  <2>1. CASE first = second
    BY <1>1, <2>1
  <2>2. CASE first # second
    BY <2>2, DecodedIsSound, SoundIsWhole
  <2>3. QED
    BY <2>1, <2>2
<1>3. Decode(first, payload, want, ceiling).whole = whole
  BY <1>1 DEF Decoded, Shows, ShownAs
<1>4. Decode(second, payload, want, ceiling).whole = other
  BY <1>2 DEF Decoded, Shows, ShownAs
<1>5. PICK shown : shown = Decode(first, payload, want, ceiling)
  OBVIOUS
<1>6. \/ FilterFinds(shown, second, payload, want) <=> whole.needle # 0
      \/ FilterFinds(shown, second, payload, want) <=> other.needle # 0
  BY <1>1, <1>2, <1>5, WholeIsSearched
<1>7. /\ Accept(1, FALSE, first, second, payload, want, ceiling) <=> FilterFinds(shown, second, payload, want)
      /\ ~Accept(1, TRUE, first, second, payload, want, ceiling)
      /\ Accept(0, TRUE, first, second, payload, want, ceiling)
  BY <1>5, FiltersAreRead DEF Accept
<1>8. QED
  BY <1>2, <1>3, <1>4, <1>5, <1>6, <1>7 DEF FilterIsWhole

\* A reader is told whenever a payload is not shown as asked, as its frame claims
\* or as its schema says, a schema is claimed only of bytes that carry one, and a
\* preview is at most a hex digit over its ceiling: codec.rs and registry.rs, for
\* every payload, registry and codec.
THEOREM CodecsAreTold ==
  ASSUME NEW first, IsRegistry(first), NEW second, NEW payload, IsPayload(payload),
         NEW want \in Codecs, NEW ceiling \in Nat
  PROVE  CodecIsTold(first, second, payload, want, ceiling)
<1>1. PICK whole, codec, encoding, note, form :
         /\ Decoded(first, payload, want, whole, codec, encoding, note, form)
         /\ Sound(first, payload, want, whole, codec, encoding, note, form)
  BY DecodedIsSound
<1>2. PICK shown : shown = Decode(first, payload, want, ceiling)
  OBVIOUS
<1>3. PICK length : Keeps(length, whole, ceiling) /\ shown = ShownAs(whole, length, codec, encoding, note, form)
  BY <1>1, <1>2 DEF Decoded, Shows
<1>4. /\ shown.codec = codec /\ shown.note = note /\ shown.encoding = encoding /\ shown.length = length
      /\ (shown.structured <=> form = "value") /\ (shown.raw <=> form = "value")
  BY <1>3 DEF ShownAs
<1>5. want # "auto" /\ shown.codec # want => shown.note # "none"
  BY <1>1, <1>4 DEF Sound
<1>6. Framed(payload) /\ want \notin Lowered /\ ~shown.structured => shown.note # "none" /\ shown.encoding = "hex"
  BY <1>1, <1>4 DEF Sound, Bared
<1>7. shown.structured /\ first.body # "valid" => shown.note # "none"
  BY <1>1, <1>4 DEF Sound, Valued
<1>8. shown.codec \in Formats => Framed(payload) /\ shown.structured /\ shown.raw
  BY <1>1, <1>4 DEF Sound
<1>9. ~Framed(payload) \/ want \in Lowered => shown = Decode(second, payload, want, ceiling)
  BY <1>2 DEF Decode
<1>10. shown.length <= ceiling + 1
  BY <1>3, <1>4 DEF Keeps
<1>11. QED
  BY <1>2, <1>5, <1>6, <1>7, <1>8, <1>9, <1>10 DEF CodecIsTold

(***************************************************************************)
(* The fleet                                                               *)
(***************************************************************************)
\* What stands in one environment's section.
CardsIn(access, env) == MembersOf(Cards(access), env)

SectionAt(access, i) == SectionOf(access, Environments[i], CardsIn(access, Environments[i].id))

ReadableRegistries(access, env) ==
  UNION {RegistryFor(access, env, r.id) : r \in {q \in Registries : q.env = env}}

UsersShown(access, env, registry) ==
  {card.id : card \in {c \in CardsIn(access, env) : c.registry = registry.id /\ <<"topic", "view">> \in c.grants}}

LEMMA CardsAreVisible ==
  ASSUME NEW access, NEW env
  PROVE  CardsIn(access, env) = {Card(access, cluster) : cluster \in VisibleIn(access, env)}
<1>1. \A cluster : Card(access, cluster).env = cluster.env
  BY DEF Card
<1>2. QED
  BY <1>1 DEF CardsIn, MembersOf, Cards, VisibleIn

LEMMA SectionsAreOnes ==
  ASSUME NEW access, NEW i \in DOMAIN Environments
  PROVE  SectionsOf(FleetOf(access), Environments[i].id) = SectionAt(access, i)
<1>1. \A j \in DOMAIN Environments : \A section \in SectionAt(access, j) : section.id = Environments[j].id
  BY DEF SectionAt, SectionOf
<1>2. FleetOf(access) = UNION {SectionAt(access, j) : j \in DOMAIN Environments}
  BY DEF FleetOf, SectionAt, CardsIn
<1>3. \A j \in DOMAIN Environments : Environments[j].id = Environments[i].id => j = i
  BY EnvironmentsAreKeyed
<1>4. QED
  BY <1>1, <1>2, <1>3 DEF SectionsOf

\* A section is there if anything is seen, and there is one of it.
Section(access, i) ==
  [ id         |-> Environments[i].id,
    clusters   |-> CardsIn(access, Environments[i].id),
    registries |-> RegistryRows(access, Environments[i], CardsIn(access, Environments[i].id)),
    connects   |-> {connect.id : connect \in ConnectsIn(access, Environments[i].id)},
    resources  |-> ResourcesVisible(access, Environments[i]) ]

SeesSome(access, i) ==
  VisibleIn(access, Environments[i].id) # {} \/ ResourcesVisible(access, Environments[i]) # {}

LEMMA SectionIsOne ==
  ASSUME NEW access, NEW i \in DOMAIN Environments
  PROVE  SectionsOf(FleetOf(access), Environments[i].id) = IF SeesSome(access, i) THEN {Section(access, i)} ELSE {}
<1>1. CardsIn(access, Environments[i].id) = {} <=> VisibleIn(access, Environments[i].id) = {}
  BY CardsAreVisible
<1>2. SectionAt(access, i) = IF SeesSome(access, i) THEN {Section(access, i)} ELSE {}
  BY <1>1 DEF SectionAt, SectionOf, SeesSome, Section
<1>3. QED
  BY <1>2, SectionsAreOnes

\* Whoever may view a cluster's topics sees it.
LEMMA ReadersAreSeen ==
  ASSUME NEW access, NEW i \in DOMAIN Environments, ReadersIn(access, Environments[i].id) # {}
  PROVE  SectionsOf(FleetOf(access), Environments[i].id) = {Section(access, i)}
<1>1. SeesSome(access, i)
  BY DEF ReadersIn, SeesSome
<1>2. QED
  BY <1>1, SectionIsOne

LEMMA ClustersListed == ASSUME NEW access PROVE ClustersAreListed(access, FleetOf(access))
<1> SUFFICES ASSUME NEW cluster \in Clusters
             PROVE  ClusterFor(access, cluster.env, cluster.id) # {}
                      <=> \E section \in SectionsOf(FleetOf(access), cluster.env) : \E card \in section.clusters : card.id = cluster.id
  BY DEF ClustersAreListed
<1>1. PICK i \in DOMAIN Environments : Environments[i].id = cluster.env
  BY EnvironmentsAreKeyed
<1>2. Section(access, i).clusters = {Card(access, c) : c \in VisibleIn(access, cluster.env)}
  BY <1>1, CardsAreVisible DEF Section
<1>3. \A c : Card(access, c).id = c.id
  BY DEF Card
<1>4. ClusterFor(access, cluster.env, cluster.id) # {} <=> \E card \in Section(access, i).clusters : card.id = cluster.id
  BY <1>2, <1>3 DEF ClusterFor
<1>5. CASE VisibleIn(access, cluster.env) = {}
  <2>1. \A section \in SectionsOf(FleetOf(access), cluster.env) : section = Section(access, i)
    BY <1>1, SectionIsOne
  <2>2. QED
    BY <1>4, <1>5, <2>1, <1>2 DEF ClusterFor
<1>6. CASE VisibleIn(access, cluster.env) # {}
  <2>1. SectionsOf(FleetOf(access), cluster.env) = {Section(access, i)}
    BY <1>1, <1>6, SectionIsOne DEF SeesSome
  <2>2. QED
    BY <1>4, <2>1
<1>7. QED
  BY <1>5, <1>6

LEMMA UsersAreReaders ==
  ASSUME NEW access, NEW registry
  PROVE  UsersShown(access, registry.env, registry) = {cluster.id : cluster \in ReadersOf(access, registry)}
<1>1. \A c : /\ Card(access, c).registry = c.registry /\ Card(access, c).id = c.id
             /\ <<"topic", "view">> \in Card(access, c).grants <=> May(access, c, "topic", "view", Absent)
  <2>1. <<"topic", "view">> \in AllResources \X {"view"}
    BY DEF AllResources
  <2>2. <<"topic", "view">>[1] = "topic" /\ <<"topic", "view">>[2] = "view"
    OBVIOUS
  <2>3. QED
    BY <2>1, <2>2 DEF Card, Permissions
<1>2. {c \in CardsIn(access, registry.env) : c.registry = registry.id /\ <<"topic", "view">> \in c.grants}
      = {Card(access, c) : c \in ReadersOf(access, registry)}
  <2>1. ReadersOf(access, registry)
        = {c \in VisibleIn(access, registry.env) : c.registry = registry.id /\ May(access, c, "topic", "view", Absent)}
    BY DEF ReadersOf, ReadersIn, References, VisibleIn
  <2>2. \A c : LET card == Card(access, c)
               IN  card.registry = registry.id /\ <<"topic", "view">> \in card.grants
                     <=> c.registry = registry.id /\ May(access, c, "topic", "view", Absent)
    BY <1>1
  <2>3. QED
    BY <2>1, <2>2, CardsAreVisible
<1>3. QED
  BY <1>1, <1>2 DEF UsersShown

LEMMA RegistriesListed == ASSUME NEW access PROVE RegistriesAreListed(access, FleetOf(access))
<1> SUFFICES ASSUME NEW registry \in Registries
             PROVE  /\ RegistryFor(access, registry.env, registry.id) # {}
                         <=> \E section \in SectionsOf(FleetOf(access), registry.env) :
                               \E row \in section.registries : row.id = registry.id
                    /\ \A section \in SectionsOf(FleetOf(access), registry.env) : \A row \in section.registries :
                         row.id = registry.id =>
                           /\ row.usedBy = {cluster.id : cluster \in ReadersOf(access, registry)}
                           /\ (\E cluster \in Clusters : References(cluster, registry)) => row.usedBy # {}
  BY DEF RegistriesAreListed
<1>1. PICK i \in DOMAIN Environments : Environments[i].id = registry.env
  BY EnvironmentsAreKeyed
<1>2. PICK env : env = registry.env
  OBVIOUS
<1>3. Section(access, i).registries
      = {[id |-> r.id, usedBy |-> UsersShown(access, env, r)] : r \in ReadableRegistries(access, env)}
  BY <1>1, <1>2 DEF Section, RegistryRows, UsersShown, ReadableRegistries
<1>4. \A r \in ReadableRegistries(access, env) : r \in RegistryFor(access, env, r.id) /\ r.env = env
  BY DEF ReadableRegistries, RegistryFor
<1>5. RegistryFor(access, env, registry.id) # {} <=> \E r \in ReadableRegistries(access, env) : r.id = registry.id
  BY <1>2 DEF ReadableRegistries, RegistryFor
<1>6. \A section \in SectionsOf(FleetOf(access), env) : section = Section(access, i)
  BY <1>1, <1>2, SectionIsOne
<1>7. ASSUME RegistryFor(access, env, registry.id) # {}
      PROVE  SectionsOf(FleetOf(access), env) = {Section(access, i)}
  <2>1. ReadersIn(access, env) # {}
    BY <1>7 DEF RegistryFor
  <2>2. QED
    BY <1>1, <1>2, <2>1, ReadersAreSeen
<1>8. RegistryFor(access, env, registry.id) # {} <=> \E row \in Section(access, i).registries : row.id = registry.id
  <2>1. ASSUME NEW r \in ReadableRegistries(access, env), r.id = registry.id
        PROVE  \E row \in Section(access, i).registries : row.id = registry.id
    <3>1. PICK row : row = [id |-> r.id, usedBy |-> UsersShown(access, env, r)]
      OBVIOUS
    <3>2. row \in Section(access, i).registries /\ row.id = registry.id
      BY <1>3, <2>1, <3>1
    <3>3. QED
      BY <3>2
  <2>2. ASSUME NEW row \in Section(access, i).registries, row.id = registry.id
        PROVE  \E r \in ReadableRegistries(access, env) : r.id = registry.id
    <3>1. PICK r \in ReadableRegistries(access, env) : row = [id |-> r.id, usedBy |-> UsersShown(access, env, r)]
      BY <1>3
    <3>2. QED
      BY <2>2, <3>1
  <2>3. QED
    BY <1>5, <2>1, <2>2
<1>9. ASSUME NEW row \in Section(access, i).registries, row.id = registry.id
      PROVE  /\ row.usedBy = {cluster.id : cluster \in ReadersOf(access, registry)}
             /\ (\E cluster \in Clusters : References(cluster, registry)) => row.usedBy # {}
  <2>1. PICK r \in ReadableRegistries(access, env) : row = [id |-> r.id, usedBy |-> UsersShown(access, env, r)]
    BY <1>3, <1>9
  <2>2. r.id = registry.id /\ r.env = env /\ row.usedBy = UsersShown(access, env, r)
    BY <1>4, <1>9, <2>1
  <2>3. \A cluster : References(cluster, r) <=> References(cluster, registry)
    BY <1>2, <2>2 DEF References
  <2>4. ReadersOf(access, r) = ReadersOf(access, registry)
    BY <1>2, <2>2, <2>3 DEF ReadersOf
  <2>5. row.usedBy = {cluster.id : cluster \in ReadersOf(access, registry)}
    BY <2>2, <2>4, UsersAreReaders
  <2>6. (\E cluster \in Clusters : References(cluster, registry)) => ReadersOf(access, registry) # {}
    BY <1>2, <1>4, <2>2, <2>3 DEF RegistryFor, ReadersOf
  <2>7. QED
    BY <2>5, <2>6
<1>10. QED
  BY <1>2, <1>6, <1>7, <1>8, <1>9

LEMMA ConnectsListed == ASSUME NEW access PROVE ConnectsAreListed(access, FleetOf(access))
<1>1. ASSUME NEW connect \in Connects
      PROVE  ConnectFor(access, connect.env, connect.id) # {} <=> IsListed(FleetOf(access), connect)
  <2>1. PICK i \in DOMAIN Environments : Environments[i].id = connect.env
    BY EnvironmentsAreKeyed
  <2>2. \A section \in SectionsOf(FleetOf(access), connect.env) : section = Section(access, i)
    BY <2>1, SectionIsOne
  <2>3. Section(access, i).connects = {c.id : c \in ConnectsIn(access, connect.env)}
    BY <2>1 DEF Section
  <2>4. \A env, id : \A c \in ConnectFor(access, env, id) : c.env = env /\ c.id = id /\ ReadersIn(access, env) # {}
    BY DEF ConnectFor
  <2>5. ConnectFor(access, connect.env, connect.id) # {} <=> connect.id \in Section(access, i).connects
    BY <2>3, <2>4 DEF ConnectsIn
  <2>6. ConnectFor(access, connect.env, connect.id) # {} => SectionsOf(FleetOf(access), connect.env) = {Section(access, i)}
    BY <2>1, <2>4, ReadersAreSeen
  <2>7. QED
    BY <2>2, <2>5, <2>6 DEF IsListed
<1>2. ASSUME NEW cluster \in Clusters
      PROVE  ConnectsOf(access, cluster.env, cluster.id) # {} => cluster \in ReadersIn(access, cluster.env)
  <2> SUFFICES ASSUME NEW connect \in ConnectsOf(access, cluster.env, cluster.id)
               PROVE  cluster \in ReadersIn(access, cluster.env)
    OBVIOUS
  <2>1. PICK named \in Connects : /\ named.env = cluster.env /\ named.kafka = cluster.id
                                  /\ connect \in ConnectFor(access, cluster.env, named.id)
    BY DEF ConnectsOf
  <2>2. connect = named
    BY <2>1, ConnectsAreKeyed DEF ConnectFor
  <2>3. PICK reader \in ReadersIn(access, cluster.env) : connect.kafka \in {Absent, reader.id}
    BY <2>1 DEF ConnectFor
  <2>4. reader.id = cluster.id
    BY <2>1, <2>2, <2>3, ConnectsAreKeyed
  <2>5. reader \in Clusters /\ reader.env = cluster.env
    BY <2>3 DEF ReadersIn, VisibleIn, Visible
  <2>6. QED
    BY <2>3, <2>4, <2>5, ClustersAreKeyed
<1>3. ASSUME NEW cluster \in Clusters
      PROVE  ConnectsOf(access, cluster.env, cluster.id)
               = {connect \in Connects : /\ connect.env = cluster.env /\ connect.kafka = cluster.id
                                         /\ IsListed(FleetOf(access), connect)}
  <2>1. ASSUME NEW connect \in Connects
        PROVE  ConnectFor(access, connect.env, connect.id) \subseteq {connect}
    BY ConnectsAreKeyed DEF ConnectFor
  <2>2. ConnectsOf(access, cluster.env, cluster.id)
        = {connect \in Connects : /\ connect.env = cluster.env /\ connect.kafka = cluster.id
                                  /\ ConnectFor(access, connect.env, connect.id) # {}}
    <3>1. ASSUME NEW connect \in ConnectsOf(access, cluster.env, cluster.id)
          PROVE  /\ connect \in Connects /\ connect.env = cluster.env /\ connect.kafka = cluster.id
                 /\ ConnectFor(access, connect.env, connect.id) # {}
      <4>1. PICK named \in Connects : /\ named.env = cluster.env /\ named.kafka = cluster.id
                                      /\ connect \in ConnectFor(access, cluster.env, named.id)
        BY <3>1 DEF ConnectsOf
      <4>2. QED
        BY <2>1, <4>1
    <3>2. ASSUME NEW connect \in Connects, connect.env = cluster.env, connect.kafka = cluster.id,
                 ConnectFor(access, connect.env, connect.id) # {}
          PROVE  connect \in ConnectsOf(access, cluster.env, cluster.id)
      <4>1. connect \in ConnectFor(access, cluster.env, connect.id)
        BY <2>1, <3>2
      <4>2. QED
        BY <3>2, <4>1 DEF ConnectsOf
    <3>3. QED
      BY <3>1, <3>2
  <2>3. QED
    BY <1>1, <2>2
<1>4. QED
  BY <1>1, <1>2, <1>3 DEF ConnectsAreListed

\* What a section stands for was seen.
LEMMA SectionsStandForSomething ==
  ASSUME NEW access, NEW section \in FleetOf(access)
  PROVE  \E i \in DOMAIN Environments :
           /\ SectionsOf(FleetOf(access), Environments[i].id) = {Section(access, i)}
           /\ section = Section(access, i) /\ section.id = Environments[i].id /\ SeesSome(access, i)
<1>1. PICK i \in DOMAIN Environments : section \in SectionAt(access, i)
  BY DEF FleetOf, SectionAt, CardsIn
<1>2. SeesSome(access, i)
  BY <1>1, SectionsAreOnes, SectionIsOne
<1>3. SectionsOf(FleetOf(access), Environments[i].id) = {Section(access, i)}
  BY <1>2, SectionIsOne
<1>4. section = Section(access, i)
  BY <1>1, <1>3, SectionsAreOnes
<1>5. section.id = Environments[i].id
  BY <1>4 DEF Section
<1>6. QED
  BY <1>2, <1>3, <1>4, <1>5

LEMMA ConfinedByLabels == ASSUME NEW access PROVE LabelsConfine(access, FleetOf(access))
<1> SUFFICES ASSUME NEW env, ~access.administrator, \A role \in access.roles : EnvironmentLabel(env) \in role.labels,
                    NEW section \in FleetOf(access)
             PROVE  section.id = env
  BY DEF LabelsConfine
<1>1. PICK i \in DOMAIN Environments : section.id = Environments[i].id /\ SeesSome(access, i)
  BY SectionsStandForSomething
<1>2. ASSUME NEW one, Sees(access, one)
      PROVE  EnvironmentLabel(env) \in one.labels
  BY <1>2 DEF Sees, Selects
<1>3. EnvironmentLabel(env)[1] = "env"
  BY DEF EnvironmentLabel
<1>4. EnvironmentLabel(env) = EnvironmentLabel(section.id)
  <2>1. CASE VisibleIn(access, Environments[i].id) # {}
    <3>1. PICK cluster \in Clusters : Sees(access, cluster) /\ cluster.env = section.id
      BY <1>1, <2>1 DEF VisibleIn, Visible
    <3>2. QED
      BY <1>2, <1>3, <3>1, ClustersAreLabelled
  <2>2. CASE ResourcesVisible(access, Environments[i]) # {}
    <3>1. PICK resource : Sees(access, [id |-> resource.id, labels |-> EffectiveLabels(resource, section.id)])
      BY <1>1, <2>2 DEF ResourcesVisible
    <3>2. EnvironmentLabel(env) \in EffectiveLabels(resource, section.id)
      BY <1>2, <3>1
    <3>3. QED
      BY <1>3, <3>2 DEF EffectiveLabels
  <2>3. QED
    BY <1>1, <2>1, <2>2 DEF SeesSome
<1>5. EnvironmentLabel(env)[2] = env /\ EnvironmentLabel(section.id)[2] = section.id
  BY DEF EnvironmentLabel
<1>6. QED
  BY <1>4, <1>5

LEMMA SectionsWhole == ASSUME NEW access PROVE SectionsAreWhole(access, FleetOf(access))
<1> SUFFICES ASSUME NEW section \in FleetOf(access)
             PROVE  /\ Cardinality(SectionsOf(FleetOf(access), section.id)) = 1
                    /\ VisibleIn(access, section.id) # {} \/ section.resources # {}
                    /\ section.clusters # {}
                         => EnvironmentPage(access, section.id) = SectionsOf(FleetOf(access), section.id)
  BY DEF SectionsAreWhole, OnlyResources
<1>1. PICK i \in DOMAIN Environments :
           /\ SectionsOf(FleetOf(access), Environments[i].id) = {Section(access, i)}
           /\ section = Section(access, i) /\ section.id = Environments[i].id /\ SeesSome(access, i)
  BY SectionsStandForSomething
<1>2. Cardinality({Section(access, i)}) = 1
  BY FS_Singleton
<1>3. section.resources = ResourcesVisible(access, Environments[i])
      /\ section.clusters = CardsIn(access, section.id)
  BY <1>1 DEF Section
<1>4. section.clusters = {} <=> VisibleIn(access, section.id) = {}
  BY <1>3, CardsAreVisible
<1>5. Declared(section.id) = {Environments[i]}
  <2>1. {j \in DOMAIN Environments : Environments[j].id = section.id} = {i}
    BY <1>1, EnvironmentsAreKeyed
  <2>2. QED
    BY <2>1 DEF Declared
<1>6. CASE VisibleIn(access, section.id) = {}
  BY <1>1, <1>2, <1>3, <1>4, <1>6 DEF SeesSome
<1>7. CASE VisibleIn(access, section.id) # {}
  <2>1. EnvironmentFor(access, section.id) = {Environments[i]}
    BY <1>5, <1>7 DEF EnvironmentFor
  <2>2. EnvironmentPage(access, section.id) = SectionAt(access, i)
    BY <1>1, <2>1 DEF EnvironmentPage, SectionAt, CardsIn
  <2>3. EnvironmentPage(access, section.id) = SectionsOf(FleetOf(access), section.id)
    BY <1>1, <2>2, SectionsAreOnes
  <2>4. QED
    BY <1>1, <1>2, <1>4, <1>7, <2>3
<1>8. QED
  BY <1>6, <1>7

\* The fleet's pages lead to what may be opened and to nothing else: dto.rs's
\* sections agree with registry.rs's lookups, each cluster, schema registry and
\* Connect cluster by itself, for every policy and every fleet.
THEOREM FleetLeadsToWhatOpens ==
  ASSUME NEW access
  PROVE  FleetIsAddressable(access)
BY ClustersListed, RegistriesListed, ConnectsListed, ConfinedByLabels, SectionsWhole DEF FleetIsAddressable

(***************************************************************************)
(* Writes                                                                  *)
(***************************************************************************)
\* A chain of checks is fine when all are, and its first one has the first word.
LEMMA FirstIsRefused ==
  ASSUME NEW checks, DOMAIN checks \in SUBSET Nat
  PROVE  /\ FirstRefusal(checks) = Fine => \A i \in DOMAIN checks : checks[i] = Fine
         /\ 1 \in DOMAIN checks /\ checks[1] # Fine /\ 0 \notin DOMAIN checks => FirstRefusal(checks) = checks[1]
<1> DEFINE refused == {i \in DOMAIN checks : checks[i] # Fine}
<1>1. refused \in SUBSET Nat
  OBVIOUS
<1>2. CASE refused = {}
  BY <1>2 DEF FirstRefusal
<1>3. CASE refused # {}
  <2>1. Min(refused) \in refused /\ \A i \in refused : Min(refused) <= i
    BY <1>1, <1>3, MinIs
  <2>2. FirstRefusal(checks) = checks[Min(refused)]
    BY <1>3 DEF FirstRefusal
  <2>3. FirstRefusal(checks) # Fine
    BY <2>1, <2>2
  <2>4. ASSUME 1 \in DOMAIN checks, checks[1] # Fine, 0 \notin DOMAIN checks
        PROVE  Min(refused) = 1
    <3>1. PICK least : least = Min(refused)
      OBVIOUS
    <3>2. least \in Nat /\ least # 0 /\ least <= 1
      BY <2>1, <2>4, <3>1
    <3>3. QED
      BY <3>1, <3>2
  <2>5. QED
    BY <2>2, <2>3, <2>4
<1>4. QED
  BY <1>2, <1>3

LEMMA RepliesDiffer ==
  /\ NotFoundReply # Fine /\ DeniedReply # Fine /\ BadRequest # Fine /\ IntentUnrecorded # Fine
  /\ OutcomeUnrecorded # Fine
  /\ ~Fine.retriable /\ ~OutcomeUnrecorded.retriable
  /\ Fine.status = 200 /\ OutcomeUnrecorded.status = 500
BY DEF NotFoundReply, DeniedReply, BadRequest, IntentUnrecorded, OutcomeUnrecorded, Fine, ReplyWith

\* What may be said of a write that was performed.
WriteHolds(w, answer) ==
  /\ answer.sent => /\ Gate(w) = Fine /\ ~w.dryRun /\ "intent" \in w.recorded
                    /\ Destroys(w.operation) => w.confirmed
  /\ Gate(w) = NotFoundReply => ~answer.sent /\ answer.reply = NotFoundReply
  /\ answer.sent /\ w.faults["change"] = Done =>
       ~answer.reply.retriable /\ answer.reply.status \notin {400, 403, 404}
  /\ answer.reply = Fine => answer.sent \/ w.dryRun

LEMMA PerformIsTold == ASSUME NEW w PROVE WriteHolds(w, Perform(w))
<1>1. PICK checks : checks = WriteChecks(w)
  OBVIOUS
<1>2. DOMAIN checks = 1 .. 6 /\ checks[1] = Gate(w) /\ checks[2] = Unless400(Destroys(w.operation) => w.confirmed)
  BY <1>1 DEF WriteChecks
<1>3. DOMAIN checks \in SUBSET Nat /\ 1 \in DOMAIN checks /\ 2 \in DOMAIN checks /\ 0 \notin DOMAIN checks
  BY <1>2
<1>4. PICK refused : refused = FirstRefusal(checks)
  OBVIOUS
<1>5. refused = Fine => Gate(w) = Fine /\ (Destroys(w.operation) => w.confirmed)
  <2>1. ASSUME refused = Fine
        PROVE  checks[1] = Fine /\ checks[2] = Fine
    BY <1>3, <1>4, <2>1, FirstIsRefused
  <2>2. QED
    BY <1>2, <2>1, RepliesDiffer DEF Unless400
<1>6. Gate(w) = NotFoundReply => refused = NotFoundReply
  <2>1. ASSUME checks[1] # Fine PROVE refused = checks[1]
    BY <1>3, <1>4, <2>1, FirstIsRefused
  <2>2. QED
    BY <1>2, <2>1, RepliesDiffer
<1>7. Perform(w).sent <=> refused = Fine /\ ~w.dryRun /\ "intent" \in w.recorded
  BY <1>1, <1>4 DEF Perform
<1>8. Perform(w).reply = IF refused # Fine THEN refused
                         ELSE IF w.dryRun THEN Asking(w, "validate")
                         ELSE IF ~Perform(w).sent THEN IntentUnrecorded
                         ELSE IF "outcome" \notin w.recorded THEN OutcomeUnrecorded
                         ELSE Asking(w, "change")
  BY <1>1, <1>4 DEF Perform
<1>9. ASSUME Perform(w).sent, w.faults["change"] = Done
      PROVE  ~Perform(w).reply.retriable /\ Perform(w).reply.status \notin {400, 403, 404}
  <2>1. Perform(w).reply \in {OutcomeUnrecorded, Fine}
    BY <1>7, <1>8, <1>9 DEF Asking
  <2>2. QED
    BY <2>1, RepliesDiffer
<1>10. Perform(w).reply = Fine => Perform(w).sent \/ w.dryRun
  BY <1>7, <1>8, RepliesDiffer
<1>11. Gate(w) = NotFoundReply => ~Perform(w).sent /\ Perform(w).reply = NotFoundReply
  BY <1>6, <1>7, <1>8, RepliesDiffer
<1>12. QED
  BY <1>5, <1>7, <1>9, <1>10, <1>11 DEF WriteHolds

\* What the gate grants is within a ceiling.
LEMMA GateIsWithin ==
  ASSUME NEW w, Gate(w) = Fine
  PROVE  \E connect \in Connects : /\ <<connect.env, connect.id>> = <<w.env, w.id>>
                                   /\ w.operation \in connect.ceiling
<1>1. PICK connect \in ConnectFor(w.access, w.env, w.id) :
           Authorize(w.access, w.who, w.operation, Target(connect, w.name), connect.ceiling) = "granted"
  BY RepliesDiffer DEF Gate
<1>2. connect \in Connects /\ connect.env = w.env /\ connect.id = w.id
  BY <1>1 DEF ConnectFor
<1>3. w.operation \in connect.ceiling
  BY <1>1 DEF Authorize, Check
<1>4. QED
  BY <1>2, <1>3

LEMMA HiddenIsNotFound ==
  ASSUME NEW w, ConnectFor(w.access, w.env, w.id) = {}
  PROVE  Gate(w) = NotFoundReply
BY DEF Gate

(***************************************************************************)
(* A request's fields, as a handler changes them.                          *)
(***************************************************************************)
WriteFields == {"access", "who", "env", "id", "name", "operation", "confirmed", "dryRun", "config", "offsets",
                "recorded", "faults"}

IsWrite(w) == w = [field \in WriteFields |-> w[field]]

LEMMA FieldIsSet ==
  ASSUME NEW w, IsWrite(w), NEW field \in WriteFields, NEW value,
         NEW changed, changed = [w EXCEPT ![field] = value]
  PROVE  /\ IsWrite(changed) /\ changed[field] = value
         /\ \A other \in WriteFields \ {field} : changed[other] = w[other]
BY DEF IsWrite

\* Changed only in what an address or a body decides.
SameCaller(w, changed) ==
  /\ IsWrite(changed)
  /\ changed.access = w.access /\ changed.who = w.who /\ changed.env = w.env /\ changed.id = w.id
  /\ changed.name = w.name /\ changed.recorded = w.recorded /\ changed.faults = w.faults

NamedOf(w, operation) == [w EXCEPT !.operation = operation]
TaskOf(w, no) == [w EXCEPT !.operation = "restart_task", !.confirmed = no, !.dryRun = no]
MadeOf(w, no, yes) == [w EXCEPT !.operation = "create", !.confirmed = no, !.config = yes]

LEMMA NamedChangesLittle ==
  ASSUME NEW w, IsWrite(w), NEW operation,
         NEW named, named = NamedOf(w, operation)
  PROVE  /\ SameCaller(w, named) /\ named.operation = operation
         /\ named.confirmed = w.confirmed /\ named.dryRun = w.dryRun
BY FieldIsSet DEF SameCaller, WriteFields, NamedOf

LEMMA TaskChangesLittle ==
  ASSUME NEW w, IsWrite(w), NEW no,
         NEW task, task = TaskOf(w, no)
  PROVE  SameCaller(w, task) /\ task.dryRun = no
<1>1. PICK one : one = [w EXCEPT !.operation = "restart_task"]
  OBVIOUS
<1>2. PICK two : two = [one EXCEPT !.confirmed = no]
  OBVIOUS
<1>3. task = [two EXCEPT !.dryRun = no]
  BY <1>1, <1>2 DEF TaskOf
<1>4. SameCaller(w, one)
  BY <1>1, FieldIsSet DEF SameCaller, WriteFields
<1>5. SameCaller(w, two)
  BY <1>2, <1>4, FieldIsSet DEF SameCaller, WriteFields
<1>6. IsWrite(task) /\ task["dryRun"] = no /\ \A other \in WriteFields \ {"dryRun"} : task[other] = two[other]
  <2>1. "dryRun" \in WriteFields /\ IsWrite(two)
    BY <1>5 DEF WriteFields, SameCaller
  <2>2. PICK last : last = [two EXCEPT !["dryRun"] = no]
    OBVIOUS
  <2>3. IsWrite(last) /\ last["dryRun"] = no /\ \A other \in WriteFields \ {"dryRun"} : last[other] = two[other]
    BY <2>1, <2>2, FieldIsSet DEF IsWrite, WriteFields
  <2>4. task = last
    BY <1>3, <2>2
  <2>5. QED
    BY <2>3, <2>4
<1>7. QED
  BY <1>5, <1>6 DEF SameCaller, WriteFields

LEMMA MadeChangesLittle ==
  ASSUME NEW w, IsWrite(w), NEW no, NEW yes,
         NEW made, made = MadeOf(w, no, yes)
  PROVE  SameCaller(w, made) /\ made.dryRun = w.dryRun
<1>1. PICK one : one = [w EXCEPT !.operation = "create"]
  OBVIOUS
<1>2. PICK two : two = [one EXCEPT !.confirmed = no]
  OBVIOUS
<1>3. made = [two EXCEPT !.config = yes]
  BY <1>1, <1>2 DEF MadeOf
<1>4. SameCaller(w, one) /\ one.dryRun = w.dryRun
  BY <1>1, FieldIsSet DEF SameCaller, WriteFields
<1>5. SameCaller(w, two) /\ two.dryRun = w.dryRun
  BY <1>2, <1>4, FieldIsSet DEF SameCaller, WriteFields
<1>6. IsWrite(made) /\ \A other \in WriteFields \ {"config"} : made[other] = two[other]
  <2>1. "config" \in WriteFields /\ IsWrite(two)
    BY <1>5 DEF WriteFields, SameCaller
  <2>2. PICK last : last = [two EXCEPT !["config"] = yes]
    OBVIOUS
  <2>3. IsWrite(last) /\ last["config"] = yes /\ \A other \in WriteFields \ {"config"} : last[other] = two[other]
    BY <2>1, <2>2, FieldIsSet DEF IsWrite, WriteFields
  <2>4. made = last
    BY <1>3, <2>2
  <2>5. QED
    BY <2>3, <2>4
<1>7. QED
  BY <1>5, <1>6 DEF SameCaller, WriteFields

(***************************************************************************)
(* Answers                                                                 *)
(***************************************************************************)
LEMMA HiddenIsRefused ==
  ASSUME NEW w, ConnectFor(w.access, w.env, w.id) = {}
  PROVE  Perform(w) = Refusing(NotFoundReply)
<1>1. Gate(w) = NotFoundReply
  BY HiddenIsNotFound
<1>2. ~Perform(w).sent /\ Perform(w).reply = NotFoundReply
  BY <1>1, PerformIsTold DEF WriteHolds
<1>3. PICK sent, reply : Perform(w) = [sent |-> sent, reply |-> reply] /\ sent \in BOOLEAN
  BY DEF Perform
<1>4. sent = FALSE /\ reply = NotFoundReply
  BY <1>2, <1>3
<1>5. QED
  BY <1>3, <1>4 DEF Refusing

\* An answer is a refusal before anything is asked, or of a request that was
\* performed.
Handled(w, answer) ==
  \/ answer \in {Refusing(NotFoundReply), Refusing(BadRequest)}
  \/ \E changed : SameCaller(w, changed) /\ answer = Perform(changed) /\ (changed.dryRun => w.dryRun)

NamedBy(w, segment, operation, changed) ==
  /\ operation \in OperationOf(segment) /\ SameCaller(w, changed)
  /\ changed.operation = operation /\ changed.confirmed = w.confirmed /\ changed.dryRun = w.dryRun

LEMMA WriteIsOfItsSegment ==
  ASSUME NEW w, IsWrite(w), NEW segment
  PROVE  \/ WriteAt(w, segment) = Refusing(NotFoundReply)
         \/ \E operation, changed : NamedBy(w, segment, operation, changed) /\ WriteAt(w, segment) = Perform(changed)
<1>1. CASE OperationOf(segment) = {}
  BY <1>1 DEF WriteAt
<1>2. CASE OperationOf(segment) # {}
  <2>1. PICK operation : operation = CHOOSE named \in OperationOf(segment) : TRUE
    OBVIOUS
  <2>2. operation \in OperationOf(segment)
    BY <1>2, <2>1
  <2>3. PICK changed : changed = NamedOf(w, operation)
    OBVIOUS
  <2>4. WriteAt(w, segment) = Perform(changed)
    BY <1>2, <2>1, <2>3 DEF WriteAt, NamedOf
  <2>5. /\ SameCaller(w, changed) /\ changed.operation = operation
        /\ changed.confirmed = w.confirmed /\ changed.dryRun = w.dryRun
    BY <2>3, NamedChangesLittle
  <2>6. QED
    BY <2>2, <2>4, <2>5 DEF NamedBy
<1>3. QED
  BY <1>1, <1>2

LEMMA TaskIsPerformed ==
  ASSUME NEW w, IsWrite(w)
  PROVE  \E changed : SameCaller(w, changed) /\ WriteTask(w) = Perform(changed) /\ ~changed.dryRun
<1>1. \A no, task : task = TaskOf(w, no) => SameCaller(w, task) /\ task.dryRun = no
  BY TaskChangesLittle
<1>2. PICK task : task = TaskOf(w, FALSE)
  OBVIOUS
<1>3. SameCaller(w, task) /\ task.dryRun = FALSE
  BY <1>1, <1>2
<1>4. WriteTask(w) = Perform(task)
  BY <1>2 DEF WriteTask, TaskOf
<1>5. QED
  BY <1>3, <1>4

LEMMA CreateIsPerformed ==
  ASSUME NEW w, IsWrite(w)
  PROVE  \E changed : SameCaller(w, changed) /\ CreateAt(w, FALSE) = Perform(changed) /\ changed.dryRun = w.dryRun
<1>1. \A no, yes, made : made = MadeOf(w, no, yes) => SameCaller(w, made) /\ made.dryRun = w.dryRun
  BY MadeChangesLittle
<1>2. PICK made : made = MadeOf(w, FALSE, TRUE)
  OBVIOUS
<1>3. SameCaller(w, made) /\ made.dryRun = w.dryRun
  BY <1>1, <1>2
<1>4. CreateAt(w, FALSE) = Perform(made)
  BY <1>2 DEF CreateAt, MadeOf
<1>5. QED
  BY <1>3, <1>4

AnswersTo(w, segment) == {WriteAt(w, segment), WriteTask(w), CreateAt(w, FALSE), CreateAt(w, TRUE)}

LEMMA AnswersAreHandled ==
  ASSUME NEW w, IsWrite(w), NEW segment, NEW answer \in AnswersTo(w, segment)
  PROVE  Handled(w, answer)
<1>1. Handled(w, WriteAt(w, segment))
  BY WriteIsOfItsSegment DEF Handled, NamedBy
<1>2. Handled(w, WriteTask(w))
  BY TaskIsPerformed DEF Handled
<1>3. Handled(w, CreateAt(w, FALSE))
  BY CreateIsPerformed DEF Handled
<1>4. Handled(w, CreateAt(w, TRUE))
  BY DEF Handled, CreateAt
<1>5. QED
  BY <1>1, <1>2, <1>3, <1>4 DEF AnswersTo

LEMMA HandledIsTold ==
  ASSUME NEW w, NEW answer, Handled(w, answer)
  PROVE  /\ answer.sent /\ w.faults["change"] = Done =>
              ~answer.reply.retriable /\ answer.reply.status \notin {400, 403, 404}
         /\ answer.sent => "intent" \in w.recorded
         /\ answer.reply = Fine => answer.sent \/ w.dryRun
<1>1. CASE answer \in {Refusing(NotFoundReply), Refusing(BadRequest)}
  <2>1. ~answer.sent /\ answer.reply # Fine
    BY <1>1, RepliesDiffer DEF Refusing
  <2>2. QED
    BY <2>1
<1>2. ASSUME NEW changed, SameCaller(w, changed), answer = Perform(changed), changed.dryRun => w.dryRun
      PROVE  /\ answer.sent /\ w.faults["change"] = Done =>
                  ~answer.reply.retriable /\ answer.reply.status \notin {400, 403, 404}
             /\ answer.sent => "intent" \in w.recorded
             /\ answer.reply = Fine => answer.sent \/ w.dryRun
  <2>1. WriteHolds(changed, answer)
    BY <1>2, PerformIsTold
  <2>2. changed.recorded = w.recorded /\ changed.faults = w.faults
    BY <1>2 DEF SameCaller
  <2>3. QED
    BY <1>2, <2>1, <2>2 DEF WriteHolds
<1>3. QED
  BY <1>1, <1>2 DEF Handled

LEMMA HiddenAnswers ==
  ASSUME NEW w, IsWrite(w), ConnectFor(w.access, w.env, w.id) = {}, NEW segment
  PROVE  /\ WriteAt(w, segment) = Refusing(NotFoundReply) /\ WriteTask(w) = Refusing(NotFoundReply)
         /\ CreateAt(w, FALSE) = Refusing(NotFoundReply) /\ CreateAt(w, TRUE) = Refusing(BadRequest)
<1>1. ASSUME NEW changed, SameCaller(w, changed)
      PROVE  Perform(changed) = Refusing(NotFoundReply)
  BY <1>1, HiddenIsRefused DEF SameCaller
<1>2. WriteAt(w, segment) = Refusing(NotFoundReply)
  BY <1>1, WriteIsOfItsSegment DEF NamedBy
<1>3. WriteTask(w) = Refusing(NotFoundReply)
  BY <1>1, TaskIsPerformed
<1>4. CreateAt(w, FALSE) = Refusing(NotFoundReply)
  BY <1>1, CreateIsPerformed
<1>5. CreateAt(w, TRUE) = Refusing(BadRequest)
  BY DEF CreateAt
<1>6. QED
  BY <1>2, <1>3, <1>4, <1>5

\* What the pages of connectors are cached under.
ConnectHandlers == {"connect", "connectors", "connector"}

LEMMA KeysOfConnect ==
  ASSUME NEW at, NEW query \in QueriesOf(at), query.handler \in ConnectHandlers
  PROVE  /\ query.handler = "connect" => query.key = <<"connect", at.env, at.id>>
         /\ query.handler = "connectors" => query.key = <<"connectors", at.env, at.id>>
         /\ query.handler = "connector" => query.key = <<"connector", at.env, at.id, at.name>>
<1>1. \A path, handler, key : Getting(path, handler, key).handler = handler /\ Getting(path, handler, key).key = key
  BY DEF Getting
<1>2. \A base, q : /\ Keyed(at, base, q).handler = q[2] /\ Keyed(at, base, q).key = <<q[3], at.env, at.id>>
                   /\ KeyedByName(at, base, q).handler = q[2]
                   /\ KeyedByName(at, base, q).key = <<q[3], at.env, at.id, at.name>>
  BY <1>1 DEF Keyed, KeyedByName
<1> HIDE DEF Getting, Keyed, KeyedByName
<1>3. ASSUME query \in {Keyed(at, ConnectBase(at), q) : q \in
                         { <<<<>>, "connect", "connect">>, <<<<"connectors">>, "connectors", "connectors">>,
                           <<<<"plugins">>, "plugins", "connect-plugins">> }}
      PROVE  /\ query.handler = "connect" => query.key = <<"connect", at.env, at.id>>
             /\ query.handler = "connectors" => query.key = <<"connectors", at.env, at.id>>
             /\ query.handler # "connector"
  BY <1>2, <1>3
<1>4. ASSUME query = KeyedByName(at, ConnectorBase(at), <<<<>>, "connector", "connector">>)
      PROVE  query.handler = "connector" /\ query.key = <<"connector", at.env, at.id, at.name>>
  BY <1>2, <1>4
<1>5. ASSUME query \in { Getting(<<"api", "me">>, "me", <<"me">>), Getting(<<"api", "environments">>, "fleet", <<"fleet">>),
                         Getting(EnvironmentBase(at), "environment", <<"environment", at.env>>),
                         Getting(EnvironmentBase(at) \o <<"clusters">>, "list", <<"clusters", at.env>>) }
      PROVE  FALSE
  BY <1>1, <1>5 DEF ConnectHandlers
<1>6. ASSUME query \in {Keyed(at, ClusterBase(at), q) : q \in
          { <<<<>>, "detail", "cluster">>, <<<<"capabilities">>, "capabilities", "capabilities">>,
            <<<<"tls">>, "tls", "broker-tls">>, <<<<"topics">>, "topics", "topics">>,
            <<<<"configs">>, "cluster_configs", "cluster-configs">>,
            <<<<"groups">>, "groups", "groups">>, <<<<"acls">>, "acls", "acls">>, <<<<"quotas">>, "quotas", "quotas">>,
            <<<<"scram-users">>, "scram_users", "scram-users">>, <<<<"reassignments">>, "reassignments", "reassignments">>,
            <<<<"transactions">>, "transactions", "transactions">> }}
      PROVE  FALSE
  BY <1>2, <1>6 DEF ConnectHandlers
<1>7. ASSUME query \in {KeyedByName(at, ClusterBase(at), q) : q \in
                         { <<<<"groups", at.name>>, "group", "group">>,
                           <<<<"groups", at.name, "offsets">>, "group_offsets", "group-offsets">> }}
      PROVE  FALSE
  BY <1>2, <1>7 DEF ConnectHandlers
<1>8. ASSUME query \in {KeyedByName(at, TopicBase(at), q) : q \in
          { <<<<>>, "topic", "topic">>, <<<<"configs">>, "topic_configs", "topic-configs">>,
            <<<<"messages">>, "page", "oldest">>, <<<<"connectors">>, "topic_connectors", "topic-connectors">> }}
      PROVE  FALSE
  BY <1>2, <1>8 DEF ConnectHandlers
<1>9. ASSUME query \in {Keyed(at, RegistryBase(at), <<<<"subjects">>, "subjects", "schemas">>),
                        KeyedByName(at, RegistryBase(at), <<<<"subjects", at.name, "versions">>, "versions", "schema">>)}
      PROVE  FALSE
  BY <1>2, <1>9 DEF ConnectHandlers
<1>10. QED
  BY <1>3, <1>4, <1>5, <1>6, <1>7, <1>8, <1>9 DEF QueriesOf

\* After a write everything of its connector's cluster is asked again.
LEMMA SentIsRefetched ==
  ASSUME NEW at, NEW answer, answer.sent
  PROVE  /\ {asked.key : asked \in {q \in QueriesOf(at) : q.handler \in {"connect", "connectors", "connector"}}}
              \subseteq Refetched(at, "restart", answer)
         /\ {asked.key : asked \in {q \in QueriesOf(at) : q.handler \in {"connect", "connectors"}}}
              \subseteq Refetched(at, "create", answer)
<1>1. Refetched(at, "restart", answer)
      = {<<"connectors", at.env, at.id>>, <<"connect", at.env, at.id>>, <<"connector", at.env, at.id, at.name>>}
  BY DEF Refetched
<1>2. Refetched(at, "create", answer) = {<<"connectors", at.env, at.id>>, <<"connect", at.env, at.id>>}
  BY DEF Refetched
<1>3. \A q \in QueriesOf(at) : q.handler \in ConnectHandlers =>
           /\ q.handler = "connect" => q.key = <<"connect", at.env, at.id>>
           /\ q.handler = "connectors" => q.key = <<"connectors", at.env, at.id>>
           /\ q.handler = "connector" => q.key = <<"connector", at.env, at.id, at.name>>
  BY KeysOfConnect
<1>4. QED
  BY <1>1, <1>2, <1>3 DEF ConnectHandlers

\* Whatever a write asks and however its calls end, its answer says what was done:
\* refused is not sent, sent is authorised and recorded, made is not to be tried
\* again and is asked for anew, and a hidden Connect cluster answers as one that
\* is absent: connect_write.rs's perform and its handlers, for every policy.
THEOREM WritesAnswerTruly ==
  ASSUME NEW w, IsWrite(w), NEW segment
  PROVE  WritesAreTold(w, segment)
<1>1. PICK at : at = [env |-> w.env, id |-> w.id, name |-> w.name]
  OBVIOUS
<1>2. WriteAt(w, segment).sent =>
        {asked.key : asked \in {q \in QueriesOf(at) : q.handler \in {"connect", "connectors", "connector"}}}
          \subseteq Refetched(at, "restart", WriteAt(w, segment))
  BY SentIsRefetched
<1>3. CreateAt(w, FALSE).sent =>
        {asked.key : asked \in {q \in QueriesOf(at) : q.handler \in {"connect", "connectors"}}}
          \subseteq Refetched(at, "create", CreateAt(w, FALSE))
  BY SentIsRefetched
<1>4. PICK nowhere :
        nowhere = [w EXCEPT !.id = Absent, !.faults = [called \in DOMAIN w.faults |-> Done], !.recorded = {}]
  OBVIOUS
<1>5. IsWrite(nowhere) /\ nowhere.id = Absent
  BY <1>4 DEF IsWrite, WriteFields
<1>6. ConnectFor(nowhere.access, nowhere.env, nowhere.id) = {}
  BY <1>5, ConnectsAreKeyed DEF ConnectFor
<1>7. ASSUME ConnectFor(w.access, w.env, w.id) = {}
      PROVE  /\ WriteAt(w, segment) = WriteAt(nowhere, segment) /\ WriteTask(w) = WriteTask(nowhere)
             /\ \A blank \in BOOLEAN : CreateAt(w, blank) = CreateAt(nowhere, blank)
             /\ \A answer \in AnswersTo(w, segment) : ~answer.sent /\ answer.reply \in {NotFoundReply, BadRequest}
             /\ WriteTask(w).reply = NotFoundReply /\ WriteAt(w, segment).reply = NotFoundReply
  <2>1. /\ WriteAt(w, segment) = Refusing(NotFoundReply) /\ WriteTask(w) = Refusing(NotFoundReply)
        /\ CreateAt(w, FALSE) = Refusing(NotFoundReply) /\ CreateAt(w, TRUE) = Refusing(BadRequest)
    BY <1>7, HiddenAnswers
  <2>2. /\ WriteAt(nowhere, segment) = Refusing(NotFoundReply) /\ WriteTask(nowhere) = Refusing(NotFoundReply)
        /\ CreateAt(nowhere, FALSE) = Refusing(NotFoundReply) /\ CreateAt(nowhere, TRUE) = Refusing(BadRequest)
    BY <1>5, <1>6, HiddenAnswers
  <2>3. \A reply : ~Refusing(reply).sent /\ Refusing(reply).reply = reply
    BY DEF Refusing
  <2>4. \A answer \in AnswersTo(w, segment) : ~answer.sent /\ answer.reply \in {NotFoundReply, BadRequest}
    BY <2>1, <2>3 DEF AnswersTo
  <2>5. \A blank \in BOOLEAN : CreateAt(w, blank) = CreateAt(nowhere, blank)
    BY <2>1, <2>2
  <2>6. QED
    BY <2>1, <2>2, <2>3, <2>4, <2>5
<1>8. ASSUME NEW answer \in AnswersTo(w, segment)
      PROVE  /\ answer.sent /\ w.faults["change"] = Done => ~answer.reply.retriable
             /\ answer.sent => "intent" \in w.recorded
             /\ answer.reply.status \in {400, 403, 404} /\ answer.sent => w.faults["change"] # Done
             /\ answer.reply = Fine => answer.sent \/ w.dryRun
  BY AnswersAreHandled, HandledIsTold
<1>9. ASSUME WriteAt(w, segment).sent
      PROVE  /\ ~w.dryRun
             /\ \E connect \in Connects, operation \in OperationOf(segment) :
                  /\ <<connect.env, connect.id>> = <<w.env, w.id>> /\ operation \in connect.ceiling
                  /\ Destroys(operation) => w.confirmed
  <2>1. ~Refusing(NotFoundReply).sent
    BY DEF Refusing
  <2>2. PICK operation, changed : NamedBy(w, segment, operation, changed) /\ WriteAt(w, segment) = Perform(changed)
    BY <1>9, <2>1, WriteIsOfItsSegment
  <2>3. /\ Gate(changed) = Fine /\ ~changed.dryRun
        /\ Destroys(changed.operation) => changed.confirmed
    BY <1>9, <2>2, PerformIsTold DEF WriteHolds
  <2>4. PICK connect \in Connects : /\ <<connect.env, connect.id>> = <<changed.env, changed.id>>
                                    /\ changed.operation \in connect.ceiling
    BY <2>3, GateIsWithin
  <2>5. changed.env = w.env /\ changed.id = w.id
    BY <2>2 DEF NamedBy, SameCaller
  <2>6. QED
    BY <2>2, <2>3, <2>4, <2>5 DEF NamedBy
<1>10. QED
  BY <1>1, <1>2, <1>3, <1>4, <1>7, <1>8, <1>9 DEF WritesAreTold, AnswersTo
===============================================================================
