----------------------- MODULE ClusterRegistry_proofs -----------------------
(***************************************************************************)
(* Proofs about a reload of the cluster registry, for any configurations:  *)
(* what is served decodes against the registry that is served, and an edit *)
(* leaves the handle of a cluster it does not change in its place.         *)
(*                                                                         *)
(* Both rest on what a reload makes (SpawnGrows): a handle of its own for  *)
(* every entry it makes one for, beside those there were and never in the  *)
(* place of one.  A new handle's number is the number of handles there     *)
(* were and its rank among the new ones, so this is about ranks.           *)
(***************************************************************************)
EXTENDS ClusterRegistry, TLAPS, FiniteSetTheorems

RegInv ==
  /\ file \in Configs
  /\ IsFiniteSet(Built)
  /\ Built \subseteq 0 .. Cardinality(Built) - 1
  /\ \A c \in DOMAIN served : served[c] \in Built
  /\ DecodesAgainstServed

-----------------------------------------------------------------------------
(***************************************************************************)
(* Ranks                                                                   *)
(***************************************************************************)
Below(S, i) == {j \in S : j < i}

\* The members of a finite set of numbers have ranks, all different, below
\* the number of them.
LEMMA Ranks ==
  ASSUME NEW n \in Nat, NEW S \in SUBSET (1 .. n)
  PROVE  /\ IsFiniteSet(S) /\ Cardinality(S) \in Nat
         /\ \A i \in S : Cardinality(Below(S, i)) \in 0 .. Cardinality(S) - 1
         /\ \A i, j \in S : Cardinality(Below(S, i)) = Cardinality(Below(S, j)) => i = j
<1>1. IsFiniteSet(S) /\ Cardinality(S) \in Nat
  <2>1. IsFiniteSet(1 .. n)
    BY FS_Interval
  <2> QED BY <2>1, FS_Subset, FS_CardinalityType
<1>2. ASSUME NEW i \in S
      PROVE  /\ IsFiniteSet(Below(S, i)) /\ Cardinality(Below(S, i)) \in Nat
             /\ Cardinality(Below(S, i)) < Cardinality(S)
  <2>1. Below(S, i) \in SUBSET S /\ i \notin Below(S, i)
    BY DEF Below
  <2>2. Below(S, i) # S
    BY <2>1
  <2> QED BY <1>1, <2>1, <2>2, FS_Subset, FS_CardinalityType
<1>3. ASSUME NEW i \in S, NEW j \in S, i < j
      PROVE  Cardinality(Below(S, i)) # Cardinality(Below(S, j))
  <2>1. Below(S, i) \in SUBSET Below(S, j) /\ i \in Below(S, j) /\ i \notin Below(S, i)
    <3>1. i \in Int /\ j \in Int /\ \A k \in S : k \in Int
      OBVIOUS
    <3>2. \A k \in Below(S, i) : k \in S /\ k < j
      BY <1>3, <3>1 DEF Below
    <3>3. i \in Below(S, j)
      BY <1>3 DEF Below
    <3>4. i \notin Below(S, i)
      BY <3>1 DEF Below
    <3> QED BY <3>2, <3>3, <3>4 DEF Below
  <2> QED BY <1>2, <2>1, FS_Subset
<1>4. \A i, j \in S : i = j \/ i < j \/ j < i
  OBVIOUS
<1> QED BY <1>1, <1>2, <1>3, <1>4

(***************************************************************************)
(* What a reload makes                                                     *)
(***************************************************************************)

\* New handles are new, one for each entry that gets one, and numbered on
\* from those there were.
LEMMA NewIdsAreNew ==
  ASSUME RegInv, NEW cfg \in Configs
  PROVE  /\ NewIds(cfg) \cap Built = {}
         /\ \A i, j \in Makes(cfg) : NewId(cfg, i) = NewId(cfg, j) => i = j
         /\ IsFiniteSet(Built \cup NewIds(cfg))
         /\ Built \cup NewIds(cfg) \subseteq 0 .. Cardinality(Built \cup NewIds(cfg)) - 1
<1> DEFINE n == Cardinality(Built)
           S == Makes(cfg)
           new == NewIds(cfg)
<1>1. n \in Nat /\ Len(cfg.clusters) \in Nat
  BY FS_CardinalityType, ConfigsAssumption DEF RegInv
<1>2. S \in SUBSET (1 .. Len(cfg.clusters))
  BY DEF Makes, Reached, Rebuilds
<1>3. /\ IsFiniteSet(S) /\ Cardinality(S) \in Nat
      /\ \A i \in S : Cardinality(Below(S, i)) \in 0 .. Cardinality(S) - 1
      /\ \A i, j \in S : Cardinality(Below(S, i)) = Cardinality(Below(S, j)) => i = j
  <2> HIDE DEF S
  <2> QED BY <1>1, <1>2, Ranks
<1>4. \A i \in S : NewId(cfg, i) = n + Cardinality(Below(S, i))
  BY DEF NewId, Below
<1> HIDE DEF n, S
<1>5. \A i, j \in S : NewId(cfg, i) = NewId(cfg, j) => i = j
  BY <1>1, <1>3, <1>4
<1>6. new = {NewId(cfg, i) : i \in S}
  BY DEF NewIds, S
<1>7. \A h \in new : h \in n .. n + Cardinality(S) - 1
  BY <1>1, <1>3, <1>4, <1>6
<1>8. IsFiniteSet(new) /\ Cardinality(new) = Cardinality(S)
  <2> DEFINE f == [i \in S |-> NewId(cfg, i)]
  <2>1. f \in [S -> new] /\ \A i, j \in S : f[i] = f[j] => i = j
    BY <1>5, <1>6
  <2>2. \A h \in new : \E i \in S : f[i] = h
    BY <1>6
  <2>3. f \in Bijection(S, new)
    BY <2>1, <2>2 DEF Bijection, Injection, IsInjective, Surjection
  <2>4. ExistsBijection(S, new)
    BY <2>3 DEF ExistsBijection
  <2> HIDE DEF new
  <2> QED BY <1>3, <2>4, FS_Bijection
<1> HIDE DEF new
<1>9. Built \subseteq 0 .. n - 1 /\ IsFiniteSet(Built)
  BY DEF RegInv, n
<1>10. new \cap Built = {}
  BY <1>1, <1>7, <1>9
<1>11. IsFiniteSet(Built \cup new) /\ Cardinality(Built \cup new) = n + Cardinality(S)
  <2>1. Built \cap new = {} /\ Cardinality(Built \cap new) = 0
    BY <1>10, FS_EmptySet
  <2>2. /\ IsFiniteSet(Built \cup new)
        /\ Cardinality(Built \cup new) = n + Cardinality(S) - Cardinality(Built \cap new)
    BY <1>8, <1>9, FS_Union DEF n
  <2> QED BY <1>1, <1>3, <2>1, <2>2
<1>12. Built \cup new \subseteq 0 .. Cardinality(Built \cup new) - 1
  <2>1. \A h \in new : h \in 0 .. n + Cardinality(S) - 1
    BY <1>1, <1>3, <1>7
  <2>2. \A h \in Built : h \in 0 .. n + Cardinality(S) - 1
    BY <1>1, <1>3, <1>9
  <2>3. Built \cup new \subseteq 0 .. n + Cardinality(S) - 1
    BY <2>1, <2>2
  <2> DEFINE m == Cardinality(Built \cup new)
  <2>4. m = n + Cardinality(S)
    BY <1>11
  <2> HIDE DEF m
  <2>5. Built \cup new \subseteq 0 .. m - 1
    BY <1>1, <1>3, <2>3, <2>4
  <2> QED BY <2>5 DEF m
<1>13. \A i, j \in Makes(cfg) : NewId(cfg, i) = NewId(cfg, j) => i = j
  BY <1>5 DEF S
<1>14. IsFiniteSet(Built \cup new)
  BY <1>11
<1> QED BY <1>10, <1>12, <1>13, <1>14 DEF new

LEMMA SpawnGrows ==
  ASSUME RegInv, NEW cfg \in Configs, Spawn(cfg)
  PROVE  /\ Built' = Built \cup NewIds(cfg)
         /\ IsFiniteSet(Built') /\ Built' \subseteq 0 .. Cardinality(Built') - 1
         /\ \A h \in Built : handle'[h] = handle[h]
         /\ \A i \in Makes(cfg) : NewId(cfg, i) \in Built' /\ handle'[NewId(cfg, i)] = Spec0(cfg, i)
<1>1. handle' = [h \in Built \cup NewIds(cfg) |->
                   IF h \in NewIds(cfg) THEN Spec0(cfg, MadeFor(cfg, h)) ELSE handle[h]]
  BY DEF Spawn
<1>2. Built' = Built \cup NewIds(cfg)
  BY <1>1 DEF Built
<1>3. \A h \in Built : handle'[h] = handle[h]
  BY <1>1, NewIdsAreNew
<1>4. ASSUME NEW i \in Makes(cfg)
      PROVE  NewId(cfg, i) \in Built' /\ handle'[NewId(cfg, i)] = Spec0(cfg, i)
  <2>1. NewId(cfg, i) \in NewIds(cfg)
    BY DEF NewIds
  <2>2. MadeFor(cfg, NewId(cfg, i)) = i
    BY NewIdsAreNew DEF MadeFor
  <2> QED BY <1>1, <1>2, <2>1, <2>2
<1>5. IsFiniteSet(Built') /\ Built' \subseteq 0 .. Cardinality(Built') - 1
  BY <1>2, NewIdsAreNew
<1> QED BY <1>2, <1>3, <1>4, <1>5

\* The entry a declared cluster is served from.
LEMMA DeclaredOnce ==
  ASSUME NEW cfg, NEW c \in Keys(cfg)
  PROVE  LET i == CHOOSE j \in 1 .. Len(cfg.clusters) : cfg.clusters[j].cluster = c
         IN  i \in 1 .. Len(cfg.clusters) /\ cfg.clusters[i].cluster = c
BY DEF Keys

\* A swap serves what it made of an entry, or what was served and is as the
\* entry declares it.
LEMMA SwapServes ==
  ASSUME RegInv, Swap, NEW c \in DOMAIN served'
  PROVE  /\ served'[c] \in Built' /\ handle'[served'[c]].registry = file.registries
         /\ c \in DOMAIN served => served'[c] = served[c] \/ handle'[served'[c]] # handle[served[c]]
<1> DEFINE i == CHOOSE j \in 1 .. Len(file.clusters) : file.clusters[j].cluster = c
<1>1. file \in Configs /\ Spawn(file) /\ Failing(file) = {} /\ served' = ServedFrom(file)
  BY DEF RegInv, Swap
<1>2. c \in Keys(file) /\ served'[c] = IF i \in Makes(file) THEN NewId(file, i) ELSE served[c]
  BY <1>1 DEF ServedFrom
<1>3. i \in 1 .. Len(file.clusters) /\ file.clusters[i].cluster = c
  BY <1>2, DeclaredOnce
<1> HIDE DEF i
<1>4. Makes(file) = Rebuilds(file)
  BY <1>1 DEF Makes, Reached
<1>5. CASE i \in Makes(file)
  <2>1. served'[c] \in Built' /\ handle'[served'[c]] = Spec0(file, i)
    BY <1>1, <1>2, <1>5, SpawnGrows
  <2>2. ~Unchanged(file, i)
    BY <1>4, <1>5 DEF Rebuilds
  <2>3. c \in DOMAIN served => handle[served[c]] # Spec0(file, i)
    BY <1>3, <2>2 DEF Unchanged
  <2>4. Spec0(file, i).registry = file.registries
    BY DEF Spec0
  <2> QED BY <2>1, <2>3, <2>4
<1>6. CASE i \notin Makes(file)
  <2>1. Unchanged(file, i)
    BY <1>3, <1>4, <1>6 DEF Rebuilds
  <2>2. c \in DOMAIN served /\ handle[served[c]] = Spec0(file, i)
    BY <1>3, <2>1 DEF Unchanged
  <2>3. served[c] \in Built
    BY <2>2 DEF RegInv
  <2>4. served[c] \in Built' /\ handle'[served[c]] = handle[served[c]]
    BY <1>1, <2>3, SpawnGrows
  <2>5. Spec0(file, i).registry = file.registries
    BY DEF Spec0
  <2> QED BY <1>2, <1>6, <2>2, <2>4, <2>5
<1> QED BY <1>5, <1>6

(***************************************************************************)
(* Steps                                                                   *)
(***************************************************************************)

\* The handles, what is served and from which configuration stay.
LEMMA ServesTheSame ==
  ASSUME RegInv, UNCHANGED <<handle, served, config>>, file' \in Configs
  PROVE  RegInv'
BY DEF RegInv, Built, DecodesAgainstServed

LEMMA FailPartWayInvariant ==
  ASSUME RegInv, FailPartWay
  PROVE  RegInv'
<1>1. file \in Configs /\ Spawn(file) /\ UNCHANGED <<file, served, config>>
  BY DEF RegInv, FailPartWay
<1>2. /\ Built' = Built \cup NewIds(file)
      /\ IsFiniteSet(Built') /\ Built' \subseteq 0 .. Cardinality(Built') - 1
      /\ \A h \in Built : handle'[h] = handle[h]
  BY <1>1, SpawnGrows
<1>3. \A c \in DOMAIN served : served[c] \in Built
  BY DEF RegInv
<1>4. DecodesAgainstServed'
  BY <1>1, <1>2, <1>3 DEF RegInv, DecodesAgainstServed
<1> QED BY <1>1, <1>2, <1>3, <1>4 DEF RegInv

LEMMA SwapInvariant ==
  ASSUME RegInv, Swap
  PROVE  RegInv'
<1>1. file \in Configs /\ Spawn(file) /\ file' = file /\ config' = file
  BY DEF RegInv, Swap
<1>2. IsFiniteSet(Built') /\ Built' \subseteq 0 .. Cardinality(Built') - 1
  BY <1>1, SpawnGrows
<1>3. \A c \in DOMAIN served' : served'[c] \in Built' /\ handle'[served'[c]].registry = file.registries
  BY SwapServes
<1> QED BY <1>1, <1>2, <1>3 DEF RegInv, DecodesAgainstServed

\* Of a connector, the brokers and their snapshots.
LEMMA ConnectorsServeTheSame ==
  ASSUME Connectors \/ ((Brokers \/ Snapshots) /\ UNCHANGED reloadVars)
  PROVE  UNCHANGED <<handle, served, config, file>>
BY DEF Connectors, Run, Begin, Connected, ConnectFails, Retry, Look, Refreshed, RefreshFails,
       Brokers, GoesDown, ComesBack, Snapshots, GrowsStale, LibraryRefreshes, reloadVars

LEMMA RegistryNextInvariant == RegInv /\ [RegistryNext]_vars => RegInv'
<1> SUFFICES ASSUME RegInv, [RegistryNext]_vars PROVE RegInv'
  OBVIOUS
<1>1. CASE Connectors \/ ((Brokers \/ Snapshots) /\ UNCHANGED reloadVars)
  BY <1>1, ConnectorsServeTheSame, ServesTheSame DEF RegInv
<1>2. CASE (\E cfg \in Configs : Edit(cfg)) \/ Arm \/ Poll \/ Refuse \/ UNCHANGED vars
  <2>1. UNCHANGED <<handle, served, config>> /\ file' \in Configs
    BY <1>2 DEF Edit, Arm, Poll, Refuse, vars, reloadVars, RegInv
  <2> QED BY <2>1, ServesTheSame
<1>3. CASE FailPartWay
  BY <1>3, FailPartWayInvariant
<1>4. CASE Swap
  BY <1>4, SwapInvariant
<1> QED BY <1>1, <1>2, <1>3, <1>4 DEF RegistryNext, Reload

LEMMA RegistryInitInvariant == RegistryInit => RegInv
<1> SUFFICES ASSUME RegistryInit PROVE RegInv
  OBVIOUS
<1> DEFINE n == Len(Initial.clusters)
<1>1. n \in Nat /\ file \in Configs /\ config = Initial
  BY ConfigsAssumption DEF RegistryInit
<1>2. Built = 0 .. n - 1 /\ \A h \in Built : handle[h] = Spec0(Initial, h + 1)
  BY DEF RegistryInit, Built
<1>3. IsFiniteSet(Built) /\ Cardinality(Built) = n
  BY <1>1, <1>2, FS_Interval
<1>4. ASSUME NEW c \in DOMAIN served
      PROVE  served[c] \in Built /\ handle[served[c]].registry = config.registries
  <2> DEFINE i == CHOOSE j \in 1 .. n : Initial.clusters[j].cluster = c
  <2>1. c \in Keys(Initial) /\ served[c] = i - 1
    BY <1>4 DEF RegistryInit
  <2>2. i \in 1 .. n
    <3>1. \E j \in 1 .. n : Initial.clusters[j].cluster = c
      BY <2>1 DEF Keys
    <3> QED BY <3>1
  <2> HIDE DEF i, n
  <2>3. served[c] \in Built
    BY <1>1, <1>2, <2>1, <2>2
  <2>4. handle[served[c]] = Spec0(Initial, served[c] + 1)
    BY <1>2, <2>3
  <2>5. Spec0(Initial, served[c] + 1).registry = Initial.registries
    BY DEF Spec0
  <2> QED BY <1>1, <2>3, <2>4, <2>5
<1> QED BY <1>1, <1>2, <1>3, <1>4 DEF RegInv, DecodesAgainstServed

(***************************************************************************)
(* Theorems                                                                *)
(***************************************************************************)

\* Handles are numbered apart and what is served has been built.
THEOREM RegistryInvariant == RegistrySafety => []RegInv
BY RegistryInitInvariant, RegistryNextInvariant, PTL DEF RegistrySafety

\* No reload leaves a cluster decoding against a registry that is not served.
THEOREM ServedDecodesAgainstServed == RegistrySafety => []DecodesAgainstServed
<1>1. RegInv => DecodesAgainstServed
  BY DEF RegInv
<1> QED BY <1>1, RegistryInvariant, PTL

LEMMA StepLeavesAlone ==
  ASSUME RegInv, [RegistryNext]_vars, NEW c \in DOMAIN served \cap DOMAIN served',
         handle'[served'[c]] = handle[served[c]]
  PROVE  served'[c] = served[c]
<1>1. CASE Swap
  BY <1>1, SwapServes
<1>2. CASE UNCHANGED served
  BY <1>2
<1> QED BY <1>1, <1>2, ConnectorsServeTheSame
        DEF RegistryNext, Reload, Refuse, FailPartWay, Edit, Arm, Poll, vars, reloadVars

\* A cluster declared alike before and after an edit keeps its handle.
THEOREM EditsLeaveAlone == RegistrySafety => UnchangedUndisturbed
<1>1. RegInv /\ [RegistryNext]_vars =>
        [\A c \in DOMAIN served \cap DOMAIN served' :
           handle'[served'[c]] = handle[served[c]] => served'[c] = served[c]]_vars
  BY StepLeavesAlone
<1> QED BY <1>1, RegistryInvariant, PTL DEF RegistrySafety, UnchangedUndisturbed

(***************************************************************************)
(* One connector for a cluster                                             *)
(***************************************************************************)

\* Every handle has a connector, and one that is live serves its cluster.
OneInv == DOMAIN at = Built /\ OneConnector

\* A connector's own step leaves it live or not, and an ended one ended.
LEMMA ConnectorsStayPut ==
  ASSUME OneInv, Connectors \/ ((Brokers \/ Snapshots) /\ UNCHANGED reloadVars)
  PROVE  /\ UNCHANGED <<handle, served, retired>>
         /\ DOMAIN at' = DOMAIN at
         /\ \A h \in DOMAIN at : at[h] = "ended" => at'[h] = "ended"
<1>1. CASE Connectors
  <2>1. PICK h \in Built : Run(h) /\ UNCHANGED reloadVars
    BY <1>1 DEF Connectors
  <2>2. UNCHANGED <<handle, served, retired>>
    BY <2>1 DEF Run, Begin, Connected, ConnectFails, Retry, Look, Refreshed, RefreshFails, reloadVars
  <2>3. at[h] # "ended" /\ \E place : at' = [at EXCEPT ![h] = place]
    BY <2>1 DEF Run, Begin, Connected, ConnectFails, Retry, Look, Refreshed, RefreshFails, Goes
  <2> QED BY <2>2, <2>3
<1>2. CASE (Brokers \/ Snapshots) /\ UNCHANGED reloadVars
  BY <1>2 DEF Brokers, GoesDown, ComesBack, Snapshots, GrowsStale, LibraryRefreshes,
              connectorVars, reloadVars
<1> QED BY <1>1, <1>2

\* A failed reload that made nothing.
LEMMA FailPartWayOne ==
  ASSUME RegInv, OneInv, FailPartWay, Makes(file) = {}
  PROVE  OneInv'
<1>1. NewIds(file) = {} /\ Spawn(file) /\ served' = served /\ retired \subseteq retired'
  BY DEF NewIds, FailPartWay, Retire
<1>2. handle' = [h \in Built |-> handle[h]] /\ at' = [h \in Built |-> at[h]]
  BY <1>1 DEF Spawn
<1>3. Built' = Built /\ DOMAIN at' = Built /\ \A h \in Built : at'[h] = at[h]
  BY <1>2 DEF Built
<1>4. OneConnector'
  BY <1>1, <1>3 DEF OneInv, OneConnector, Live, Served
<1> QED BY <1>3, <1>4 DEF OneInv

\* An entry of a file that loads is the one its cluster is looked up by.
LEMMA LookedUp ==
  ASSUME NEW cfg, Keyed(cfg), NEW i \in 1 .. Len(cfg.clusters)
  PROVE  (CHOOSE j \in 1 .. Len(cfg.clusters) : cfg.clusters[j].cluster = cfg.clusters[i].cluster) = i
<1> DEFINE k == CHOOSE j \in 1 .. Len(cfg.clusters) : cfg.clusters[j].cluster = cfg.clusters[i].cluster
<1>1. k \in 1 .. Len(cfg.clusters) /\ cfg.clusters[k].cluster = cfg.clusters[i].cluster
  OBVIOUS
<1> HIDE DEF k
<1>2. k = i
  BY <1>1 DEF Keyed
<1> QED BY <1>2 DEF k

\* A swap serves every handle it makes, and every live handle it neither
\* replaces nor drops.
LEMMA SwapOne ==
  ASSUME RegInv, OneInv, Swap
  PROVE  OneInv'
<1>1. /\ file \in Configs /\ Keyed(file)
      /\ Spawn(file) /\ Failing(file) = {} /\ served' = ServedFrom(file)
      /\ retired' = retired \cup (Replaced(file) \cup Removed(file))
  BY ConfigsAssumption DEF RegInv, Swap, Retire
<1>2. Makes(file) = Rebuilds(file) /\ Reached(file) = Rebuilds(file)
  BY <1>1 DEF Makes, Reached
<1>3. Built' = Built \cup NewIds(file) /\ NewIds(file) \cap Built = {}
  BY <1>1, SpawnGrows, NewIdsAreNew
<1>4. DOMAIN at' = Built'
  BY <1>1, <1>3 DEF Spawn
<1>5. ASSUME NEW i \in 1 .. Len(file.clusters)
      PROVE  /\ file.clusters[i].cluster \in DOMAIN served'
             /\ served'[file.clusters[i].cluster]
                  = IF i \in Makes(file) THEN NewId(file, i) ELSE served[file.clusters[i].cluster]
  <2> DEFINE c == file.clusters[i].cluster
             k == CHOOSE j \in 1 .. Len(file.clusters) : file.clusters[j].cluster = c
  <2>1. c \in Keys(file)
    BY DEF Keys
  <2>2. k = i
    BY <1>1, LookedUp
  <2>3. c \in DOMAIN served' /\ served'[c] = IF k \in Makes(file) THEN NewId(file, k) ELSE served[c]
    <3> HIDE DEF c
    <3> QED BY <1>1, <2>1 DEF ServedFrom
  <2> HIDE DEF k
  <2> QED BY <2>2, <2>3
<1>6. ASSUME NEW h \in NewIds(file)
      PROVE  h \in Served'
  <2>1. PICK i \in Makes(file) : h = NewId(file, i)
    BY DEF NewIds
  <2>2. i \in 1 .. Len(file.clusters)
    BY DEF Makes, Reached, Rebuilds
  <2> QED BY <1>5, <2>1, <2>2 DEF Served
<1>7. ASSUME NEW h \in Built, Live(h)'
      PROVE  h \in Served'
  <2>1. at'[h] = at[h]
    BY <1>1, <1>3 DEF Spawn
  <2>2. Live(h) /\ h \notin Replaced(file) /\ h \notin Removed(file)
    BY <1>1, <1>7, <2>1 DEF Live
  <2>3. PICK c \in DOMAIN served : h = served[c]
    BY <2>2 DEF OneInv, OneConnector, Served
  <2>4. c \in Keys(file)
    BY <2>2, <2>3 DEF Removed
  <2>5. PICK i \in 1 .. Len(file.clusters) : c = file.clusters[i].cluster
    BY <2>4 DEF Keys
  <2>6. i \notin Makes(file)
    BY <1>2, <2>2, <2>3, <2>5 DEF Replaced
  <2> QED BY <1>5, <2>3, <2>5, <2>6 DEF Served
<1>8. OneConnector'
  BY <1>3, <1>6, <1>7 DEF OneConnector
<1> QED BY <1>4, <1>8 DEF OneInv

LEMMA OneInitInvariant == RegistryInit => OneInv
<1> SUFFICES ASSUME RegistryInit PROVE OneInv
  OBVIOUS
<1> DEFINE n == Len(Initial.clusters)
<1>1. n \in Nat /\ Keyed(Initial)
  BY ConfigsAssumption
<1>2. Built = 0 .. n - 1 /\ DOMAIN at = Built
  BY DEF RegistryInit, Built
<1>3. ASSUME NEW h \in Built
      PROVE  h \in Served
  <2> DEFINE c == Initial.clusters[h + 1].cluster
  <2>1. h + 1 \in 1 .. n
    BY <1>1, <1>2
  <2>2. c \in Keys(Initial)
    BY <2>1 DEF Keys
  <2>3. (CHOOSE j \in 1 .. n : Initial.clusters[j].cluster = c) = h + 1
    BY <1>1, <2>1, LookedUp
  <2>4. c \in DOMAIN served /\ served[c] = (h + 1) - 1
    BY <2>2, <2>3 DEF RegistryInit
  <2>5. (h + 1) - 1 = h
    BY <1>1, <1>2
  <2> QED BY <2>4, <2>5 DEF Served
<1> QED BY <1>2, <1>3 DEF OneInv, OneConnector

\* A reload that fails has made no handle: whatever precedes the cluster
\* that cannot be built is served as it is declared.
NothingMadePartWay == [][FailPartWay => Makes(file) = {}]_vars

LEMMA OneNextInvariant ==
  RegInv /\ OneInv /\ [RegistryNext]_vars /\ [FailPartWay => Makes(file) = {}]_vars => OneInv'
<1> SUFFICES ASSUME RegInv, OneInv, [RegistryNext]_vars, [FailPartWay => Makes(file) = {}]_vars
             PROVE  OneInv'
  OBVIOUS
<1>1. CASE Connectors \/ ((Brokers \/ Snapshots) /\ UNCHANGED reloadVars)
  <2>1. /\ UNCHANGED <<handle, served, retired>> /\ DOMAIN at' = DOMAIN at
        /\ \A h \in DOMAIN at : at[h] = "ended" => at'[h] = "ended"
    BY <1>1, ConnectorsStayPut
  <2> QED BY <2>1 DEF OneInv, OneConnector, Live, Served, Built
<1>2. CASE (\E cfg \in Configs : Edit(cfg)) \/ Arm \/ Poll \/ Refuse \/ UNCHANGED vars
  <2>1. UNCHANGED <<handle, served, retired, at>>
    BY <1>2 DEF Edit, Arm, Poll, Refuse, vars, connectorVars, reloadVars
  <2> QED BY <2>1 DEF OneInv, OneConnector, Live, Served, Built
<1>3. CASE FailPartWay
  <2>1. watcher' # watcher
    BY <1>3 DEF FailPartWay
  <2>2. Makes(file) = {}
    BY <1>3, <2>1 DEF vars, reloadVars
  <2> QED BY <1>3, <2>2, FailPartWayOne
<1>4. CASE Swap
  BY <1>4, SwapOne
<1> QED BY <1>1, <1>2, <1>3, <1>4 DEF RegistryNext, Reload

\* Whatever is edited and however the connectors and brokers get on, a
\* handle whose connector goes on is the one its cluster is served from, as
\* long as no reload makes handles before it fails.
THEOREM OneConnectorForACluster == RegistrySafety /\ NothingMadePartWay => []OneConnector
<1>1. OneInv => OneConnector
  BY DEF OneInv
<1> QED BY <1>1, OneInitInvariant, OneNextInvariant, RegistryInvariant, PTL
        DEF RegistrySafety, NothingMadePartWay
=============================================================================
