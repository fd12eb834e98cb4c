--------------------------- MODULE ClusterRegistry ---------------------------
(***************************************************************************)
(* The registry a process serves from, and its reload                      *)
(* (crates/kaas-ui-core/src/registry.rs `Registry`,                        *)
(* crates/kaas-ui-server/src/reload.rs): the configuration file is polled, *)
(* and an edit builds a new registry that keeps the handle of every        *)
(* unchanged cluster, retires the others and is swapped in whole.          *)
(*                                                                         *)
(* A configuration is a record                                             *)
(*   valid       Config::load accepts it, and every schema registry and    *)
(*               Connect client it declares can be built;                  *)
(*   clusters    its clusters in declared order: [cluster, entry, usable], *)
(*               `usable` when the entry's credentials can be read;        *)
(*   registries  the settings of the schema registry its clusters name.    *)
(* Two handles of one schema registry are the same exactly when they were  *)
(* built from the same settings and nothing was swapped in between, so the *)
(* settings stand for the handle.                                          *)
(***************************************************************************)
EXTENDS ClusterConnector, Sequences

CONSTANTS
  Configs,    \* what the file may hold
  Initial,    \* what it holds at startup
  MaxEdits    \* bound of the model: edits of the file

\* Config::validate turns a file away that declares a cluster twice.
Keyed(cfg) ==
  \A i, j \in 1 .. Len(cfg.clusters) : cfg.clusters[i].cluster = cfg.clusters[j].cluster => i = j

ASSUME ConfigsAssumption ==
  /\ Initial \in Configs /\ Initial.valid
  /\ \A cfg \in Configs : Len(cfg.clusters) \in Nat /\ (cfg.valid => Keyed(cfg))

VARIABLES
  file,       \* the configuration on disk
  edits,      \* how often it has been edited
  last,       \* the bytes the watcher compared against
  watcher,    \* "starting" until its first read; "sleeping"; or "changed",
              \* between a read and the load it leads to
  served,     \* Registry.clusters of the registry swapped in: cluster -> handle
  config      \* the configuration that registry was built from

reloadVars == <<file, edits, last, watcher, served, config>>
vars == <<handle, connectorVars, brokerVars, reloadVars>>

Keys(cfg) == {cfg.clusters[i].cluster : i \in 1 .. Len(cfg.clusters)}

(***************************************************************************)
(* Building handles                                                        *)
(***************************************************************************)
Spec0(cfg, i) ==
  [cluster |-> cfg.clusters[i].cluster, entry |-> cfg.clusters[i].entry,
   registry |-> cfg.registries]

\* Mutant of Unchanged: the registry a handle decodes against is not looked at.
UnchangedEntry(cfg, i) ==
  LET c == cfg.clusters[i].cluster
  IN c \in DOMAIN served /\ handle[served[c]].entry = cfg.clusters[i].entry

\* `existing.entry == *entry && registry_unchanged(existing)`
Unchanged(cfg, i) ==
  LET c == cfg.clusters[i].cluster
  IN c \in DOMAIN served /\ handle[served[c]] = Spec0(cfg, i)

Rebuilds(cfg) == {i \in 1 .. Len(cfg.clusters) : ~Unchanged(cfg, i)}

\* ClusterHandle::new fails at the first rebuilt entry that is not usable;
\* the loop does not reach the ones after it.
Failing(cfg) == {i \in Rebuilds(cfg) : ~cfg.clusters[i].usable}
Reached(cfg) == {i \in Rebuilds(cfg) : \A j \in Failing(cfg) : i <= j}
Makes(cfg)   == Reached(cfg) \ Failing(cfg)

\* Handles are numbered in the order they are made.
NewId(cfg, i) == Cardinality(Built) + Cardinality({j \in Makes(cfg) : j < i})

Room(cfg) == Cardinality(Built) + Cardinality(Makes(cfg)) <= MaxHandles

MadeFor(cfg, h) == CHOOSE i \in Makes(cfg) : NewId(cfg, i) = h

NewIds(cfg) == {NewId(cfg, i) : i \in Makes(cfg)}

\* ClusterHandle::new, and tokio::spawn of its connector.
Spawn(cfg) ==
  LET new == NewIds(cfg)
  IN /\ handle' = [h \in Built \cup new |-> IF h \in new THEN Spec0(cfg, MadeFor(cfg, h)) ELSE handle[h]]
     /\ health' = [h \in Built \cup new |-> IF h \in new THEN Connecting ELSE health[h]]
     /\ at' = [h \in Built \cup new |-> IF h \in new THEN "spawned" ELSE at[h]]

Retire(hs) == retired' = retired \cup hs

ServedFrom(cfg) ==
  [c \in Keys(cfg) |->
    LET i == CHOOSE j \in 1 .. Len(cfg.clusters) : cfg.clusters[j].cluster = c
    IN IF i \in Makes(cfg) THEN NewId(cfg, i) ELSE served[c]]

\* What the loop retires on its way, and what falls out of the new map.
Replaced(cfg) == {served[cfg.clusters[i].cluster] : i \in {j \in Reached(cfg) : cfg.clusters[j].cluster \in DOMAIN served}}
Removed(cfg)  == {served[c] : c \in DOMAIN served \ Keys(cfg)}

(***************************************************************************)
(* The watcher                                                             *)
(***************************************************************************)
Edit(cfg) ==
  /\ edits < MaxEdits
  /\ cfg # file
  /\ edits' = edits + 1
  /\ file' = cfg
  /\ UNCHANGED <<handle, connectorVars, brokerVars, last, watcher, served, config>>

\* The watcher's task starts: an edit since the process loaded its
\* configuration is what it will compare against.
Arm ==
  /\ watcher = "starting"
  /\ last' = file
  /\ watcher' = "sleeping"
  /\ UNCHANGED <<handle, connectorVars, brokerVars, file, edits, served, config>>

\* The bytes changed; `last` is set before anything is made of them.
Poll ==
  /\ watcher = "sleeping"
  /\ file # last
  /\ last' = file
  /\ watcher' = "changed"
  /\ UNCHANGED <<handle, connectorVars, brokerVars, file, edits, served, config>>

\* Mutant of Refuse: the watcher returns on a file that does not load.
RefuseStops ==
  /\ watcher = "changed"
  /\ ~file.valid
  /\ watcher' = "stopped"
  /\ UNCHANGED <<handle, connectorVars, brokerVars, file, edits, last, served, config>>

\* Config::load (of whatever the file holds now), build_registries or
\* build_connects is an error: the registry is not touched.
Refuse ==
  /\ watcher = "changed"
  /\ ~file.valid
  /\ watcher' = "sleeping"
  /\ UNCHANGED <<handle, connectorVars, brokerVars, file, edits, last, served, config>>

\* ClusterHandle::new is an error, part of the way through the clusters.
FailPartWay ==
  /\ watcher = "changed"
  /\ file.valid
  /\ Failing(file) # {}
  /\ Room(file)
  /\ Spawn(file)
  /\ Retire(Replaced(file))
  /\ watcher' = "sleeping"
  /\ UNCHANGED <<admin, fresh, brokerVars, file, edits, last, served, config>>

\* Mutant of Swap: a cluster that is no longer declared is forgotten, and
\* its connector with it.
SwapForgets ==
  /\ watcher = "changed"
  /\ file.valid
  /\ Failing(file) = {}
  /\ Room(file)
  /\ Spawn(file)
  /\ Retire(Replaced(file))
  /\ served' = ServedFrom(file)
  /\ config' = file
  /\ watcher' = "sleeping"
  /\ UNCHANGED <<admin, fresh, brokerVars, file, edits, last>>

\* Mutant of Swap: every handle is rebuilt.
SwapAll ==
  /\ watcher = "changed"
  /\ file.valid
  /\ Len(file.clusters) + Cardinality(Built) <= MaxHandles
  /\ LET n == Cardinality(Built)
         new == {n + i - 1 : i \in 1 .. Len(file.clusters)}
     IN /\ handle' = [h \in Built \cup new |-> IF h \in new THEN Spec0(file, h - n + 1) ELSE handle[h]]
        /\ health' = [h \in Built \cup new |-> IF h \in new THEN Connecting ELSE health[h]]
        /\ at' = [h \in Built \cup new |-> IF h \in new THEN "spawned" ELSE at[h]]
        /\ served' = [c \in Keys(file) |-> n - 1 + CHOOSE i \in 1 .. Len(file.clusters) : file.clusters[i].cluster = c]
  /\ Retire({served[c] : c \in DOMAIN served})
  /\ config' = file
  /\ watcher' = "sleeping"
  /\ UNCHANGED <<admin, fresh, brokerVars, file, edits, last>>

\* reloaded() is Ok, and the registry is swapped.
Swap ==
  /\ watcher = "changed"
  /\ file.valid
  /\ Failing(file) = {}
  /\ Room(file)
  /\ Spawn(file)
  /\ Retire(Replaced(file) \cup Removed(file))
  /\ served' = ServedFrom(file)
  /\ config' = file
  /\ watcher' = "sleeping"
  /\ UNCHANGED <<admin, fresh, brokerVars, file, edits, last>>

Reload == Refuse \/ FailPartWay \/ Swap

(***************************************************************************)
(* The specification                                                       *)
(***************************************************************************)
\* Registry::from_config and spawn_connectors.
RegistryInit ==
  /\ file = Initial /\ config = Initial /\ last = Initial
  /\ edits = 0 /\ watcher = "starting"
  /\ handle = [h \in 0 .. Len(Initial.clusters) - 1 |-> Spec0(Initial, h + 1)]
  /\ served = [c \in Keys(Initial) |-> (CHOOSE i \in 1 .. Len(Initial.clusters) : Initial.clusters[i].cluster = c) - 1]
  /\ retired = {} /\ admin = {} /\ fresh = {}
  /\ health = [h \in Built |-> Connecting]
  /\ at = [h \in Built |-> "spawned"]
  /\ up = Clusters /\ outages = 0

Connectors == \E h \in Built : Run(h) /\ UNCHANGED reloadVars

RegistryNext ==
  \/ Connectors
  \/ (Brokers \/ Snapshots) /\ UNCHANGED reloadVars
  \/ \E cfg \in Configs : Edit(cfg)
  \/ Arm \/ Poll \/ Reload

\* Every connector is a task that is polled while it can move, its sleeps
\* end, and the watcher polls every five seconds.  Nothing is asked of the
\* brokers, of kaas-lib's refresh loop or of the operator.
RegistryFairness ==
  /\ \A h \in Ids : WF_vars(h \in Built /\ Run(h) /\ UNCHANGED reloadVars)
  /\ WF_vars(Arm) /\ WF_vars(Poll)
  /\ WF_vars(Reload)

RegistrySafety == RegistryInit /\ [][RegistryNext]_vars
RegistrySpec   == RegistrySafety /\ RegistryFairness

-----------------------------------------------------------------------------
(***************************************************************************)
(* Properties                                                              *)
(***************************************************************************)
Live(h) == at[h] # "ended" /\ h \notin retired
Served == {served[c] : c \in DOMAIN served}

\* A cluster decodes against the schema registry the process serves: a
\* reload that replaces the registry leaves no handle on the old client
\* (the comment on registry_unchanged).
DecodesAgainstServed ==
  \A c \in DOMAIN served : handle[served[c]].registry = config.registries

\* A cluster has one connector: the handle a reload replaces or drops is
\* retired in the step that stops serving it, so two connections never
\* compete for one cluster, and none outlives its place in the registry.
\* (Of files that list no cluster to be built, changed or new, before one that
\* cannot be: such a reload has spawned its connector and then drops the handle,
\* so the property fails, and for a changed one PreviousRegistryStays too.)
OneConnector ==
  \A h \in Built : Live(h) => h \in Served

\* An edit disturbs only what it is about: a cluster declared alike before
\* and after keeps its handle, and with it its connection (rule 4 of the
\* lifecycle in ARCHITECTURE.md).
UnchangedUndisturbed ==
  [][\A c \in DOMAIN served \cap DOMAIN served' :
       handle'[served'[c]] = handle[served[c]] => served'[c] = served[c]]_vars

\* A connector that was told to stop ends, whatever it was waiting for.
\* (Being retired and having ended both last, so "again and again" is "in the
\* end".)
RetiredEnds == []<>(\A h \in retired : at[h] = "ended")

Loads(cfg) == cfg.valid /\ \A i \in 1 .. Len(cfg.clusters) : cfg.clusters[i].usable

\* An edit the watcher has yet to read is served in the end, or edited
\* again: neither a file that does not load nor an edit that lands between
\* a read and its load stops later edits from being followed.
FollowsFile ==
  \A cfg \in Configs :
    (Loads(cfg) /\ file = cfg /\ last # cfg /\ watcher # "starting")
      ~> (config = cfg \/ file # cfg)

\* "An invalid edit is logged and the previous registry stays"
\* (ARCHITECTURE.md): what is served has not been told to stop.
PreviousRegistryStays == \A c \in DOMAIN served : served[c] \notin retired

=============================================================================
