-------------------------- MODULE MCClusterRegistry --------------------------
(***************************************************************************)
(* ClusterRegistry for TLC: one or two clusters of one environment and the *)
(* edits an operator makes: a cluster added or dropped, another broker     *)
(* list, another schema registry, a file that does not load, a new cluster *)
(* whose credentials cannot be read.                                       *)
(***************************************************************************)
EXTENDS ClusterRegistry

CONSTANTS orders, billing, audit

Of(key, entry) == [cluster |-> key, entry |-> entry, usable |-> TRUE]
Broken(key, entry) == [cluster |-> key, entry |-> entry, usable |-> FALSE]

Config(clusters, registries) == [valid |-> TRUE, clusters |-> clusters, registries |-> registries]

Base     == Config(<<Of(orders, 1)>>, 1)
Moved    == Config(<<Of(orders, 2), Of(billing, 1)>>, 1)
Schemas  == Config(<<Of(orders, 1)>>, 2)
Torn     == [Moved EXCEPT !.valid = FALSE]
Added    == Config(<<Broken(audit, 1), Of(orders, 1)>>, 1)
NoSecret == Config(<<Of(orders, 2), Broken(billing, 2)>>, 1)

\* Files in which no changed or new cluster is listed before a broken one.
MCSound  == {Base, Moved, Schemas, Torn, Added}
MCEdits  == {Base, NoSecret}
=============================================================================
