--------------------------- MODULE MCMessageStream ---------------------------
(***************************************************************************)
(* MessageStream for TLC: a partition with a batch that does not decode,   *)
(* and one with a record the filter rejects, read alone and together.      *)
(***************************************************************************)
EXTENDS MessageStream

Query(mode, from, partitions, timed) ==
  [mode |-> mode, from |-> from, partitions |-> partitions, timed |-> timed]

MCLog == [p \in 0 .. 2 |->
  CASE p = 0 -> <<"hit", "bad", "hit">>
    [] p = 1 -> <<"miss", "hit">>
    [] p = 2 -> <<"hit">>]

MCQueries ==
  { Query("oldest", 0, {1, 2}, FALSE),
    Query("oldest", 0, {0}, FALSE),
    Query("fromOffset", 1, {0}, FALSE),
    Query("live", 0, {1}, FALSE),
    Query("newest", 0, {0, 1}, TRUE) }

MCItems == {Failed, Progress, Resolved, Done}
=============================================================================
