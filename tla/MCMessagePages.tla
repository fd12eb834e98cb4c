--------------------------- MODULE MCMessagePages ---------------------------
(***************************************************************************)
(* MessagePages for TLC: a partition with two rejected records in a row,   *)
(* and one with an aborted record and a batch of two offsets that does not *)
(* decode.                                                                 *)
(***************************************************************************)
EXTENDS MessagePages

Entry(kind, at) == [kind |-> kind, at |-> at]

MCLog == [p \in 0 .. 1 |->
  IF p = 0
  THEN <<Entry("hit", 1), Entry("hit", 1), Entry("hit", 2), Entry("hit", 3), Entry("miss", 4), Entry("miss", 4), Entry("hit", 6)>>
  ELSE <<Entry("hit", 1), Entry("aborted", 2), Entry("bad", 4), Entry("rest", 4), Entry("hit", 5)>>]

MCWritten == [p \in 0 .. 1 |-> IF p = 0 THEN 7 ELSE 4]

Asked(desc, from, partitions, committed) ==
  [desc |-> desc, from |-> from, partitions |-> partitions, committed |-> committed]

MCQueries ==
  { Asked(TRUE, 6, {0}, FALSE), Asked(FALSE, 0, {1}, FALSE), Asked(TRUE, 3, {0, 1}, TRUE) }
=============================================================================
