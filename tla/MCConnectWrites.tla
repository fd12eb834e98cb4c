--------------------------- MODULE MCConnectWrites ---------------------------
(***************************************************************************)
(* ConnectWrites for TLC: a few writes to one connector and a page that    *)
(* lists it.                                                               *)
(***************************************************************************)
EXTENDS ConnectWrites, TLC

Symmetry == Permutations(Requests)
=============================================================================
