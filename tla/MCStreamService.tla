--------------------------- MODULE MCStreamService ---------------------------
(***************************************************************************)
(* StreamService for TLC.  A deployment with sign-in behind a proxy that   *)
(* forwards no hop: bob's message streams are charged to bob, his analyses *)
(* to the proxy's address, which nothing tells apart and which therefore   *)
(* has no ceiling of its own.  Four streams are one more than a process    *)
(* holds that has bob's two and an analysis.                               *)
(***************************************************************************)
EXTENDS StreamService

CONSTANT bob

Bob == [subject |-> bob, hop |-> Nobody]

MCCallers == {Bob}

MCPrincipals == {ChargedTo(kind, c) : kind \in Kinds, c \in Callers}
=============================================================================
