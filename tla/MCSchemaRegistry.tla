-------------------------- MODULE MCSchemaRegistry --------------------------
(***************************************************************************)
(* SchemaRegistry for TLC: two streams decoding records of one schema and  *)
(* one page of the browser.                                                *)
(***************************************************************************)
EXTENDS SchemaRegistry

CONSTANTS stream1, stream2, page1, value
=============================================================================
