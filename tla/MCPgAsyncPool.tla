--------------------------- MODULE MCPgAsyncPool ---------------------------
(* PgAsyncPool as TLC checks it: model values for queries and addresses,    *)
(* and no symmetry, because of the liveness property.                      *)
EXTENDS PgAsyncPool
=============================================================================
