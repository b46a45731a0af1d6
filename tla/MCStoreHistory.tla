--------------------------- MODULE MCStoreHistory ---------------------------
(* An instance of StoreHistory for TLC: the constants are those of MCStore. *)
EXTENDS StoreHistory, MCStore
=============================================================================
