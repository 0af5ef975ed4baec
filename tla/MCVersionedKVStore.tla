------------------------- MODULE MCVersionedKVStore -------------------------
(* VersionedKVStore with calls and keys as model values. *)
EXTENDS VersionedKVStore
=============================================================================
