------------------------ MODULE MCConnectionManager -------------------------
(* ConnectionManager with calls and peers as model values. *)
EXTENDS ConnectionManager
=============================================================================
