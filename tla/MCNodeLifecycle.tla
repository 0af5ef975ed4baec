-------------------------- MODULE MCNodeLifecycle ---------------------------
(* NodeLifecycle, which has numeric bounds only. *)
EXTENDS NodeLifecycle
=============================================================================
