---------------------------- MODULE MCEventQueue ----------------------------
(* EventQueue with producers and consumers as model values. *)
EXTENDS EventQueue
=============================================================================
