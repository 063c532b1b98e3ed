---------------------------- MODULE MCMockRuntime ----------------------------
(* A small instance of MockRuntime. *)
EXTENDS MockRuntime
=============================================================================
