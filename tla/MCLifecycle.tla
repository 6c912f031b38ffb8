---------------------------- MODULE MCLifecycle ----------------------------
(* Instances of Lifecycle for TLC. *)
EXTENDS Lifecycle

MCDbThreads == Conns \cup {"main", "monitor"}
=============================================================================
