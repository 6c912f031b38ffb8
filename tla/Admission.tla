----------------------------- MODULE Admission -----------------------------
(***************************************************************************)
(* What the limit on connections promises (maxConnections, server.h:50 and *)
(* server.cpp:203): at no time are more than MaxConnections clients        *)
(* admitted, and each client is admitted at most once and leaves for good. *)
(* Server.tla implements it as long as every session ends the normal way.  *)
(***************************************************************************)
EXTENDS Naturals, FiniteSets

CONSTANTS Conns, MaxConnections

VARIABLES
    open,   \* the admitted clients
    left    \* those that were admitted and have left

admissionVars == <<open, left>>

AdmissionInit == open = {} /\ left = {}

Admit(c) ==
    /\ c \notin open \cup left
    /\ Cardinality(open) < MaxConnections
    /\ open' = open \cup {c}
    /\ UNCHANGED left

Leave(c) ==
    /\ c \in open
    /\ open' = open \ {c}
    /\ left' = left \cup {c}

AdmissionNext == \E c \in Conns : Admit(c) \/ Leave(c)

AdmissionSpec == AdmissionInit /\ [][AdmissionNext]_admissionVars

=============================================================================
