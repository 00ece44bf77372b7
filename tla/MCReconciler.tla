---------------------------- MODULE MCReconciler ----------------------------
(* Instances of Reconciler for TLC. *)
EXTENDS Reconciler, TLC

CONSTANTS a, b, x

\* A service goes by the name of its container.  (A health check of a compose
\* service asks the engine for a name that no container has; such a request
\* lists nothing and, being scoped, changes nothing.)
MCNameOf == [c \in Container |-> c]

\* Configured filters: none, or the client side ones.
NoFilter == Everything
ClientFilter == [Everything EXCEPT !.client = TRUE]

Symmetry == Permutations(Container)
=============================================================================
