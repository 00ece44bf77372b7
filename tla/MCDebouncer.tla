---------------------------- MODULE MCDebouncer ----------------------------
(* Instances of Debouncer for TLC. *)
EXTENDS Debouncer

CONSTANTS c1, c2, c3, n1, n2

\* Two containers with names of their own, and a third one, hit by the exclude
\* filters, that may take the place and the name of the first.
MCNameOf == [c \in Container |-> IF c = c2 THEN n2 ELSE n1]

\* Configured filters: only client side ones, or an include label as well.
ClientFilter == [Everything EXCEPT !.client = TRUE]
LabelFilter == [ClientFilter EXCEPT !.labels = TRUE]
=============================================================================
