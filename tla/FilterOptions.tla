--------------------------- MODULE FilterOptions ---------------------------
(***************************************************************************)
(* The filter a full update runs with (container.FilterOptions), what      *)
(* ContainerClient.List returns for it, and how the update debouncer       *)
(* merges two of them.                                                     *)
(*                                                                         *)
(* A filter keeps its container ids and names as sets.  The label filter   *)
(* and the client side filters (types, excluded names, excluded labels)    *)
(* only ever come from the configuration file as a whole, so a filter      *)
(* either carries them (TRUE) or does not.                                 *)
(***************************************************************************)

CONSTANTS
  Container,   \* ids of the containers the engine may hold
  Name,        \* names a filter can ask for
  NameOf,      \* the name under which the engine knows a container
  Labelled,    \* containers with the labels of filter.include.labels
  Excluded     \* containers hit by filter.include.types or filter.exclude.*

ASSUME FilterAssumption ==
  /\ NameOf \in [Container -> Name]
  /\ Labelled \subseteq Container
  /\ Excluded \subseteq Container

FilterOptions ==
  [ids: SUBSET Container, names: SUBSET Name, labels: BOOLEAN, client: BOOLEAN]

\* The zero value container.FilterOptions{}.
Everything == [ids |-> {}, names |-> {}, labels |-> FALSE, client |-> FALSE]

\* A faulty IsEmpty that counts the client side filters.
IsEmptyOfAllFilters(fo) == fo = Everything

\* The client side filters do not count.
IsEmpty(fo) == fo.names = {} /\ ~fo.labels /\ fo.ids = {}

Scoped(fo) == fo.ids # {} \/ fo.names # {}

\* Whether List returns container c.  The engine takes the union of the values
\* of one filter key and the intersection over the keys.
Admits(fo, c) ==
  /\ fo.ids = {} \/ c \in fo.ids
  /\ fo.names = {} \/ NameOf[c] \in fo.names
  /\ fo.labels => c \in Labelled
  /\ fo.client => c \notin Excluded

Admitted(fo) == {c \in Container : Admits(fo, c)}

\* Faulty variants of MergeFilterOptions: the second scope is forgotten; a full
\* scan is narrowed to the scope it is merged with.
MergeKeepingFirstScope(a, b) ==
  IF Scoped(b) THEN a ELSE b

MergeNarrowingFullScan(a, b) ==
  [a EXCEPT !.ids = @ \cup b.ids, !.names = @ \cup b.names]

MergeFilterOptions(a, b) ==
  IF ~Scoped(a) THEN a
  ELSE IF ~Scoped(b) THEN b
  ELSE [a EXCEPT !.ids = @ \cup b.ids, !.names = @ \cup b.names]

=============================================================================
