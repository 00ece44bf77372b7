---------------------------- MODULE MCSelfUpdate ----------------------------
(* An instance of SelfUpdate for TLC. *)
EXTENDS SelfUpdate

CONSTANTS c1, c2, c3, c4

An(type, n, action) == [type |-> type, name |-> n, action |-> action]

\* The container by its name, or by that of its backup, next to another module
\* (which no container has the name of); and its removal.
MCLists ==
  {{An("self", 0, "install"), An("container", 2, "install")},
   {An("container", 0, "install"), An("container", 2, "install")},
   {An("container", 1, "install"), An("container", 2, "install")},
   {An("container", 0, "remove"), An("container", 2, "install")}}

\* The name of the container, or nothing.
MCContainerFlag == {0, None}
=============================================================================
